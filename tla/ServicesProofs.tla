---------------------------- MODULE ServicesProofs ----------------------------
(***************************************************************************)
(* What a listing of call logs says of the table, for any call logs, any   *)
(* searches and any changes of the table between two requests; how the     *)
(* statistics cut a period, and what they count in it, for any calls, any  *)
(* lengths of days and months and any requests.                            *)
(***************************************************************************)
EXTENDS CdrSearch, Statistics, NatLemmas, FiniteSetTheorems, FunctionTheorems, SequenceTheorems

SearchSpec == SearchInit /\ [][SearchNext]_searchVars
StatSpec == StatInit /\ [][StatNext]_statVars

-----------------------------------------------------------------------------
(***************************************************************************)
(* Orderings and pages.                                                    *)
(***************************************************************************)
Key(i, q) == OrderField(logs[i], q.order)

(* The call logs that come before another whatever the ordering.           *)
Before(i, q) ==
    {j \in Listed(q) : IF q.descending THEN Key(j, q) > Key(i, q) ELSE Key(j, q) < Key(i, q)}

DistinctKeys(q) == \A i, j \in Listed(q) : i # j => Key(i, q) # Key(j, q)

(* The rows are those of the ids given out so far.                         *)
RowsNumbered ==
    /\ lastId \in Nat
    /\ DOMAIN logs \subseteq 1..lastId
    /\ \A i \in DOMAIN logs : logs[i] \in Row

LEMMA FunctionIsSequence ==
    ASSUME NEW S, NEW n \in Nat, NEW f \in [1..n -> S]
    PROVE  f \in Seq(S) /\ Len(f) = n
<1>1. f \in Seq(S)
  BY SeqDef
<1>2. Len(f) \in Nat /\ 1..Len(f) = 1..n
  BY <1>1, LenProperties
<1>3. Len(f) <= n /\ n <= Len(f)
  <2>1. \A k \in Nat : (k \in 1..Len(f) <=> k \in 1..n)
    BY <1>2
  <2> QED BY <1>2, <2>1
<1> QED BY <1>1, <1>2, <1>3

(* Neighbours in order make a sequence in order.                           *)
LEMMA NeighboursSuffice ==
    ASSUME NEW n \in Nat, NEW f, \A k \in 1..n : f[k] \in Int,
           \A k \in 1..(n - 1) : f[k] <= f[k + 1],
           NEW a \in 1..n, NEW b \in 1..n, a <= b
    PROVE  f[a] <= f[b]
<1> DEFINE Bad == {k \in 1..n : a <= k /\ f[k] < f[a]}
<1> SUFFICES ASSUME ~ (f[a] <= f[b]) PROVE FALSE
  OBVIOUS
<1>1. Bad \subseteq Nat /\ Bad # {}
  OBVIOUS
<1>2. PICK k \in Bad : \A m \in Bad : k <= m
  <2> HIDE DEF Bad
  <2> QED BY <1>1, NatHasMinimum
<1>3. k # a /\ k - 1 \in 1..n /\ a <= k - 1
  BY <1>2
<1>4. k - 1 \notin Bad
  BY <1>2
<1>5. f[k - 1] >= f[a]
  BY <1>3, <1>4
<1>6. k - 1 \in 1..(n - 1) /\ (k - 1) + 1 = k
  BY <1>2, <1>3
<1>7. f[k - 1] <= f[k]
  BY <1>6
<1> QED BY <1>2, <1>3, <1>5, <1>7

LEMMA ListedIsFinite ==
    ASSUME RowsNumbered, NEW q
    PROVE  /\ IsFiniteSet(DOMAIN logs)
           /\ IsFiniteSet(Listed(q))
           /\ Listed(q) \subseteq DOMAIN logs
           /\ Cardinality(Listed(q)) \in Nat
<1>1. IsFiniteSet(DOMAIN logs)
  <2>1. lastId \in Int /\ DOMAIN logs \in SUBSET (1..lastId)
    BY DEF RowsNumbered
  <2>2. IsFiniteSet(1..lastId)
    BY <2>1, FS_Interval
  <2> QED BY <2>1, <2>2, FS_Subset
<1>2. Listed(q) \subseteq DOMAIN logs
  BY DEF Listed, LastWithPeer
<1> QED BY <1>1, <1>2, FS_Subset, FS_CardinalityType

LEMMA KeysAreIntegers ==
    ASSUME RowsNumbered, NEW q, IsQuery(q), NEW i \in DOMAIN logs
    PROVE  Key(i, q) \in Int
<1>1. logs[i].date \in Int /\ logs[i].answer \in Int /\ logs[i].end \in Int
  BY SearchAssumption DEF RowsNumbered
<1>2. q.order \in {"start", "answered", "duration", "call_status"}
  BY DEF IsQuery
<1>3. CASE q.order = "start"
  BY <1>1, <1>3 DEF Key, OrderField
<1>4. CASE q.order = "answered"
  BY <1>1, <1>4 DEF Key, OrderField
<1>5. CASE q.order = "duration"
  BY <1>1, <1>5 DEF Key, OrderField
<1>6. CASE q.order = "call_status"
  BY <1>6 DEF Key, OrderField
<1> QED BY <1>2, <1>3, <1>4, <1>5, <1>6

(* An ordering lists every call log once, in order.                        *)
LEMMA OrderingLists ==
    ASSUME RowsNumbered, NEW q, IsQuery(q), NEW s \in Orderings(q)
    PROVE  /\ Len(s) = Cardinality(Listed(q))
           /\ Len(s) \in Nat
           /\ s \in [1..Len(s) -> Listed(q)]
           /\ \A a, b \in 1..Len(s) : a # b => s[a] # s[b]
           /\ \A i \in Listed(q) : \E k \in 1..Len(s) : s[k] = i
           /\ \A a, b \in 1..Len(s) : a <= b =>
                  IF q.descending THEN Key(s[a], q) >= Key(s[b], q)
                  ELSE Key(s[a], q) <= Key(s[b], q)
<1> DEFINE L == Listed(q)
           n == Cardinality(L)
<1>1. /\ IsFiniteSet(L) /\ L \subseteq DOMAIN logs /\ n \in Nat
  BY ListedIsFinite
<1>2. /\ s \in [1..n -> L]
      /\ \A a, b \in 1..n : a # b => s[a] # s[b]
      /\ \A k \in 1..(Len(s) - 1) :
             IF q.descending THEN Key(s[k], q) >= Key(s[k + 1], q)
             ELSE Key(s[k], q) <= Key(s[k + 1], q)
  BY DEF Orderings, SetToSeqs, Key
<1> HIDE DEF L, n
<1>3. Len(s) = n
  BY <1>1, <1>2, FunctionIsSequence
<1>4. \A i \in L : \E k \in 1..n : s[k] = i
  <2>1. s \in Injection(1..n, L)
    BY <1>2 DEF Injection, IsInjective
  <2>2. Cardinality(1..n) = n
    BY <1>1, FS_Interval
  <2>3. s \in Surjection(1..n, L)
    BY <1>1, <2>1, <2>2, FS_Injection DEF n
  <2> QED BY <2>3 DEF Surjection
<1>5. \A k \in 1..n : Key(s[k], q) \in Int
  BY <1>1, <1>2, KeysAreIntegers
<1>6. ASSUME NEW a \in 1..n, NEW b \in 1..n, a <= b
      PROVE  IF q.descending THEN Key(s[a], q) >= Key(s[b], q)
             ELSE Key(s[a], q) <= Key(s[b], q)
  <2> DEFINE up == [k \in 1..n |-> Key(s[k], q)]
             down == [k \in 1..n |-> 0 - Key(s[k], q)]
  <2>1. CASE q.descending
    <3>1. \A k \in 1..n : down[k] \in Int
      BY <1>5
    <3>2. \A k \in 1..(n - 1) : down[k] <= down[k + 1]
      <4> TAKE k \in 1..(n - 1)
      <4>1. k \in 1..n /\ k + 1 \in 1..n
        BY <1>1
      <4>2. Key(s[k], q) >= Key(s[k + 1], q)
        BY <1>2, <1>3, <2>1
      <4> QED BY <1>5, <4>1, <4>2
    <3> HIDE DEF down
    <3>3. down[a] <= down[b]
      BY <1>1, <1>6, <3>1, <3>2, NeighboursSuffice
    <3> QED BY <1>5, <2>1, <3>3 DEF down
  <2>2. CASE ~ q.descending
    <3>1. \A k \in 1..n : up[k] \in Int
      BY <1>5
    <3>2. \A k \in 1..(n - 1) : up[k] <= up[k + 1]
      <4> TAKE k \in 1..(n - 1)
      <4>1. k \in 1..n /\ k + 1 \in 1..n
        BY <1>1
      <4>2. Key(s[k], q) <= Key(s[k + 1], q)
        BY <1>2, <1>3, <2>2
      <4> QED BY <1>5, <4>1, <4>2
    <3> HIDE DEF up
    <3>3. up[a] <= up[b]
      BY <1>1, <1>6, <3>1, <3>2, NeighboursSuffice
    <3> QED BY <1>5, <2>2, <3>3 DEF up
  <2> QED BY <2>1, <2>2
<1> QED BY <1>1, <1>2, <1>3, <1>4, <1>6 DEF L, n

(* What a page shows of an ordering.                                       *)
LastOnPage(s, q) == IF q.limit = 0 THEN Len(s) ELSE Least(Len(s), q.offset + q.limit)

LEMMA PageShows ==
    ASSUME RowsNumbered, NEW q, IsQuery(q), NEW s \in Orderings(q)
    PROVE  /\ LastOnPage(s, q) \in Nat
           /\ LastOnPage(s, q) <= Len(s)
           /\ DOMAIN Page(s, q) = 1..(LastOnPage(s, q) - q.offset)
           /\ \A k \in DOMAIN Page(s, q) :
                  /\ q.offset + k \in 1..Len(s)
                  /\ Page(s, q)[k] = s[q.offset + k]
<1> DEFINE z == LastOnPage(s, q)
           m == q.offset + 1
<1>1. Len(s) \in Nat /\ s \in [1..Len(s) -> Listed(q)]
  BY OrderingLists
<1>2. z \in Nat /\ z <= Len(s) /\ m \in Int
  BY <1>1 DEF LastOnPage, Least, IsQuery
<1>3. \A i \in m..z : s[i] \in Listed(q)
  BY <1>1, <1>2 DEF IsQuery
<1>4. Page(s, q) = SubSeq(s, m, z)
  BY DEF Page, LastOnPage
<1> HIDE DEF z
<1>5. /\ SubSeq(s, m, z) \in Seq(Listed(q))
      /\ Len(SubSeq(s, m, z)) = IF m <= z THEN z - m + 1 ELSE 0
      /\ \A i \in 1..(z - m + 1) : SubSeq(s, m, z)[i] = s[m + i - 1]
  BY <1>2, <1>3, SubSeqProperties
<1>6. DOMAIN Page(s, q) = 1..(z - q.offset)
  <2>1. DOMAIN Page(s, q) = 1..Len(Page(s, q))
    BY <1>4, <1>5, LenProperties
  <2>2. q.offset \in Nat
    BY DEF IsQuery
  <2>3. CASE m <= z
    BY <1>2, <1>4, <1>5, <2>1, <2>2, <2>3
  <2>4. CASE ~ (m <= z)
    <3>1. 1..(z - q.offset) = {} /\ 1..0 = {}
      BY <1>2, <2>2, <2>4
    <3> QED BY <1>4, <1>5, <2>1, <2>4, <3>1
  <2> QED BY <2>3, <2>4
<1>7. \A k \in DOMAIN Page(s, q) : /\ q.offset + k \in 1..Len(s)
                                   /\ Page(s, q)[k] = s[q.offset + k]
  <2> TAKE k \in DOMAIN Page(s, q)
  <2>1. q.offset \in Nat /\ k \in 1..(z - q.offset)
    BY <1>6 DEF IsQuery
  <2>2. k \in 1..(z - m + 1) /\ q.offset + k = m + k - 1 /\ q.offset + k \in 1..Len(s)
    BY <1>1, <1>2, <2>1
  <2> QED BY <1>4, <1>5, <2>2
<1> QED BY <1>2, <1>6, <1>7 DEF z

-----------------------------------------------------------------------------
(***************************************************************************)
(* Places.  When keys differ, the place of a call log in an ordering is    *)
(* the number of call logs before it, whichever ordering the database      *)
(* chose for the page.                                                     *)
(***************************************************************************)
Rank(i, q) == Cardinality(Before(i, q))

LEMMA PlaceIsRank ==
    ASSUME RowsNumbered, NEW q, IsQuery(q), DistinctKeys(q),
           NEW s \in Orderings(q), NEW k \in 1..Len(s)
    PROVE  Rank(s[k], q) = k - 1
<1> DEFINE B == Before(s[k], q)
           f == [m \in 1..(k - 1) |-> s[m]]
<1>1. /\ Len(s) \in Nat
      /\ s \in [1..Len(s) -> Listed(q)]
      /\ \A a, b \in 1..Len(s) : a # b => s[a] # s[b]
      /\ \A i \in Listed(q) : \E a \in 1..Len(s) : s[a] = i
      /\ \A a, b \in 1..Len(s) : a <= b =>
             IF q.descending THEN Key(s[a], q) >= Key(s[b], q)
             ELSE Key(s[a], q) <= Key(s[b], q)
  BY OrderingLists
<1>2. \A a \in 1..Len(s) : Key(s[a], q) \in Int
  BY <1>1, ListedIsFinite, KeysAreIntegers
<1>3. \A a, b \in 1..Len(s) : a # b => Key(s[a], q) # Key(s[b], q)
  BY <1>1 DEF DistinctKeys
<1>4. \A m \in 1..(k - 1) : m \in 1..Len(s) /\ s[m] \in B
  <2> TAKE m \in 1..(k - 1)
  <2>1. m \in 1..Len(s) /\ m <= k /\ m # k
    BY <1>1
  <2>2. s[m] \in Listed(q)
    BY <1>1, <2>1
  <2> QED BY <1>1, <1>2, <1>3, <2>1, <2>2 DEF Before
<1>5. \A i \in B : \E m \in 1..(k - 1) : s[m] = i
  <2> TAKE i \in B
  <2>1. PICK a \in 1..Len(s) : s[a] = i
    BY <1>1 DEF Before
  <2>2. IF q.descending THEN Key(s[a], q) > Key(s[k], q) ELSE Key(s[a], q) < Key(s[k], q)
    BY <2>1 DEF Before
  <2>3. ~ (k <= a)
    BY <1>1, <1>2, <2>2
  <2>4. a \in 1..(k - 1)
    BY <1>1, <2>3
  <2> QED BY <2>1, <2>4
<1>6. k - 1 \in Nat
  BY <1>1
<1> HIDE DEF B
<1>7. f \in Bijection(1..(k - 1), B)
  <2>1. f \in [1..(k - 1) -> B]
    BY <1>4
  <2>2. \A a, b \in 1..(k - 1) : f[a] = f[b] => a = b
    BY <1>1, <1>4
  <2>3. \A i \in B : \E m \in 1..(k - 1) : f[m] = i
    BY <1>5
  <2> QED BY <2>1, <2>2, <2>3 DEF Bijection, Injection, Surjection, IsInjective
<1>8. ExistsBijection(1..(k - 1), B)
  BY <1>7 DEF ExistsBijection
<1> QED BY <1>6, <1>8, FS_CountingElements DEF Rank, B

(* A page without repetition is a slice of the ranks.                      *)
LEMMA PageIsSlice ==
    ASSUME RowsNumbered, NEW q, IsQuery(q), DistinctKeys(q), NEW s \in Orderings(q)
    PROVE  /\ {Page(s, q)[k] : k \in DOMAIN Page(s, q)}
                  = {i \in Listed(q) : q.offset <= Rank(i, q) /\ Rank(i, q) < LastOnPage(s, q)}
           /\ \A i \in Listed(q) : Rank(i, q) \in Nat /\ Rank(i, q) < Len(s)
<1> DEFINE z == LastOnPage(s, q)
           P == {Page(s, q)[k] : k \in DOMAIN Page(s, q)}
           R == {i \in Listed(q) : q.offset <= Rank(i, q) /\ Rank(i, q) < z}
<1>1. /\ Len(s) \in Nat
      /\ s \in [1..Len(s) -> Listed(q)]
      /\ \A i \in Listed(q) : \E a \in 1..Len(s) : s[a] = i
  BY OrderingLists
<1>2. /\ z \in Nat /\ z <= Len(s)
      /\ DOMAIN Page(s, q) = 1..(z - q.offset)
      /\ \A k \in DOMAIN Page(s, q) : /\ q.offset + k \in 1..Len(s)
                                      /\ Page(s, q)[k] = s[q.offset + k]
  BY PageShows
<1>3. q.offset \in Nat
  BY DEF IsQuery
<1>4. \A a \in 1..Len(s) : Rank(s[a], q) = a - 1
  BY PlaceIsRank
<1>5. \A i \in Listed(q) : Rank(i, q) \in Nat /\ Rank(i, q) < Len(s)
  <2> TAKE i \in Listed(q)
  <2>1. PICK a \in 1..Len(s) : s[a] = i
    BY <1>1
  <2>2. Rank(i, q) = a - 1
    BY <1>4, <2>1
  <2> QED BY <1>1, <2>2
<1> HIDE DEF z
<1>6. ASSUME NEW k \in DOMAIN Page(s, q) PROVE Page(s, q)[k] \in R
  <2>1. /\ q.offset + k \in 1..Len(s) /\ Page(s, q)[k] = s[q.offset + k]
        /\ k \in 1..(z - q.offset)
    BY <1>2
  <2>2. Rank(Page(s, q)[k], q) = (q.offset + k) - 1
    BY <1>4, <2>1
  <2>3. Page(s, q)[k] \in Listed(q)
    BY <1>1, <2>1
  <2> QED BY <1>2, <1>3, <2>1, <2>2, <2>3
<1>7. ASSUME NEW i \in R PROVE i \in P
  <2>1. PICK a \in 1..Len(s) : s[a] = i
    BY <1>1
  <2>2. q.offset <= a - 1 /\ a - 1 < z
    BY <1>4, <2>1
  <2>3. a - q.offset \in DOMAIN Page(s, q) /\ q.offset + (a - q.offset) = a
    BY <1>1, <1>2, <1>3, <2>2
  <2>4. Page(s, q)[a - q.offset] = i
    BY <1>2, <2>1, <2>3
  <2> QED BY <2>3, <2>4
<1> QED BY <1>5, <1>6, <1>7 DEF z
-----------------------------------------------------------------------------
(***************************************************************************)
(* The invariant.  Of a listing in progress, whatever was stored and       *)
(* deleted: what its items say.  Of one that nothing has disturbed: what   *)
(* its counts, its page and the pages before it have to do with the table. *)
(***************************************************************************)
SearchField == {"step", "query", "disturbed", "listed", "total", "filtered", "items"}

WellFormed(w) ==
    /\ DOMAIN w = SearchField
    /\ w.step \in {"count", "find", "answered"}
    /\ w.disturbed \in BOOLEAN
    /\ DOMAIN w.items \subseteq Nat
    /\ IsQuery(w.query)
    /\ w.query.limit = 0 => w.query.offset = 0
    /\ w.query.status = NotGiven => /\ w.step = "count"
                                    /\ w.query.offset = 0 /\ w.listed = {}

(* An id is given once: while it is stored, its row is the one listed.     *)
ItemFits(x, q) ==
    /\ x.id \in 1..lastId
    /\ x.row \in Row
    /\ x.id \in DOMAIN logs => logs[x.id] = x.row
    /\ Visible(x.row, q)
    /\ Matches(x.row, x.id, q)

ItemsFit(w) == w.step = "answered" => \A k \in DOMAIN w.items : ItemFits(w.items[k], w.query)

ItemsSorted(w) ==
    w.step = "answered" =>
        LET key(k) == OrderField(w.items[k].row, w.query.order) IN
        \A a, b \in DOMAIN w.items :
            a <= b => IF w.query.descending THEN key(a) >= key(b) ELSE key(a) <= key(b)

CountsFit(w) ==
    w.step # "count" => /\ w.total = Cardinality({i \in DOMAIN logs : Visible(logs[i], w.query)})
                        /\ w.filtered = Cardinality(Listed(w.query))

Shown(s, q) ==
    [k \in DOMAIN Page(s, q) |-> [id |-> Page(s, q)[k], row |-> logs[Page(s, q)[k]]]]

PageFits(w) == w.step = "answered" => \E s \in Orderings(w.query) : w.items = Shown(s, w.query)

(* The pages before are the first call logs, as many as the offset says.   *)
EarlierFit(w) ==
    DistinctKeys(w.query) =>
        w.listed = {i \in Listed(w.query) : Rank(i, w.query) < w.query.offset}

Undisturbed(w) == ~ w.disturbed => CountsFit(w) /\ PageFits(w) /\ EarlierFit(w)

Sound(w) == WellFormed(w) /\ ItemsFit(w) /\ ItemsSorted(w) /\ Undisturbed(w)

SearchInv == RowsNumbered /\ \A w \in {search} : w = NoSearch \/ Sound(w)

-----------------------------------------------------------------------------
(***************************************************************************)
(* What the operators do not depend on.                                    *)
(***************************************************************************)
LEMMA SameTable ==
    ASSUME UNCHANGED <<logs, lastId>>
    PROVE  /\ RowsNumbered' <=> RowsNumbered
           /\ \A w : Sound(w)' <=> Sound(w)
<1>1. RowsNumbered' <=> RowsNumbered
  BY DEF RowsNumbered
<1>2. \A q : Listed(q)' = Listed(q)
  BY DEF Listed, LastWithPeer, Talked
<1>3. \A i, q : Key(i, q)' = Key(i, q)
  BY DEF Key
<1>4. \A i, q : Before(i, q)' = Before(i, q)
  BY <1>2, <1>3 DEF Before
<1>5. \A i, q : Rank(i, q)' = Rank(i, q)
  BY <1>4 DEF Rank
<1>6. \A q : DistinctKeys(q)' <=> DistinctKeys(q)
  BY <1>2, <1>3 DEF DistinctKeys
<1>7. \A q : Orderings(q)' = Orderings(q)
  BY <1>2 DEF Orderings
<1>8. \A s, q : Shown(s, q)' = Shown(s, q)
  BY DEF Shown
<1>9. \A w : ItemsFit(w)' <=> ItemsFit(w)
  BY DEF ItemsFit, ItemFits
<1>10. \A w : CountsFit(w)' <=> CountsFit(w)
  BY <1>2 DEF CountsFit
<1>11. \A w : PageFits(w)' <=> PageFits(w)
  BY <1>7, <1>8 DEF PageFits
<1>12. \A w : EarlierFit(w)' <=> EarlierFit(w)
  BY <1>2, <1>5, <1>6 DEF EarlierFit
<1>13. \A w : Sound(w)' <=> Sound(w)
  BY <1>9, <1>10, <1>11, <1>12 DEF Sound, Undisturbed, WellFormed, ItemsSorted
<1> QED BY <1>1, <1>13

LEMMA OffsetIsNoFilter ==
    ASSUME NEW q, IsQuery(q), NEW n \in Nat, NEW r, r = [q EXCEPT !.offset = n]
    PROVE  /\ IsQuery(r)
           /\ r.offset = n /\ r.limit = q.limit /\ r.status = q.status
           /\ Listed(r) = Listed(q)
           /\ DistinctKeys(r) <=> DistinctKeys(q)
           /\ \A i : Rank(i, r) = Rank(i, q)
<1>1. /\ DOMAIN r = QueryField
      /\ \A f \in QueryField : f # "offset" => r[f] = q[f]
      /\ r.offset = n
  BY DEF IsQuery, QueryField
<1>2. /\ r.tenants = q.tenants /\ r.me = q.me /\ r.users = q.users /\ r.from = q.from
      /\ r.until = q.until /\ r.direction = q.direction /\ r.fileOf = q.fileOf
      /\ r.fromId = q.fromId /\ r.recorded = q.recorded /\ r.status = q.status
      /\ r.distinct = q.distinct /\ r.order = q.order /\ r.descending = q.descending
      /\ r.limit = q.limit
  BY <1>1 DEF QueryField
<1>3. IsQuery(r)
  BY <1>1, <1>2 DEF IsQuery
<1>4. \A x, i : (Visible(x, r) <=> Visible(x, q)) /\ (Matches(x, i, r) <=> Matches(x, i, q))
  BY <1>2 DEF Visible, Matches, HasColumns
<1>5. Listed(r) = Listed(q)
  BY <1>2, <1>4 DEF Listed
<1>6. \A i : Key(i, r) = Key(i, q)
  BY <1>2 DEF Key
<1>7. \A i : Before(i, r) = Before(i, q)
  BY <1>2, <1>5, <1>6 DEF Before
<1> QED BY <1>1, <1>2, <1>3, <1>5, <1>6, <1>7 DEF DistinctKeys, Rank

LEMMA RankIsNatural ==
    ASSUME RowsNumbered, NEW q, NEW i PROVE Rank(i, q) \in Nat
<1>1. IsFiniteSet(Listed(q)) /\ Before(i, q) \in SUBSET Listed(q)
  BY ListedIsFinite DEF Before
<1> QED BY <1>1, FS_Subset, FS_CardinalityType DEF Rank

-----------------------------------------------------------------------------
(***************************************************************************)
(* The steps of a listing.                                                 *)
(***************************************************************************)
LEMMA SearchSound ==
    ASSUME RowsNumbered, NEW q \in Query, Search(q), NEW w, w = search'
    PROVE  Sound(w)
<1>1. IsQuery(q) /\ q.offset = 0
  BY SearchAssumption
<1>2. w = [step |-> "count", query |-> q, disturbed |-> FALSE,
           listed |-> {}, total |-> 0, filtered |-> 0, items |-> <<>>]
  BY DEF Search
<1>3. /\ w.step = "count" /\ w.query = q /\ w.disturbed = FALSE /\ w.listed = {}
      /\ DOMAIN w = SearchField /\ w.items = <<>>
  BY <1>2 DEF SearchField
<1>4. WellFormed(w)
  <2>1. DOMAIN w.items = {}
    BY <1>3
  <2> QED BY <1>1, <1>3, <2>1 DEF WellFormed
<1>5. EarlierFit(w)
  <2>1. \A i : ~ (Rank(i, q) < 0)
    BY RankIsNatural
  <2> QED BY <1>1, <1>3, <2>1 DEF EarlierFit
<1> QED BY <1>3, <1>4, <1>5
        DEF Sound, ItemsFit, ItemsSorted, Undisturbed, CountsFit, PageFits

LEMMA CountSound ==
    ASSUME RowsNumbered, Sound(search), CountInPeriod, NEW w, w = search'
    PROVE  Sound(w)
<1> DEFINE q == IF search.query.status = NotGiven
                THEN [search.query EXCEPT !.status = "default"] ELSE search.query
<1>1. WellFormed(search)
  BY DEF Sound
<1>2. /\ search.step = "count"
      /\ w = [search EXCEPT
                 !.step = "find", !.query = q,
                 !.total = Cardinality({i \in DOMAIN logs : Visible(logs[i], q)}),
                 !.filtered = Cardinality(Listed(q))]
  BY DEF CountInPeriod
<1>3. /\ IsQuery(q) /\ q.status # NotGiven
      /\ q.limit = search.query.limit /\ q.offset = search.query.offset
  <2>1. IsQuery(search.query)
    BY <1>1 DEF WellFormed
  <2>2. CASE search.query.status = NotGiven
    <3> DEFINE r == [search.query EXCEPT !.status = "default"]
    <3>1. /\ DOMAIN r = QueryField
          /\ r.status = "default" /\ r.order = search.query.order
          /\ r.descending = search.query.descending
          /\ r.limit = search.query.limit /\ r.offset = search.query.offset
      BY <2>1 DEF IsQuery, QueryField
    <3> HIDE DEF r
    <3>2. IsQuery(r) /\ r.status # NotGiven
      BY <2>1, <3>1 DEF IsQuery, NotGiven
    <3> QED BY <2>2, <3>1, <3>2 DEF r
  <2> QED BY <2>1, <2>2
<1> HIDE DEF q
<1>4. /\ DOMAIN w = SearchField
      /\ w.step = "find" /\ w.query = q /\ w.disturbed = search.disturbed
      /\ w.listed = search.listed /\ w.items = search.items
      /\ w.total = Cardinality({i \in DOMAIN logs : Visible(logs[i], q)})
      /\ w.filtered = Cardinality(Listed(q))
  BY <1>1, <1>2 DEF WellFormed, SearchField
<1>5. WellFormed(w)
  BY <1>1, <1>3, <1>4 DEF WellFormed
<1>6. CountsFit(w)
  BY <1>4 DEF CountsFit
<1>7. ~ w.disturbed => EarlierFit(w)
  <2>1. CASE search.query.status = NotGiven
    <3>1. q.offset = 0 /\ w.listed = {}
      BY <1>1, <1>3, <1>4, <2>1 DEF WellFormed
    <3>2. \A i : ~ (Rank(i, q) < 0)
      BY RankIsNatural
    <3> QED BY <1>4, <3>1, <3>2 DEF EarlierFit
  <2>2. CASE search.query.status # NotGiven
    <3>1. q = search.query
      BY <2>2 DEF q
    <3> QED BY <1>4, <3>1 DEF EarlierFit, Sound, Undisturbed
  <2> QED BY <2>1, <2>2
<1> QED BY <1>4, <1>5, <1>6, <1>7 DEF Sound, ItemsFit, ItemsSorted, Undisturbed, PageFits

LEMMA FindSound ==
    ASSUME RowsNumbered, Sound(search), FindAllInPeriod, NEW w, w = search'
    PROVE  Sound(w)
<1> DEFINE q == search.query
<1>1. WellFormed(search) /\ IsQuery(q)
  BY DEF Sound, WellFormed
<1>2. PICK s \in Orderings(q) :
          w = [search EXCEPT !.step = "answered", !.items = Shown(s, q)]
  BY DEF FindAllInPeriod, Shown
<1>3. search.step = "find"
  BY DEF FindAllInPeriod
<1>4. /\ DOMAIN w = SearchField
      /\ w.step = "answered" /\ w.query = q /\ w.disturbed = search.disturbed
      /\ w.listed = search.listed /\ w.total = search.total /\ w.filtered = search.filtered
      /\ w.items = Shown(s, q)
  BY <1>1, <1>2 DEF WellFormed, SearchField
<1> HIDE DEF q
<1>5. WellFormed(w)
  <2>1. DOMAIN w.items \subseteq Nat
    <3>1. DOMAIN w.items = 1..(LastOnPage(s, q) - q.offset)
      BY <1>1, <1>4, PageShows DEF Shown
    <3>2. LastOnPage(s, q) \in Nat /\ q.offset \in Nat
      BY <1>1, PageShows DEF IsQuery
    <3> QED BY <3>1, <3>2
  <2> QED BY <1>1, <1>3, <1>4, <2>1 DEF WellFormed, q
<1>6. \A k \in DOMAIN w.items : /\ q.offset + k \in 1..Len(s)
                                /\ s[q.offset + k] \in Listed(q)
                                /\ w.items[k].id = s[q.offset + k]
                                /\ w.items[k].row = logs[s[q.offset + k]]
  BY <1>1, <1>4, PageShows, OrderingLists DEF Shown
<1>7. ItemsFit(w)
  <2> SUFFICES ASSUME NEW k \in DOMAIN w.items PROVE ItemFits(w.items[k], q)
    BY <1>4 DEF ItemsFit
  <2> DEFINE i == s[q.offset + k]
  <2>1. i \in Listed(q) /\ i \in DOMAIN logs /\ w.items[k].id = i /\ w.items[k].row = logs[i]
    BY <1>6, ListedIsFinite
  <2>2. Visible(logs[i], q) /\ Matches(logs[i], i, q)
    BY <2>1 DEF Listed
  <2> QED BY <2>1, <2>2 DEF ItemFits, RowsNumbered
<1>8. ItemsSorted(w)
  <2> SUFFICES ASSUME NEW a \in DOMAIN w.items, NEW b \in DOMAIN w.items, a <= b
               PROVE  IF q.descending
                      THEN Key(s[q.offset + a], q) >= Key(s[q.offset + b], q)
                      ELSE Key(s[q.offset + a], q) <= Key(s[q.offset + b], q)
    BY <1>4, <1>6 DEF ItemsSorted, Key
  <2>1. a \in Nat /\ b \in Nat /\ q.offset \in Nat
    BY <1>1, <1>4, PageShows DEF Shown, IsQuery
  <2>2. q.offset + a <= q.offset + b
    BY <2>1
  <2> QED BY <1>1, <1>6, <2>2, OrderingLists
<1>9. Undisturbed(w)
  BY <1>3, <1>4 DEF Undisturbed, CountsFit, PageFits, EarlierFit, Sound, q
<1> QED BY <1>5, <1>7, <1>8, <1>9 DEF Sound

LEMMA NextPageSound ==
    ASSUME RowsNumbered, Sound(search), NextPage, NEW w, w = search', w # NoSearch
    PROVE  Sound(w)
<1> DEFINE q == search.query
           r == [q EXCEPT !.offset = q.offset + q.limit]
<1>1. WellFormed(search) /\ IsQuery(q) /\ search.step = "answered"
  BY DEF Sound, WellFormed, NextPage
<1>2. /\ q.limit # 0
      /\ w = [search EXCEPT !.step = "count", !.items = <<>>, !.query = r,
                            !.listed = search.listed \cup Ids]
  BY DEF NextPage
<1>3. q.offset + q.limit \in Nat /\ q.offset \in Nat /\ q.limit \in Nat
  BY <1>1 DEF IsQuery
<1>4. /\ IsQuery(r) /\ r.offset = q.offset + q.limit /\ r.limit = q.limit
      /\ r.status = q.status
      /\ Listed(r) = Listed(q)
      /\ DistinctKeys(r) <=> DistinctKeys(q)
      /\ \A i : Rank(i, r) = Rank(i, q)
  <2>1. r = [q EXCEPT !.offset = q.offset + q.limit]
    OBVIOUS
  <2> DEFINE n == q.offset + q.limit
  <2>2. IsQuery(q) /\ n \in Nat /\ r = [q EXCEPT !.offset = n]
    BY <1>1, <1>3, <2>1
  <2> HIDE DEF q, r, n
  <2>3. /\ IsQuery(r) /\ r.offset = n /\ r.limit = q.limit /\ r.status = q.status
        /\ Listed(r) = Listed(q)
        /\ DistinctKeys(r) <=> DistinctKeys(q)
        /\ \A i : Rank(i, r) = Rank(i, q)
    BY <2>2, OffsetIsNoFilter
  <2> QED BY <2>3 DEF n
<1> HIDE DEF q, r
<1>5. /\ DOMAIN w = SearchField
      /\ w.step = "count" /\ w.query = r /\ w.disturbed = search.disturbed
      /\ w.listed = search.listed \cup Ids /\ w.items = <<>>
  BY <1>1, <1>2 DEF WellFormed, SearchField
<1>6. WellFormed(w)
  BY <1>1, <1>2, <1>4, <1>5 DEF WellFormed, q
<1>7. ASSUME ~ w.disturbed, DistinctKeys(r)
      PROVE  w.listed = {i \in Listed(r) : Rank(i, r) < r.offset}
  <2>1. PageFits(search) /\ search.listed = {i \in Listed(q) : Rank(i, q) < q.offset}
    BY <1>4, <1>5, <1>7 DEF Sound, Undisturbed, EarlierFit, q
  <2>2. PICK s \in Orderings(q) : search.items = Shown(s, q)
    BY <1>1, <2>1 DEF PageFits, q
  <2>3. Ids = {Page(s, q)[k] : k \in DOMAIN Page(s, q)}
    BY <2>2 DEF Ids, Shown
  <2>4. /\ Ids = {i \in Listed(q) : q.offset <= Rank(i, q) /\ Rank(i, q) < LastOnPage(s, q)}
        /\ \A i \in Listed(q) : Rank(i, q) \in Nat /\ Rank(i, q) < Len(s)
    BY <1>1, <1>4, <1>7, <2>3, PageIsSlice
  <2>5. Len(s) \in Nat /\ LastOnPage(s, q) = Least(Len(s), q.offset + q.limit)
    BY <1>1, <1>2, OrderingLists DEF LastOnPage
  <2>6. \A i \in Listed(q) : Rank(i, q) < q.offset + q.limit
            <=> \/ Rank(i, q) < q.offset
                \/ q.offset <= Rank(i, q) /\ Rank(i, q) < LastOnPage(s, q)
    BY <1>3, <2>4, <2>5 DEF Least
  <2> QED BY <1>4, <1>5, <2>1, <2>4, <2>6
<1>8. Undisturbed(w)
  BY <1>5, <1>7 DEF Undisturbed, CountsFit, PageFits, EarlierFit
<1> QED BY <1>5, <1>6, <1>8 DEF Sound, ItemsFit, ItemsSorted

(* A change of the table marks the listing, and takes no row that an item  *)
(* shows to another id.                                                    *)
LEMMA ChangeSound ==
    ASSUME RowsNumbered, Sound(search), search' = Disturbed, search # NoSearch,
           lastId' \in Nat, lastId <= lastId',
           \A i \in DOMAIN logs' : i \in 1..lastId => i \in DOMAIN logs /\ logs'[i] = logs[i],
           NEW w, w = search'
    PROVE  Sound(w)'
<1>1. WellFormed(search)
  BY DEF Sound
<1>2. w = [search EXCEPT !.disturbed = TRUE]
  BY DEF Disturbed
<1>3. /\ DOMAIN w = SearchField
      /\ w.step = search.step /\ w.query = search.query /\ w.disturbed = TRUE
      /\ w.listed = search.listed /\ w.items = search.items
  BY <1>1, <1>2 DEF WellFormed, SearchField
<1>4. WellFormed(w)
  BY <1>1, <1>3 DEF WellFormed
<1>5. ItemsSorted(w)
  BY <1>3 DEF Sound, ItemsSorted
<1>6. ItemsFit(w)'
  <2> SUFFICES ASSUME w.step = "answered", NEW k \in DOMAIN w.items
               PROVE  ItemFits(w.items[k], w.query)'
    BY DEF ItemsFit
  <2>1. ItemFits(w.items[k], w.query)
    BY <1>3 DEF Sound, ItemsFit
  <2>2. w.items[k].id \in 1..lastId'
    BY <2>1 DEF ItemFits, RowsNumbered
  <2> QED BY <2>1, <2>2 DEF ItemFits
<1>7. Undisturbed(w)'
  BY <1>3 DEF Undisturbed
<1> QED BY <1>4, <1>5, <1>6, <1>7 DEF Sound, WellFormed, ItemsSorted

-----------------------------------------------------------------------------
LEMMA SearchStarts == SearchInit => SearchInv
BY DEF SearchInit, SearchInv, RowsNumbered

LEMMA SearchStepKeeps == SearchInv /\ [SearchNext]_searchVars => SearchInv'
<1> SUFFICES ASSUME SearchInv, [SearchNext]_searchVars PROVE SearchInv'
  OBVIOUS
<1>1. RowsNumbered /\ (search = NoSearch \/ Sound(search))
  BY DEF SearchInv
<1>2. NoSearch.step = "none"
  BY DEF NoSearch
<1>3. ASSUME UNCHANGED <<logs, lastId>>,
             \A w : w = search' => w = NoSearch \/ Sound(w)
      PROVE  SearchInv'
  BY <1>1, <1>3, SameTable DEF SearchInv
<1>4. ASSUME RowsNumbered', search' = Disturbed, lastId <= lastId',
             \A i \in DOMAIN logs' : i \in 1..lastId => i \in DOMAIN logs /\ logs'[i] = logs[i]
      PROVE  SearchInv'
  <2>1. CASE search = NoSearch
    BY <1>4, <2>1 DEF SearchInv, Disturbed
  <2>2. CASE search # NoSearch
    <3>1. lastId' \in Nat
      BY <1>4 DEF RowsNumbered
    <3>2. \A w : w = search' => Sound(w)'
      BY <1>1, <1>4, <2>2, <3>1, ChangeSound
    <3> QED BY <1>4, <3>2 DEF SearchInv
  <2> QED BY <2>1, <2>2
<1>5. ASSUME NEW r \in Row, StoreCallLog(r) PROVE SearchInv'
  <2>1. /\ lastId \in Nat /\ DOMAIN logs \subseteq 1..lastId
        /\ \A i \in DOMAIN logs : logs[i] \in Row
    BY <1>1 DEF RowsNumbered
  <2>2. /\ lastId' = lastId + 1 /\ search' = Disturbed
        /\ logs' = [i \in DOMAIN logs \cup {lastId + 1} |->
                       IF i = lastId + 1 THEN r ELSE logs[i]]
    BY <1>5 DEF StoreCallLog
  <2>3. RowsNumbered'
    BY <2>1, <2>2 DEF RowsNumbered
  <2>4. \A i \in DOMAIN logs' : i \in 1..lastId => i \in DOMAIN logs /\ logs'[i] = logs[i]
    BY <2>1, <2>2
  <2> QED BY <1>4, <2>1, <2>2, <2>3, <2>4
<1>6. ASSUME NEW j \in DOMAIN logs, DeleteCallLog(j) PROVE SearchInv'
  <2>1. /\ lastId \in Nat /\ DOMAIN logs \subseteq 1..lastId
        /\ \A i \in DOMAIN logs : logs[i] \in Row
    BY <1>1 DEF RowsNumbered
  <2>2. /\ lastId' = lastId /\ search' = Disturbed
        /\ logs' = [i \in DOMAIN logs \ {j} |-> logs[i]]
    BY <1>6 DEF DeleteCallLog
  <2>3. RowsNumbered'
    BY <2>1, <2>2 DEF RowsNumbered
  <2>4. \A i \in DOMAIN logs' : i \in 1..lastId => i \in DOMAIN logs /\ logs'[i] = logs[i]
    BY <2>2
  <2> QED BY <1>4, <2>1, <2>2, <2>3, <2>4
<1>7. ASSUME NEW q \in Query, Search(q) PROVE SearchInv'
  <2>1. UNCHANGED <<logs, lastId>>
    BY <1>7 DEF Search
  <2> QED BY <1>1, <1>3, <1>7, <2>1, SearchSound
<1>8. CASE CountInPeriod
  <2>1. UNCHANGED <<logs, lastId>> /\ search # NoSearch
    BY <1>2, <1>8 DEF CountInPeriod
  <2> QED BY <1>1, <1>3, <1>8, <2>1, CountSound
<1>9. CASE FindAllInPeriod
  <2>1. UNCHANGED <<logs, lastId>> /\ search # NoSearch
    BY <1>2, <1>9 DEF FindAllInPeriod
  <2> QED BY <1>1, <1>3, <1>9, <2>1, FindSound
<1>10. CASE NextPage
  <2>1. UNCHANGED <<logs, lastId>> /\ search # NoSearch
    BY <1>2, <1>10 DEF NextPage
  <2> QED BY <1>1, <1>3, <1>10, <2>1, NextPageSound
<1>11. CASE UNCHANGED searchVars
  BY <1>1, <1>3, <1>11 DEF searchVars
<1> QED BY <1>5, <1>6, <1>7, <1>8, <1>9, <1>10, <1>11 DEF SearchNext

LEMMA SearchInvariant == SearchSpec => []SearchInv
BY SearchStarts, SearchStepKeeps, PTL DEF SearchSpec

-----------------------------------------------------------------------------
(***************************************************************************)
(* What an answer says.                                                    *)
(***************************************************************************)
LEMMA AnswerIsSound ==
    ASSUME SearchInv, Answered
    PROVE  RowsNumbered /\ Sound(search) /\ WellFormed(search) /\ IsQuery(search.query)
<1>1. search # NoSearch
  BY DEF Answered, NoSearch
<1> QED BY <1>1 DEF SearchInv, Sound, WellFormed

(* An undisturbed answer is a page of an ordering of the table as it is.   *)
LEMMA UndisturbedAnswer ==
    ASSUME SearchInv, Answered, ~ search.disturbed
    PROVE  \E s \in Orderings(search.query) :
               /\ Len(s) = Cardinality(Listed(search.query))
               /\ Len(s) \in Nat
               /\ search.items = Shown(s, search.query)
               /\ Ids = {Page(s, search.query)[k] : k \in DOMAIN Page(s, search.query)}
<1>1. PageFits(search)
  BY AnswerIsSound DEF Sound, Undisturbed
<1>2. PICK s \in Orderings(search.query) : search.items = Shown(s, search.query)
  BY <1>1 DEF PageFits, Answered
<1>3. Ids = {Page(s, search.query)[k] : k \in DOMAIN Page(s, search.query)}
  BY <1>2 DEF Ids, Shown
<1> QED BY <1>2, <1>3, AnswerIsSound, OrderingLists

(* An answer holds ids that were given out, with rows that were stored.    *)
THEOREM SearchStaysTyped == SearchSpec => []SearchTypeOK
<1>1. SearchInv => SearchTypeOK
  <2> SUFFICES ASSUME SearchInv PROVE SearchTypeOK
    OBVIOUS
  <2>1. RowsNumbered
    BY DEF SearchInv
  <2>2. ASSUME Answered, NEW x \in Items PROVE x.id \in 1..lastId /\ x.row \in Row
    BY <2>2, AnswerIsSound DEF Sound, ItemsFit, ItemFits, Items, Answered
  <2> QED BY <2>1, <2>2 DEF SearchTypeOK, RowsNumbered
<1> QED BY <1>1, SearchInvariant, PTL

(* Of an unchanged table, a page holds no more than was counted, all of it *)
(* when it has no limit, and what was counted is among what the client can *)
(* see (count_in_period and find_all_in_period).                           *)
THEOREM CountsStayAgreed == SearchSpec => []CountsAgree
<1>1. SearchInv => CountsAgree
  <2> SUFFICES ASSUME SearchInv, Answered, ~ search.disturbed
               PROVE  /\ Len(search.items) <= search.filtered
                      /\ search.filtered <= search.total
                      /\ search.query.limit = 0 /\ search.query.offset = 0
                             => Len(search.items) = search.filtered
    BY DEF CountsAgree
  <2> DEFINE q == search.query
  <2>1. RowsNumbered /\ IsQuery(q)
    BY AnswerIsSound
  <2>2. /\ search.total = Cardinality({i \in DOMAIN logs : Visible(logs[i], q)})
        /\ search.filtered = Cardinality(Listed(q))
    BY AnswerIsSound DEF Sound, Undisturbed, CountsFit, Answered
  <2>3. PICK s \in Orderings(q) : /\ Len(s) = Cardinality(Listed(q))
                                  /\ Len(s) \in Nat
                                  /\ search.items = Shown(s, q)
    BY UndisturbedAnswer
  <2> HIDE DEF q
  <2>4. Cardinality(Listed(q)) <= Cardinality({i \in DOMAIN logs : Visible(logs[i], q)})
    <3> DEFINE V == {i \in DOMAIN logs : Visible(logs[i], q)}
    <3>1. IsFiniteSet(V)
      BY <2>1, ListedIsFinite, FS_Subset
    <3>2. Listed(q) \in SUBSET V
      BY <2>1, ListedIsFinite DEF Listed
    <3> QED BY <3>1, <3>2, FS_Subset
  <2> DEFINE z == LastOnPage(s, q)
             n == IF q.offset <= z THEN z - q.offset ELSE 0
  <2>5. z \in Nat /\ z <= Len(s) /\ q.offset \in Nat
    BY <2>1, PageShows DEF IsQuery
  <2>6. DOMAIN Page(s, q) = 1..(z - q.offset)
    BY <2>1, PageShows
  <2>7. Len(search.items) = n
    <3> HIDE DEF z
    <3>1. n \in Nat /\ 1..(z - q.offset) = 1..n
      BY <2>5
    <3>2. search.items \in [1..n -> {search.items[k] : k \in 1..n}]
      BY <2>3, <2>6, <3>1 DEF Shown
    <3> QED BY <3>1, <3>2, FunctionIsSequence
  <2>8. q.limit = 0 => z = Len(s)
    BY DEF LastOnPage
  <2> HIDE DEF z
  <2> QED BY <2>2, <2>3, <2>4, <2>5, <2>7, <2>8 DEF q
<1> QED BY <1>1, SearchInvariant, PTL

(* Of an unchanged table and without a limit, all that is listed is shown. *)
LEMMA WholeListIsShown ==
    ASSUME SearchInv, Answered, ~ search.disturbed, search.query.limit = 0,
           NEW i \in Listed(search.query)
    PROVE  i \in Ids
<1> DEFINE q == search.query
<1>1. RowsNumbered /\ IsQuery(q) /\ WellFormed(search)
  BY AnswerIsSound
<1>2. PICK s \in Orderings(q) :
          /\ Len(s) \in Nat
          /\ Ids = {Page(s, q)[k] : k \in DOMAIN Page(s, q)}
  BY UndisturbedAnswer
<1>3. q.limit = 0 /\ i \in Listed(q)
  OBVIOUS
<1>4. q.offset = 0
  BY <1>1, <1>3 DEF WellFormed
<1> HIDE DEF q
<1>5. PICK a \in 1..Len(s) : s[a] = i
  BY <1>1, <1>3, OrderingLists
<1>6. LastOnPage(s, q) = Len(s)
  BY <1>3, <1>4 DEF LastOnPage
<1>7. a \in DOMAIN Page(s, q) /\ Page(s, q)[a] = s[q.offset + a] /\ q.offset + a = a
  BY <1>1, <1>2, <1>4, <1>6, PageShows
<1> QED BY <1>2, <1>5, <1>7

(* The subquery's first row is a participant that the relationship shows,  *)
(* and of the user that it shows.                                          *)
LEMMA SubqueryFindsDestination ==
    ASSUME NEW r \in Row
    PROVE  FirstDestinationUser(r) = {p.user : p \in DestinationParticipant(r)}
<1> DEFINE dest == WithRole(r, "destination")
           answering == {p \in dest : p.answered}
           firstRows == {p \in dest : \A q \in dest : ComesBefore(p, q)}
<1>1. FirstDestinationUser(r) = {p.user : p \in firstRows}
  BY DEF FirstDestinationUser, WithRole
<1>2. CASE \E p \in dest : p.answered
  <2>1. DestinationParticipant(r) = {p \in answering : \A q \in answering : q.user <= p.user}
    BY <1>2 DEF DestinationParticipant
  <2>2. firstRows = {p \in answering : \A q \in answering : q.user <= p.user}
    BY <1>2 DEF ComesBefore
  <2> QED BY <1>1, <2>1, <2>2
<1>3. CASE ~ \E p \in dest : p.answered
  <2>1. DestinationParticipant(r) = {p \in dest : \A q \in dest : q.user <= p.user}
    BY <1>3 DEF DestinationParticipant
  <2>2. firstRows = {p \in dest : \A q \in dest : q.user <= p.user}
    BY <1>3 DEF ComesBefore
  <2> QED BY <1>1, <2>1, <2>2
<1> QED BY <1>2, <1>3

(* So the filter asks for the ends that are shown.                         *)
LEMMA FilterAsksForShownEnds ==
    ASSUME NEW r \in Row, NEW users
    PROVE  HasEnd(r, users) <=> \E p \in ShownEnds(r) : p.user \in users
BY SubqueryFindsDestination DEF HasEnd, ShownEnds

(* A call log listed for some users shows one of them, each of its ends    *)
(* can fetch it while it is stored, for ids are not given again, and of an *)
(* unchanged table every call log that shows one of them is listed: the    *)
(* subquery of terminal_user_uuids and the relationship                    *)
(* destination_participant, defined apart, agree.                          *)
THEOREM ListedCallLogsShowTheirUser == SearchSpec => []ListedCallLogShowsItsUser
<1>1. SearchInv => ListedCallLogShowsItsUser
  <2> DEFINE q == search.query
             shows(r) == \E p \in ShownEnds(r) : p.user \in q.users
  <2> SUFFICES ASSUME SearchInv, Answered, q.users # {}
               PROVE  /\ \A x \in Items :
                            /\ shows(x.row)
                            /\ \A p \in ShownEnds(x.row) :
                                   x.id \in DOMAIN logs => Fetched(x.id, q.tenants, {p.user})
                      /\ ~search.disturbed /\ q.limit = 0 /\ ~q.distinct =>
                             \A i \in DOMAIN logs :
                                 /\ shows(logs[i]) /\ Visible(logs[i], q)
                                 /\ Matches(logs[i], i, [q EXCEPT !.users = {}])
                                 => i \in Ids
    BY DEF ListedCallLogShowsItsUser
  <2>1. ASSUME NEW x \in Items
        PROVE  /\ shows(x.row)
               /\ \A p \in ShownEnds(x.row) :
                      x.id \in DOMAIN logs => Fetched(x.id, q.tenants, {p.user})
    <3>1. ItemFits(x, q)
      BY <2>1, AnswerIsSound DEF Sound, ItemsFit, Items, Answered
    <3>2. HasEnd(x.row, q.users) /\ x.row.tenant \in q.tenants /\ x.row \in Row
      BY <3>1 DEF ItemFits, Matches, Visible
    <3>3. shows(x.row)
      BY <3>2, FilterAsksForShownEnds
    <3>4. \A p \in ShownEnds(x.row) : p \in x.row.parts
      BY DEF ShownEnds, WithRole, DestinationParticipant
    <3>5. ASSUME NEW p \in ShownEnds(x.row), x.id \in DOMAIN logs
          PROVE  Fetched(x.id, q.tenants, {p.user})
      <4>1. logs[x.id] = x.row
        BY <3>1, <3>5 DEF ItemFits
      <4> QED BY <3>2, <3>4, <3>5, <4>1 DEF Fetched, HasParticipant
    <3> QED BY <3>3, <3>5
  <2>2. ASSUME ~ search.disturbed, q.limit = 0, ~ q.distinct, NEW i \in DOMAIN logs,
               shows(logs[i]), Visible(logs[i], q),
               Matches(logs[i], i, [q EXCEPT !.users = {}])
        PROVE  i \in Ids
    <3>1. RowsNumbered /\ IsQuery(q) /\ WellFormed(search)
      BY AnswerIsSound
    <3> DEFINE r == [q EXCEPT !.users = {}]
    <3>2. /\ r.status = q.status /\ r.from = q.from /\ r.until = q.until
          /\ r.direction = q.direction /\ r.fileOf = q.fileOf /\ r.fromId = q.fromId
          /\ r.recorded = q.recorded
      BY <3>1 DEF IsQuery, QueryField
    <3>3. HasEnd(logs[i], q.users)
      BY <2>2, <3>1, FilterAsksForShownEnds DEF RowsNumbered
    <3>4. Matches(logs[i], i, r)
      BY <2>2
    <3> HIDE DEF r
    <3>5. Matches(logs[i], i, q)
      BY <3>2, <3>3, <3>4 DEF Matches, HasColumns
    <3>6. i \in Listed(q)
      BY <2>2, <3>5 DEF Listed
    <3> QED BY <2>2, <3>1, <3>6, WholeListIsShown
  <2> QED BY <2>1, <2>2
<1> QED BY <1>1, SearchInvariant, PTL


(* Of an unchanged table whose rows differ in the field they are ordered   *)
(* by, no page repeats a call log of an earlier one and the last completes *)
(* the list, although the database may order each page anew.               *)
THEOREM PagesCompleteTheList == SearchSpec => []PagesMakeUpTheList
<1>1. SearchInv => PagesMakeUpTheList
  <2> DEFINE q == search.query
  <2> SUFFICES ASSUME SearchInv, Answered, ~ search.disturbed, DistinctKeys(q)
               PROVE  /\ Ids \cap search.listed = {}
                      /\ q.limit = 0 \/ q.offset + q.limit >= search.filtered
                             => Ids \cup search.listed = Listed(q)
    BY DEF PagesMakeUpTheList, DistinctKeys, Key
  <2>1. RowsNumbered /\ IsQuery(q) /\ (q.limit = 0 => q.offset = 0)
    BY AnswerIsSound DEF WellFormed
  <2>2. PICK s \in Orderings(q) :
            /\ Len(s) = Cardinality(Listed(q))
            /\ Len(s) \in Nat
            /\ Ids = {Page(s, q)[k] : k \in DOMAIN Page(s, q)}
    BY UndisturbedAnswer
  <2>3. /\ search.filtered = Len(s)
        /\ search.listed = {i \in Listed(q) : Rank(i, q) < q.offset}
    BY <2>2, AnswerIsSound DEF Sound, Undisturbed, CountsFit, EarlierFit, Answered
  <2> HIDE DEF q
  <2>4. /\ Ids = {i \in Listed(q) : q.offset <= Rank(i, q) /\ Rank(i, q) < LastOnPage(s, q)}
        /\ \A i \in Listed(q) : Rank(i, q) \in Nat /\ Rank(i, q) < Len(s)
    BY <2>1, <2>2, PageIsSlice
  <2>5. q.offset \in Nat /\ q.limit \in Nat
    BY <2>1 DEF IsQuery
  <2>6. Ids \cap search.listed = {}
    BY <2>3, <2>4, <2>5
  <2>7. ASSUME q.limit = 0 \/ q.offset + q.limit >= search.filtered
        PROVE  Ids \cup search.listed = Listed(q)
    <3>1. LastOnPage(s, q) = Len(s)
      BY <2>2, <2>3, <2>5, <2>7 DEF LastOnPage, Least
    <3>2. \A i \in Listed(q) : q.offset <= Rank(i, q) \/ Rank(i, q) < q.offset
      BY <2>4, <2>5
    <3> QED BY <2>3, <2>4, <3>1, <3>2
  <2> QED BY <2>6, <2>7
<1> QED BY <1>1, SearchInvariant, PTL

-----------------------------------------------------------------------------
(***************************************************************************)
(* The status, in SQL and in Python.                                       *)
(***************************************************************************)
Wanted(r, status) ==
    IF status = "default" THEN CallStatus(r) # "blocked" ELSE CallStatus(r) = status

LEMMA CallStatusCases ==
    ASSUME NEW r
    PROVE  /\ r.blocked = "yes" => CallStatus(r) = "blocked"
           /\ r.blocked # "yes" /\ r.answer # NoDate => CallStatus(r) = "answered"
           /\ r.blocked # "yes" /\ r.answer = NoDate /\ r.voicemail = "yes"
                  => CallStatus(r) = "voicemail"
           /\ r.blocked # "yes" /\ r.answer = NoDate /\ r.voicemail # "yes"
                  => CallStatus(r) = "unknown"
BY DEF CallStatus

LEMMA HasStatusCases ==
    ASSUME NEW r
    PROVE  /\ HasStatus(r, "blocked") <=> r.blocked = "yes"
           /\ HasStatus(r, "answered") <=> r.answer # NoDate /\ NotBlocked(r)
           /\ HasStatus(r, "voicemail")
                  <=> r.voicemail = "yes" /\ r.answer = NoDate /\ NotBlocked(r)
           /\ HasStatus(r, "unknown")
                  <=> r.voicemail \in {"no", Null} /\ r.answer = NoDate /\ NotBlocked(r)
           /\ HasStatus(r, "default") <=> NotBlocked(r)
BY DEF HasStatus, NotGiven

(* The filters ask for what the serialiser shows.                          *)
LEMMA StatusesAgree ==
    ASSUME NEW r \in Row,
           NEW status \in {"default", "blocked", "answered", "voicemail", "unknown"}
    PROVE  HasStatus(r, status) <=> Wanted(r, status)
<1>1. r.blocked \in {"yes", "no", Null} /\ r.voicemail \in {"yes", "no", Null}
  BY SearchAssumption
<1>2. NotBlocked(r) <=> r.blocked # "yes"
  BY <1>1 DEF NotBlocked, Null
<1>3. r.voicemail \in {"no", Null} <=> r.voicemail # "yes"
  BY <1>1 DEF Null
<1>4. CASE status = "default"
  BY <1>2, <1>4, CallStatusCases, HasStatusCases DEF Wanted
<1>5. CASE status = "blocked"
  BY <1>2, <1>5, CallStatusCases, HasStatusCases DEF Wanted
<1>6. CASE status = "answered"
  BY <1>2, <1>6, CallStatusCases, HasStatusCases DEF Wanted
<1>7. CASE status = "voicemail"
  BY <1>2, <1>7, CallStatusCases, HasStatusCases DEF Wanted
<1>8. CASE status = "unknown"
  BY <1>2, <1>3, <1>8, CallStatusCases, HasStatusCases DEF Wanted
<1> QED BY <1>4, <1>5, <1>6, <1>7, <1>8

(* The order by status groups call logs by the status shown.               *)
LEMMA StatusIsKey ==
    ASSUME NEW r \in Row, NEW t \in Row
    PROVE  /\ OrderField(r, "call_status") \in 1..4
           /\ CallStatus(r) = CallStatus(t)
                  <=> OrderField(r, "call_status") = OrderField(t, "call_status")
<1>1. ASSUME NEW u \in Row
      PROVE  \/ CallStatus(u) = "blocked" /\ OrderField(u, "call_status") = 2
             \/ CallStatus(u) = "voicemail" /\ OrderField(u, "call_status") = 3
             \/ CallStatus(u) = "answered" /\ OrderField(u, "call_status") = 4
             \/ CallStatus(u) = "unknown" /\ OrderField(u, "call_status") = 1
  <2>1. u.blocked \in {"yes", "no", Null}
    BY SearchAssumption
  <2>2. NotBlocked(u) <=> u.blocked # "yes"
    BY <2>1 DEF NotBlocked, Null
  <2>3. OrderField(u, "call_status")
            = IF HasStatus(u, "blocked") THEN 2
              ELSE IF HasStatus(u, "voicemail") THEN 3
              ELSE IF HasStatus(u, "answered") THEN 4 ELSE 1
    BY DEF OrderField
  <2> QED BY <2>2, <2>3, CallStatusCases, HasStatusCases
<1> QED BY <1>1

(* A search by status, and the order by status, go by the status that the  *)
(* items show, for rows that hold NULL as well; of an unchanged table      *)
(* nothing that is wanted is missing.                                      *)
THEOREM StatusFiltersStayAgreed == SearchSpec => []StatusFilterAgrees
<1>1. SearchInv => StatusFilterAgrees
  <2> DEFINE q == search.query
             status(k) == CallStatus(search.items[k].row)
  <2> SUFFICES ASSUME SearchInv, Answered
               PROVE  /\ \A x \in Items : Wanted(x.row, q.status)
                      /\ q.order = "call_status" =>
                             \A j, k, l \in DOMAIN search.items :
                                 j < k /\ k < l /\ status(j) = status(l)
                                     => status(k) = status(j)
                      /\ ~search.disturbed /\ q.limit = 0 /\ ~q.distinct =>
                             \A i \in DOMAIN logs :
                                 /\ Wanted(logs[i], q.status) /\ Visible(logs[i], q)
                                 /\ Matches(logs[i], i, [q EXCEPT !.status = NotGiven])
                                 => i \in Ids
    BY DEF StatusFilterAgrees, Wanted
  <2>1. RowsNumbered /\ IsQuery(q) /\ WellFormed(search)
    BY AnswerIsSound
  <2>2. q.status \in {"default", "blocked", "answered", "voicemail", "unknown"}
    BY <2>1 DEF WellFormed, IsQuery, Answered
  <2>3. \A k \in DOMAIN search.items : ItemFits(search.items[k], q)
    BY AnswerIsSound DEF Sound, ItemsFit, Answered
  <2>4. ASSUME NEW x \in Items PROVE Wanted(x.row, q.status)
    <3>1. HasStatus(x.row, q.status) /\ x.row \in Row
      BY <2>3 DEF Items, ItemFits, Matches
    <3> QED BY <2>2, <3>1, StatusesAgree
  <2>5. ASSUME q.order = "call_status",
               NEW j \in DOMAIN search.items, NEW k \in DOMAIN search.items,
               NEW l \in DOMAIN search.items, j < k, k < l, status(j) = status(l)
        PROVE  status(k) = status(j)
    <3> DEFINE key(m) == OrderField(search.items[m].row, "call_status")
    <3>1. \A m \in DOMAIN search.items : search.items[m].row \in Row
      BY <2>3 DEF ItemFits
    <3>2. key(j) \in Int /\ key(k) \in Int /\ key(l) \in Int /\ key(j) = key(l)
      BY <2>5, <3>1, StatusIsKey
    <3>3. \A a, b \in DOMAIN search.items :
              a <= b => IF q.descending THEN key(a) >= key(b) ELSE key(a) <= key(b)
      BY <2>5, AnswerIsSound DEF Sound, ItemsSorted, Answered
    <3>4. j <= k /\ k <= l
      <4>1. j \in Nat /\ k \in Nat /\ l \in Nat
        BY <2>1 DEF WellFormed
      <4> QED BY <2>5, <4>1
    <3>5. key(k) = key(j)
      BY <3>2, <3>3, <3>4
    <3> QED BY <3>1, <3>5, StatusIsKey
  <2>6. ASSUME ~ search.disturbed, q.limit = 0, ~ q.distinct, NEW i \in DOMAIN logs,
               Wanted(logs[i], q.status), Visible(logs[i], q),
               Matches(logs[i], i, [q EXCEPT !.status = NotGiven])
        PROVE  i \in Ids
    <3> DEFINE r == [q EXCEPT !.status = NotGiven]
    <3>1. /\ r.users = q.users /\ r.from = q.from /\ r.until = q.until
          /\ r.direction = q.direction /\ r.fileOf = q.fileOf /\ r.fromId = q.fromId
          /\ r.recorded = q.recorded
      BY <2>1 DEF IsQuery, QueryField
    <3>2. HasStatus(logs[i], q.status)
      BY <2>1, <2>2, <2>6, StatusesAgree DEF RowsNumbered
    <3>3. Matches(logs[i], i, r)
      BY <2>6
    <3> HIDE DEF r
    <3>4. Matches(logs[i], i, q)
      BY <3>1, <3>2, <3>3 DEF Matches, HasColumns
    <3>5. i \in Listed(q)
      BY <2>6, <3>4 DEF Listed
    <3> QED BY <2>6, <3>5, WholeListIsShown
  <2> HIDE DEF q, status
  <2> QED BY <2>4, <2>5, <2>6
<1> QED BY <1>1, SearchInvariant, PTL

-----------------------------------------------------------------------------
(***************************************************************************)
(* The intervals of a period.                                              *)
(***************************************************************************)
LEMMA LengthIsPositive ==
    ASSUME NEW interval \in {"hour", "day", "month"}
    PROVE  Length(interval) \in Nat \ {0}
<1>1. Length("hour") = 2 /\ Length("day") = 2 * Hours /\ Length("month") = 2 * Hours * Days
  BY DEF Length
<1>2. 2 * Hours \in Nat \ {0} /\ 2 * Hours * Days \in Nat \ {0}
  BY StatAssumption
<1> QED BY <1>1, <1>2

Pieces(from, until, delta) == (until - from + delta - 1) \div delta

(* The last piece begins before the period ends, and ends with it or later *)
(* if it is not cut.                                                       *)
LEMMA PiecesReachTheEnd ==
    ASSUME NEW from \in Nat, NEW until \in Nat, NEW delta \in Nat \ {0}, from + delta <= until
    PROVE  /\ Pieces(from, until, delta) \in Nat \ {0}
           /\ from + (Pieces(from, until, delta) - 1) * delta < until
           /\ until <= from + Pieces(from, until, delta) * delta
<1> DEFINE a == until - from + delta - 1
           n == a \div delta
<1>1. a \in Nat
  OBVIOUS
<1> HIDE DEF a
<1>2. n \in Nat /\ delta * n <= a /\ a < delta * n + delta
  BY <1>1
<1> HIDE DEF n
<1>3. delta * n = n * delta /\ (n - 1) * delta = n * delta - delta
  BY <1>2
<1>4. n * delta \in Nat
  BY <1>2
<1>5. n # 0
  <2> SUFFICES ASSUME n = 0 PROVE FALSE
    OBVIOUS
  <2>1. a < delta
    BY <1>2
  <2> QED BY <2>1 DEF a
<1>6. /\ from + (n * delta - delta) < until
      /\ until <= from + n * delta
  BY <1>2, <1>3, <1>4 DEF a
<1>7. Pieces(from, until, delta) = n
  BY DEF Pieces, n, a
<1> QED BY <1>2, <1>3, <1>5, <1>6, <1>7

(* The intervals make up the period, if it is as long as one of them.      *)
LEMMA SubintervalsTile ==
    ASSUME NEW from \in Nat, NEW until \in Nat, NEW delta \in Nat \ {0}, from + delta <= until
    PROVE  LET s == Subintervals(from, until, delta)
               n == Pieces(from, until, delta)
           IN  /\ n \in Nat \ {0} /\ DOMAIN s = 1..n
               /\ \A k \in 1..n : s[k].from \in Nat
               /\ s[1].from = from /\ s[n].until = until
               /\ \A k \in 1..(n - 1) : s[k + 1].from = s[k].until
<1> DEFINE s == Subintervals(from, until, delta)
           n == Pieces(from, until, delta)
<1>1. /\ n \in Nat \ {0}
      /\ from + (n - 1) * delta < until
      /\ until <= from + n * delta
  BY PiecesReachTheEnd
<1>2. DOMAIN s = 1..n /\ \A k \in 1..n :
          /\ s[k].from = from + (k - 1) * delta
          /\ s[k].until = IF k = 1 THEN from + delta ELSE Lower(from + k * delta, until)
  BY DEF Subintervals, Pieces
<1> HIDE DEF s, n
<1>3. \A k \in 1..n : (k - 1) * delta \in Nat
  BY <1>1
<1>4. s[1].from = from
  <2>1. 1 \in 1..n /\ (1 - 1) * delta = 0
    BY <1>1
  <2> QED BY <1>2, <2>1
<1>5. s[n].until = until
  <2>1. n \in 1..n /\ n * delta \in Nat
    BY <1>1
  <2>2. CASE n = 1
    <3>1. n * delta = delta
      BY <2>2
    <3> QED BY <1>1, <1>2, <2>1, <2>2, <3>1
  <2>3. CASE n # 1
    BY <1>1, <1>2, <2>1, <2>3 DEF Lower
  <2> QED BY <2>2, <2>3
<1>6. ASSUME NEW k \in 1..(n - 1) PROVE s[k + 1].from = s[k].until
  <2>1. k \in 1..n /\ k + 1 \in 1..n /\ (k + 1) - 1 = k
    BY <1>1
  <2>2. s[k + 1].from = from + k * delta
    BY <1>2, <2>1
  <2>3. k * delta \in Nat /\ (n - 1) * delta \in Nat /\ k * delta <= (n - 1) * delta
    <3>1. ((n - 1) - k) * delta >= 0
      BY <1>1
    <3>2. ((n - 1) - k) * delta = (n - 1) * delta - k * delta
      BY <1>1
    <3> QED BY <1>1, <3>1, <3>2
  <2>4. from + k * delta < until
    BY <1>1, <2>3
  <2>5. CASE k = 1
    <3>1. k * delta = delta
      BY <2>5
    <3> QED BY <1>2, <2>1, <2>2, <2>5, <3>1
  <2>6. CASE k # 1
    BY <1>2, <2>1, <2>2, <2>3, <2>4, <2>6 DEF Lower
  <2> QED BY <2>5, <2>6
<1>7. ASSUME NEW k \in 1..n PROVE s[k].from \in Nat
  <2> DEFINE m == (k - 1) * delta
  <2>1. m \in Nat /\ s[k].from = from + m
    BY <1>2, <1>3
  <2> HIDE DEF m
  <2> QED BY <2>1
<1> QED BY <1>1, <1>2, <1>4, <1>5, <1>6, <1>7 DEF s, n

(* Of all numbers up to n, the k-th is k.                                  *)
LEMMA KthOfAll ==
    ASSUME NEW n \in Nat, NEW k \in 1..n
    PROVE  Kth(1..n, k) = k
<1>1. ASSUME NEW i \in 1..n PROVE Cardinality({j \in 1..n : j <= i}) = i
  <2>1. {j \in 1..n : j <= i} = 1..i
    OBVIOUS
  <2>2. Cardinality(1..i) = i
    BY FS_Interval
  <2> QED BY <2>1, <2>2
<1> QED BY <1>1 DEF Kth

Joined(s, t) == s \o t

(* One sequence after another, place by place.                             *)
IsJoined(r, s, t) ==
    /\ Len(r) = Len(s) + Len(t)
    /\ \A k \in 1..Len(s) : r[k] = s[k]
    /\ \A k \in 1..Len(t) : r[Len(s) + k] = t[k]

LEMMA JoinedProperties ==
    ASSUME NEW S, NEW s \in Seq(S), NEW t \in Seq(S)
    PROVE  Joined(s, t) \in Seq(S) /\ IsJoined(Joined(s, t), s, t)
<1> DEFINE r == s \o t
<1>1. PICK m \in Nat, n \in Nat : m = Len(s) /\ n = Len(t)
  BY LenProperties
<1>2. /\ r \in Seq(S) /\ Len(r) = Len(s) + Len(t)
      /\ \A k \in 1..(Len(s) + Len(t)) : r[k] = IF k <= Len(s) THEN s[k] ELSE t[k - Len(s)]
  BY ConcatProperties
<1> HIDE DEF r
<1>3. \A k \in 1..(m + n) : r[k] = IF k <= m THEN s[k] ELSE t[k - m]
  BY <1>1, <1>2
<1>4. \A k \in 1..m : k \in 1..(m + n) /\ k <= m
  OBVIOUS
<1>5. \A k \in 1..n : m + k \in 1..(m + n) /\ ~ (m + k <= m) /\ (m + k) - m = k
  OBVIOUS
<1>6. \A k \in 1..m : r[k] = s[k]
  BY <1>3, <1>4
<1>7. \A k \in 1..n : r[m + k] = t[k]
  BY <1>3, <1>5
<1>8. Joined(s, t) = r
  BY DEF Joined, r
<1>9. IsJoined(r, s, t)
  BY <1>1, <1>2, <1>6, <1>7 DEF IsJoined
<1> QED BY <1>2, <1>8, <1>9

LEMMA KeptWhenUnrestricted ==
    ASSUME NEW q, NEW frame, frame.from \in Nat, q.window = {}, q.days = 1..7
    PROVE  Kept(q, frame)
<1>1. WeekDay(frame.from) \in 1..7
  <2> DEFINE d == frame.from \div (2 * Hours)
  <2>1. 2 * Hours \in Nat \ {0}
    BY StatAssumption
  <2>2. d \in Int
    BY <2>1
  <2> HIDE DEF d
  <2>3. (d % 7) + 1 \in 1..7
    BY <2>2
  <2> QED BY <2>3 DEF WeekDay, d
<1> QED BY <1>1 DEF Kept

-----------------------------------------------------------------------------
(* The sequence of frames of a request, the whole period last.             *)
LEMMA FramesShape ==
    ASSUME NEW q, NEW from, NEW until \in Nat, NEW F, F = Frames(q, from, until),
           q.interval \in {"none", "hour", "day", "month"},
           from \subseteq Nat, AtMostOne(from)
    PROVE  F \in Seq(Range(F)) /\ Len(F) \in Nat \ {0}
<1> DEFINE all == IF q.interval = "none" \/ from = {} THEN <<>>
                  ELSE Subintervals(Max(from), until, Length(q.interval))
           kept == {k \in DOMAIN all : Kept(q, all[k])}
           interval(k) == [from |-> {all[k].from}, until |-> all[k].until]
           n == Cardinality(kept)
           cut == [k \in 1..n |-> interval(Kth(kept, k))]
           last == <<[from |-> from, until |-> until]>>
           S == {cut[k] : k \in 1..n} \cup {last[1]}
<1>1. n \in Nat
  <2>1. CASE q.interval = "none" \/ from = {}
    <3>1. kept = {}
      BY <2>1
    <3> HIDE DEF kept
    <3> QED BY <3>1, FS_EmptySet
  <2>2. CASE ~ (q.interval = "none" \/ from = {})
    <3>1. PICK t \in Nat : from = {t}
      BY <2>2 DEF AtMostOne
    <3>2. Max(from) = t
      BY <3>1 DEF Max
    <3> DEFINE d == Length(q.interval)
               m == (until - t + d - 1) \div d
    <3>3. d \in Nat \ {0}
      BY <2>2, LengthIsPositive
    <3> HIDE DEF d
    <3>4. m \in Int
      BY <3>3
    <3>5. DOMAIN all = 1..m
      BY <2>2, <3>2 DEF Subintervals, d
    <3> HIDE DEF m, all
    <3>6. IsFiniteSet(1..m) /\ kept \in SUBSET (1..m)
      BY <3>4, <3>5, FS_Interval
    <3> QED BY <3>6, FS_Subset, FS_CardinalityType
  <2> QED BY <2>1, <2>2
<1> HIDE DEF all, kept, n
<1>2. cut \in Seq(S) /\ Len(cut) = n
  <2>1. cut \in [1..n -> S]
    OBVIOUS
  <2> HIDE DEF cut, S
  <2> QED BY <1>1, <2>1, FunctionIsSequence
<1>3. last \in Seq(S) /\ Len(last) = 1
  OBVIOUS
<1> HIDE DEF cut, last, S
<1>4. F = Joined(cut, last)
  BY DEF Frames, Joined, all, kept, n, cut, last
<1>5. F \in Seq(S) /\ Len(F) = n + 1
  <2>1. F \in Seq(S) /\ IsJoined(F, cut, last)
    BY <1>2, <1>3, <1>4, JoinedProperties
  <2> QED BY <1>2, <1>3, <2>1 DEF IsJoined
<1>6. F \in Seq(Range(F))
  <2>1. F \in [1..Len(F) -> Range(F)] /\ Len(F) \in Nat
    BY <1>5, LenProperties DEF Range
  <2> QED BY <2>1, FunctionIsSequence
<1> QED BY <1>1, <1>5, <1>6

Whole(q) == q.window = {} /\ q.days = 1..7

Tiles(F, t, until) ==
    /\ Len(F) > 1
    /\ F[1].from = {t} /\ F[Len(F) - 1].until = until
    /\ \A k \in 1..(Len(F) - 2) : F[k + 1].from = {F[k].until}

(* When every hour of the week is asked for, the frames but the last make  *)
(* up the period.                                                          *)
LEMMA FramesTile ==
    ASSUME NEW q, NEW t \in Nat, NEW until \in Nat, NEW F, F = Frames(q, {t}, until),
           q.interval \in {"hour", "day", "month"}, Whole(q),
           t + Length(q.interval) <= until
    PROVE  Tiles(F, t, until)
<1> DEFINE d == Length(q.interval)
           all == Subintervals(t, until, d)
           n == Pieces(t, until, d)
           last == <<[from |-> {t}, until |-> until]>>
           cut == [k \in 1..n |-> [from |-> {all[k].from}, until |-> all[k].until]]
<1>1. d \in Nat \ {0}
  BY LengthIsPositive
<1> HIDE DEF d
<1>2. /\ n \in Nat \ {0} /\ DOMAIN all = 1..n
      /\ \A k \in 1..n : all[k].from \in Nat
      /\ all[1].from = t /\ all[n].until = until
      /\ \A k \in 1..(n - 1) : all[k + 1].from = all[k].until
  <2>1. t + d <= until
    BY DEF d
  <2> QED BY <1>1, <2>1, SubintervalsTile
<1>3. F = Joined(cut, last)
  <2> DEFINE kept == {k \in DOMAIN all : Kept(q, all[k])}
             interval(k) == [from |-> {all[k].from}, until |-> all[k].until]
             picked == [k \in 1..Cardinality(kept) |-> interval(Kth(kept, k))]
  <2>1. Max({t}) = t /\ q.interval # "none"
    BY DEF Max
  <2>2. F = Joined(picked, last)
    BY <2>1 DEF Frames, Joined, d
  <2>3. kept = 1..n
    BY <1>2, KeptWhenUnrestricted DEF Whole
  <2>4. Cardinality(kept) = n
    <3>1. Cardinality(1..n) = n
      BY <1>2, FS_Interval
    <3> QED BY <2>3, <3>1
  <2>5. \A k \in 1..n : Kth(kept, k) = k
    BY <1>2, <2>3, KthOfAll
  <2>6. picked = cut
    BY <2>4, <2>5
  <2> QED BY <2>2, <2>6
<1> HIDE DEF all, n
<1> DEFINE S == {cut[k] : k \in 1..n} \cup {last[1]}
<1>4. cut \in Seq(S) /\ Len(cut) = n
  <2>1. cut \in [1..n -> S]
    OBVIOUS
  <2> HIDE DEF cut, S
  <2> QED BY <1>2, <2>1, FunctionIsSequence
<1>5. last \in Seq(S) /\ Len(last) = 1
  OBVIOUS
<1>6. Len(F) = n + 1 /\ \A k \in 1..n : F[k] = cut[k]
  <2> HIDE DEF S, cut, last
  <2>1. IsJoined(F, cut, last)
    BY <1>3, <1>4, <1>5, JoinedProperties
  <2> QED BY <1>4, <1>5, <2>1 DEF IsJoined
<1>7. \A k \in 1..n : F[k].from = {all[k].from} /\ F[k].until = all[k].until
  <2> TAKE k \in 1..n
  <2> DEFINE a == all[k].from
             b == all[k].until
  <2>1. F[k] = [from |-> {a}, until |-> b]
    BY <1>6
  <2> HIDE DEF a, b
  <2>2. F[k].from = {a} /\ F[k].until = b
    BY <2>1
  <2> QED BY <2>2 DEF a, b
<1>8. \A k \in 1..(Len(F) - 2) : F[k + 1].from = {F[k].until}
  <2> TAKE k \in 1..(Len(F) - 2)
  <2>1. k \in 1..(n - 1) /\ k \in 1..n /\ k + 1 \in 1..n
    BY <1>2, <1>6
  <2> QED BY <1>2, <1>7, <2>1
<1>9. Len(F) > 1 /\ 1 \in 1..n /\ n \in 1..n /\ Len(F) - 1 = n
  BY <1>2, <1>6
<1> QED BY <1>2, <1>7, <1>8, <1>9 DEF Tiles

-----------------------------------------------------------------------------
(***************************************************************************)
(* The invariant.  What is answered and what is still to be answered make  *)
(* up the frames cut when the request began, in their order; no row tells  *)
(* of an hour that is not filled.                                          *)
(***************************************************************************)
Filled ==
    /\ filled \in Nat
    /\ \A c \in calls : c \in Call /\ c.time < 2 * filled
    /\ \A r \in queueHours : r[1] \in 0..(filled - 1)
    /\ \A r \in agentHours : r = <<r[1], r[2]>> /\ r[1] \in 0..(filled - 1)

RequestField == {"kind", "asked", "from", "until", "todo", "items", "item"}

MakeUp(items, todo, F) ==
    /\ Len(items) + Len(todo) = Len(F)
    /\ \A k \in 1..Len(items) : items[k].frame = F[k]
    /\ \A k \in 1..Len(todo) : todo[k] = F[Len(items) + k]

FramesFit(w) ==
    /\ w.from \subseteq Nat /\ AtMostOne(w.from) /\ w.until \in Nat
    /\ MakeUp(w.items, w.todo, Frames(w.asked, w.from, w.until))

LoginsFit(w, n) ==
    w.kind \in {"agent", "agents"} => /\ \A item \in Range(w.items) : item.login \in 0..n
                                      /\ w.item # <<>> => w.item[1].login \in 0..n

RequestFits(w) ==
    /\ DOMAIN w = RequestField
    /\ w.asked \in Ask /\ w.kind = w.asked.kind
    /\ w.items \in Seq(Range(w.items)) /\ w.todo \in Seq(Range(w.todo))
    /\ w.asked.interval # "none" => FramesFit(w)

StatInv ==
    /\ Filled
    /\ \A w \in {request}, n \in {filled} :
           w = NoRequest \/ (RequestFits(w) /\ LoginsFit(w, n))

-----------------------------------------------------------------------------
LEMMA SequenceOfItsRange ==
    ASSUME NEW S, NEW s \in Seq(S)
    PROVE  s \in Seq(Range(s))
<1>1. s \in [1..Len(s) -> Range(s)] /\ Len(s) \in Nat
  BY LenProperties DEF Range
<1> QED BY <1>1, FunctionIsSequence

(* An answer takes the first of what is left to be answered.               *)
LEMMA AnswerFits ==
    ASSUME NEW v, RequestFits(v), v.todo # <<>>, NEW n, LoginsFit(v, n),
           NEW item, item.frame = Head(v.todo),
           v.kind \in {"agent", "agents"} => item.login \in 0..n,
           NEW w, w = [v EXCEPT !.items = Append(@, item), !.item = <<>>, !.todo = Tail(@)]
    PROVE  RequestFits(w) /\ LoginsFit(w, n)
<1> DEFINE S == Range(v.items) \cup {item}
           T == Range(v.todo)
           F == Frames(v.asked, v.from, v.until)
<1>1. /\ DOMAIN v = RequestField /\ v.asked \in Ask /\ v.kind = v.asked.kind
      /\ v.items \in Seq(S) /\ v.todo \in Seq(T)
  BY SeqMonotonic DEF RequestFits
<1>2. /\ DOMAIN w = RequestField /\ w.asked = v.asked /\ w.kind = v.kind
      /\ w.from = v.from /\ w.until = v.until /\ w.item = <<>>
      /\ w.items = Append(v.items, item) /\ w.todo = Tail(v.todo)
  BY <1>1 DEF RequestField
<1> HIDE DEF S, T
<1>3. /\ w.items \in Seq(S)
      /\ Len(w.items) = Len(v.items) + 1
      /\ \A k \in 1..Len(v.items) : w.items[k] = v.items[k]
      /\ w.items[Len(v.items) + 1] = item
  BY <1>1, <1>2, AppendProperties DEF S
<1>4. /\ w.todo \in Seq(T)
      /\ Len(w.todo) = Len(v.todo) - 1
      /\ \A k \in 1..Len(w.todo) : w.todo[k] = v.todo[k + 1]
  BY <1>1, <1>2, HeadTailProperties
<1>5. Len(v.items) \in Nat /\ Len(v.todo) \in Nat /\ Len(v.todo) # 0
  BY <1>1, LenProperties, EmptySeq
<1>6. v.todo[1] = Head(v.todo)
  BY <1>1
<1>7. ASSUME v.asked.interval # "none" PROVE FramesFit(w)
  <2>1. /\ v.from \subseteq Nat /\ AtMostOne(v.from) /\ v.until \in Nat
        /\ Len(v.items) + Len(v.todo) = Len(F)
        /\ \A k \in 1..Len(v.items) : v.items[k].frame = F[k]
        /\ \A k \in 1..Len(v.todo) : v.todo[k] = F[Len(v.items) + k]
    BY <1>7 DEF RequestFits, FramesFit, MakeUp
  <2>2. F = Frames(w.asked, w.from, w.until)
    BY <1>2
  <2> HIDE DEF F
  <2>3. Len(w.items) + Len(w.todo) = Len(F)
    <3>1. PICK i \in Nat, j \in Nat : i = Len(v.items) /\ j = Len(v.todo)
      BY <1>5
    <3>2. Len(w.items) = i + 1 /\ Len(w.todo) = j - 1 /\ Len(F) = i + j
      BY <1>3, <1>4, <2>1, <3>1
    <3>3. (i + 1) + (j - 1) = i + j
      OBVIOUS
    <3>4. Len(w.items) + Len(w.todo) = (i + 1) + (j - 1)
      BY <3>2
    <3> QED BY <3>2, <3>3, <3>4
  <2>4. ASSUME NEW k \in 1..Len(w.items) PROVE w.items[k].frame = F[k]
    <3>1. CASE k \in 1..Len(v.items)
      BY <1>3, <2>1, <3>1
    <3>2. CASE k = Len(v.items) + 1
      <4>1. 1 \in 1..Len(v.todo)
        BY <1>5
      <4>2. item.frame = F[Len(v.items) + 1]
        BY <1>6, <2>1, <4>1
      <4> QED BY <1>3, <3>2, <4>2
    <3> QED BY <1>3, <1>5, <3>1, <3>2
  <2>5. ASSUME NEW k \in 1..Len(w.todo) PROVE w.todo[k] = F[Len(w.items) + k]
    <3>1. k + 1 \in 1..Len(v.todo) /\ Len(v.items) + (k + 1) = Len(w.items) + k
      BY <1>3, <1>4, <1>5
    <3> QED BY <1>4, <2>1, <3>1
  <2> QED BY <1>2, <2>1, <2>2, <2>3, <2>4, <2>5 DEF FramesFit, MakeUp
<1>8. RequestFits(w)
  BY <1>1, <1>2, <1>3, <1>4, <1>7, SequenceOfItsRange DEF RequestFits
<1>9. LoginsFit(w, n)
  <2>1. Range(w.items) \subseteq Range(v.items) \cup {item}
    <3>1. DOMAIN w.items = 1..(Len(v.items) + 1) /\ DOMAIN v.items = 1..Len(v.items)
      BY <1>1, <1>3, LenProperties
    <3>2. ASSUME NEW k \in DOMAIN w.items PROVE w.items[k] \in Range(v.items) \cup {item}
      <4>1. k \in DOMAIN v.items \/ k = Len(v.items) + 1
        BY <1>5, <3>1
      <4> QED BY <1>3, <3>1, <4>1 DEF Range
    <3> QED BY <3>2 DEF Range
  <2> QED BY <1>2, <2>1 DEF LoginsFit
<1> QED BY <1>8, <1>9

(* A request begins with all its frames to be answered.                    *)
LEMMA BeginningFits ==
    ASSUME NEW q \in Ask, NEW from, NEW until, NEW todo, NEW n,
           todo \in Seq(Range(todo)),
           q.interval # "none" => /\ from \subseteq Nat /\ AtMostOne(from) /\ until \in Nat
                                  /\ todo = Frames(q, from, until),
           NEW w, w = [kind |-> q.kind, asked |-> q, from |-> from, until |-> until,
                       todo |-> todo, items |-> <<>>, item |-> <<>>]
    PROVE  RequestFits(w) /\ LoginsFit(w, n)
<1>1. /\ DOMAIN w = RequestField /\ w.kind = q.kind /\ w.asked = q /\ w.from = from
      /\ w.until = until /\ w.todo = todo /\ w.items = <<>> /\ w.item = <<>>
  BY DEF RequestField
<1>2. /\ <<>> \in Seq(Range(<<>>)) /\ Len(<<>>) = 0 /\ DOMAIN <<>> = {}
  BY EmptySeq
<1>3. Range(w.items) = {}
  BY <1>1, <1>2 DEF Range
<1>4. Len(todo) \in Nat
  BY LenProperties
<1>5. ASSUME q.interval # "none" PROVE FramesFit(w)
  <2>1. \A k \in 1..Len(todo) : 0 + k = k
    BY <1>4
  <2> QED BY <1>1, <1>2, <1>4, <1>5, <2>1 DEF FramesFit, MakeUp
<1> QED BY <1>1, <1>2, <1>3, <1>5 DEF RequestFits, LoginsFit

(* The hours an agent was logged in are among those filled.                *)
LEMMA LoginsAreCounted ==
    ASSUME Filled, NEW q, NEW frame
    PROVE  Cardinality(AgentRows(q, frame)) \in 0..filled
<1> DEFINE R == AgentRows(q, frame)
           f == [r \in R |-> r[1]]
<1>1. \A r \in R : r = <<r[1], NoQueue>> /\ r[1] \in 0..(filled - 1)
  BY DEF AgentRows, RowsIn, Filled
<1> HIDE DEF R
<1>2. f \in Injection(R, 0..(filled - 1))
  BY <1>1 DEF Injection, IsInjective
<1>3. filled \in Nat /\ IsFiniteSet(0..(filled - 1)) /\ Cardinality(0..(filled - 1)) = filled
  <2>1. filled \in Nat
    BY DEF Filled
  <2> QED BY <2>1, FS_Interval
<1>4. IsFiniteSet(R) /\ Cardinality(R) <= filled
  BY <1>2, <1>3, FS_Injection
<1>5. Cardinality(R) \in Nat
  BY <1>4, FS_CardinalityType
<1> QED BY <1>3, <1>4, <1>5 DEF R

-----------------------------------------------------------------------------
AllOf(items, todo) == [k \in DOMAIN items |-> items[k].frame] \o todo

(* What is answered, then what is left, is the sequence of frames.         *)
LEMMA AnsweredAndLeft ==
    ASSUME NEW S, NEW T, NEW U, NEW F \in Seq(S), NEW items \in Seq(T), NEW todo \in Seq(U),
           MakeUp(items, todo, F)
    PROVE  /\ AllOf(items, todo) \in Seq(S) /\ Len(AllOf(items, todo)) = Len(F)
           /\ \A k \in 1..Len(F) : AllOf(items, todo)[k] = F[k]
<1> DEFINE front == [k \in DOMAIN items |-> items[k].frame]
           all == AllOf(items, todo)
<1>1. PICK i \in Nat, j \in Nat : i = Len(items) /\ j = Len(todo)
  BY LenProperties
<1>2. DOMAIN items = 1..i /\ todo \in [1..j -> U] /\ Len(F) = i + j
  BY <1>1, LenProperties DEF MakeUp
<1>3. \A k \in 1..(i + j) : F[k] \in S
  BY <1>2, ElementOfSeq
<1>4. \A k \in 1..i : k \in 1..(i + j) /\ items[k].frame = F[k]
  BY <1>1 DEF MakeUp
<1>5. \A k \in 1..j : i + k \in 1..(i + j) /\ todo[k] = F[i + k]
  BY <1>1 DEF MakeUp
<1>6. front \in Seq(S) /\ Len(front) = i /\ \A k \in 1..i : front[k] = F[k]
  <2>1. front \in [1..i -> S] /\ \A k \in 1..i : front[k] = F[k]
    BY <1>2, <1>3, <1>4
  <2> HIDE DEF front
  <2> QED BY <2>1, FunctionIsSequence
<1>7. todo \in Seq(S) /\ Len(todo) = j
  <2>1. todo \in [1..j -> S]
    BY <1>2, <1>3, <1>5
  <2> QED BY <2>1, FunctionIsSequence
<1> HIDE DEF front
<1>8. /\ all \in Seq(S) /\ Len(all) = i + j
      /\ \A k \in 1..i : all[k] = front[k]
      /\ \A k \in 1..j : all[i + k] = todo[k]
  <2>1. all = Joined(front, todo)
    BY DEF AllOf, Joined, front
  <2> HIDE DEF all
  <2>2. all \in Seq(S) /\ IsJoined(all, front, todo)
    BY <1>6, <1>7, <2>1, JoinedProperties
  <2> QED BY <1>6, <1>7, <2>2 DEF IsJoined
<1>9. ASSUME NEW k \in 1..(i + j) PROVE all[k] = F[k]
  <2>1. CASE k \in 1..i
    BY <1>6, <1>8, <2>1
  <2>2. CASE k \notin 1..i
    <3>1. PICK h \in 1..j : k = i + h
      <4>1. k - i \in 1..j /\ k = i + (k - i)
        BY <2>2
      <4> QED BY <4>1
    <3> QED BY <1>5, <1>8, <3>1
  <2> QED BY <2>1, <2>2
<1> QED BY <1>2, <1>8, <1>9

PeriodFrom(q) == IF q.from = {} THEN OldestTime(q) ELSE q.from
PeriodUntil(q) == IF q.until = {} THEN Tomorrow ELSE Max(q.until)

(* The period of a request, if it is given in part, or not at all.         *)
LEMMA PeriodIsNumbers ==
    ASSUME Filled, NEW q \in Ask
    PROVE  PeriodFrom(q) \subseteq Nat /\ AtMostOne(PeriodFrom(q)) /\ PeriodUntil(q) \in Nat
<1>1. /\ q.interval \in {"none", "hour", "day", "month"}
      /\ q.from \subseteq Nat /\ AtMostOne(q.from)
      /\ q.until \subseteq Nat /\ AtMostOne(q.until)
  BY StatAssumption
<1>2. PeriodFrom(q) \subseteq Nat /\ AtMostOne(PeriodFrom(q))
  <2>1. CASE q.from # {}
    BY <1>1, <2>1 DEF PeriodFrom
  <2>2. ASSUME NEW rows, rows # {}, \A r \in rows : r[1] \in Nat
        PROVE  2 * Min({r[1] : r \in rows}) \in Nat
    <3> DEFINE S == {r[1] : r \in rows}
    <3>1. S \subseteq Nat /\ S # {}
      BY <2>2
    <3> HIDE DEF S
    <3>2. Min(S) \in Nat
      BY <3>1, NatHasMinimum DEF Min
    <3> QED BY <3>2 DEF S
  <2>3. /\ \A r \in agentHours : r[1] \in Nat
        /\ \A r \in queueHours : r[1] \in Nat
    BY DEF Filled
  <2>4. OldestTime(q) \subseteq Nat /\ AtMostOne(OldestTime(q))
    BY <2>2, <2>3 DEF OldestTime, AtMostOne
  <2> QED BY <2>1, <2>4 DEF PeriodFrom
<1>3. PeriodUntil(q) \in Nat
  <2>1. Tomorrow \in Nat
    BY StatAssumption DEF Tomorrow
  <2>2. ASSUME q.until # {} PROVE Max(q.until) \in Nat
    <3>1. PICK t \in Nat : q.until = {t}
      BY <1>1, <2>2 DEF AtMostOne
    <3> QED BY <3>1 DEF Max
  <2> QED BY <2>1, <2>2 DEF PeriodUntil
<1> QED BY <1>2, <1>3

LEMMA StatStarts == StatInit => StatInv
BY DEF StatInit, StatInv, Filled

LEMMA StatStepKeeps == StatInv /\ [StatNext]_statVars => StatInv'
<1> SUFFICES ASSUME StatInv, [StatNext]_statVars PROVE StatInv'
  OBVIOUS
<1>1. Filled /\ (request = NoRequest \/ (RequestFits(request) /\ LoginsFit(request, filled)))
  BY DEF StatInv
<1>2. NoRequest.kind = "none"
  BY DEF NoRequest
<1>3. ASSUME UNCHANGED <<filled, calls, queueHours, agentHours>>,
             \A w : w = request' => w = NoRequest \/ (RequestFits(w) /\ LoginsFit(w, filled))
      PROVE  StatInv'
  BY <1>1, <1>3 DEF StatInv, Filled
<1>4. ASSUME NEW item, Answer(item), request # NoRequest, request.todo # <<>>,
             item.frame = Frame,
             request.kind \in {"agent", "agents"} => item.login \in 0..filled
      PROVE  StatInv'
  BY <1>1, <1>3, <1>4, AnswerFits DEF Answer, Frame
<1>5. ASSUME NEW item, request # NoRequest, request' = [request EXCEPT !.item = item],
             UNCHANGED <<filled, calls, queueHours, agentHours>>,
             request.kind \in {"agent", "agents"} => item[1].login \in 0..filled
      PROVE  StatInv'
  <2> SUFFICES ASSUME NEW w, w = request'
               PROVE  RequestFits(w) /\ LoginsFit(w, filled)
    BY <1>3, <1>5
  <2>1. DOMAIN request = RequestField
    BY <1>1, <1>5 DEF RequestFits
  <2>2. /\ DOMAIN w = RequestField /\ w.kind = request.kind /\ w.asked = request.asked
        /\ w.from = request.from /\ w.until = request.until /\ w.todo = request.todo
        /\ w.items = request.items /\ w.item = item
    BY <1>5, <2>1 DEF RequestField
  <2>3. RequestFits(w)
    BY <1>1, <1>5, <2>2 DEF RequestFits, FramesFit
  <2>4. LoginsFit(w, filled)
    BY <1>1, <1>5, <2>2 DEF LoginsFit
  <2> QED BY <2>3, <2>4
<1>6. ASSUME NEW found \in SUBSET Call, NEW logins \in Logins, FillHour(found, logins)
      PROVE  StatInv'
  <2>1. /\ filled \in Nat /\ filled' = filled + 1 /\ request' = request
        /\ \A c \in found : c.time \div 2 = filled
        /\ calls' = calls \cup found
        /\ queueHours' = queueHours \cup {<<filled, c.queue>> : c \in found}
        /\ agentHours' = agentHours \cup {<<filled, x>> : x \in logins}
    BY <1>1, <1>6 DEF FillHour, Filled
  <2>2. ASSUME NEW c \in calls' PROVE c \in Call /\ c.time < 2 * filled'
    <3>1. CASE c \in calls
      <4>1. c \in Call /\ c.time < 2 * filled
        BY <1>1, <3>1 DEF Filled
      <4>2. c.time \in Nat
        BY <4>1, StatAssumption
      <4> QED BY <2>1, <4>1, <4>2
    <3>2. CASE c \in found
      <4>1. c.time \in Nat /\ c.time \div 2 = filled
        BY <2>1, <3>2, StatAssumption
      <4> QED BY <2>1, <3>2, <4>1
    <3> QED BY <2>1, <3>1, <3>2
  <2>3. \A k \in 0..(filled - 1) : k \in 0..(filled' - 1)
    BY <2>1
  <2>4. filled \in 0..(filled' - 1)
    BY <2>1
  <2>5. \A r \in queueHours' : r[1] \in 0..(filled' - 1)
    BY <1>1, <2>1, <2>3, <2>4 DEF Filled
  <2>6. \A r \in agentHours' : r = <<r[1], r[2]>> /\ r[1] \in 0..(filled' - 1)
    BY <1>1, <2>1, <2>3, <2>4 DEF Filled
  <2>7. Filled'
    BY <2>1, <2>2, <2>5, <2>6 DEF Filled
  <2>8. \A w : LoginsFit(w, filled) => LoginsFit(w, filled + 1)
    <3>1. \A k \in 0..filled : k \in 0..(filled + 1)
      BY <2>1
    <3> QED BY <3>1 DEF LoginsFit
  <2> QED BY <1>1, <2>1, <2>7, <2>8 DEF StatInv
<1>7. ASSUME NEW q \in Ask, Begin(q) PROVE StatInv'
  <2> DEFINE from == PeriodFrom(q)
             until == PeriodUntil(q)
  <2>1. q.interval \in {"none", "hour", "day", "month"}
    BY StatAssumption
  <2>2. from \subseteq Nat /\ AtMostOne(from) /\ until \in Nat
    BY <1>1, PeriodIsNumbers
  <2>4. /\ request' = [kind |-> q.kind, asked |-> q, from |-> from, until |-> until,
                       todo |-> Frames(q, from, until), items |-> <<>>, item |-> <<>>]
        /\ UNCHANGED <<filled, calls, queueHours, agentHours>>
    BY <1>7 DEF Begin, PeriodFrom, PeriodUntil
  <2> HIDE DEF from, until
  <2> DEFINE todo == Frames(q, from, until)
  <2>5. todo \in Seq(Range(todo))
    BY <2>1, <2>2, FramesShape
  <2>6. request' = [kind |-> q.kind, asked |-> q, from |-> from, until |-> until,
                    todo |-> todo, items |-> <<>>, item |-> <<>>]
    BY <2>4
  <2>7. ASSUME NEW w, w = request' PROVE RequestFits(w) /\ LoginsFit(w, filled)
    BY <2>2, <2>5, <2>6, <2>7, BeginningFits
  <2> QED BY <1>3, <2>4, <2>7
<1>8. ASSUME NEW q \in Ask, q.kind \in {"queues", "agents"}, BeginList(q) PROVE StatInv'
  <2> DEFINE todo == <<[from |-> q.from,
                        until |-> IF q.until = {} THEN Tomorrow ELSE Max(q.until)]>>
  <2>1. q.interval = "none"
    BY <1>8, StatAssumption
  <2>2. /\ request' = [kind |-> q.kind, asked |-> q, from |-> q.from, until |-> Tomorrow,
                       todo |-> todo, items |-> <<>>, item |-> <<>>]
        /\ UNCHANGED <<filled, calls, queueHours, agentHours>>
    BY <1>8 DEF BeginList
  <2>3. todo \in Seq({todo[1]})
    OBVIOUS
  <2> HIDE DEF todo
  <2>4. todo \in Seq(Range(todo))
    BY <2>3, SequenceOfItsRange
  <2> QED BY <1>3, <2>1, <2>2, <2>4, BeginningFits
<1>9. CASE AnswerQueue
  BY <1>2, <1>4, <1>9 DEF AnswerQueue, Answering, QueueItem
<1>10. CASE AnswerQueues
  BY <1>2, <1>4, <1>10 DEF AnswerQueues, Answering
<1>11. CASE AnswerAgent
  <2> DEFINE item == <<AgentItem(Asked, Frame)>>
  <2>1. item[1].login \in 0..filled
    BY <1>1, LoginsAreCounted DEF AgentItem
  <2>2. /\ request # NoRequest /\ request' = [request EXCEPT !.item = item]
        /\ UNCHANGED <<filled, calls, queueHours, agentHours>>
    BY <1>2, <1>11 DEF AnswerAgent, Answering
  <2> QED BY <1>5, <2>1, <2>2
<1>12. CASE AnswerAgentQueues
  <2> DEFINE item == [frame |-> Frame, login |-> request.item[1].login,
                      answered |-> request.item[1].answered,
                      queues |-> AgentQueues(Asked, Frame)]
  <2>1. /\ request # NoRequest /\ request.todo # <<>> /\ Answer(item)
        /\ request.kind \in {"agent", "agents"} /\ request.item # <<>>
    BY <1>2, <1>12 DEF AnswerAgentQueues, Answering
  <2>2. request.item[1].login \in 0..filled
    BY <1>1, <2>1 DEF LoginsFit
  <2>3. item.frame = Frame /\ item.login = request.item[1].login
    OBVIOUS
  <2> HIDE DEF item
  <2> QED BY <1>4, <2>1, <2>2, <2>3
<1>13. CASE AnswerBucket
  <2> DEFINE buckets == Buckets(Asked.thresholds)
             now == Append(request.item,
                           InBucket(Asked, Frame, buckets[Len(request.item) + 1]))
             item == [frame |-> Frame, buckets |-> now]
  <2>1. request # NoRequest /\ request.todo # <<>> /\ request.kind = "qos"
    BY <1>2, <1>13 DEF AnswerBucket, Answering
  <2>2. \/ Answer(item)
        \/ /\ request' = [request EXCEPT !.item = now]
           /\ UNCHANGED <<filled, calls, queueHours, agentHours>>
    BY <1>13 DEF AnswerBucket
  <2>3. item.frame = Frame
    OBVIOUS
  <2> HIDE DEF item, now
  <2> QED BY <1>4, <1>5, <2>1, <2>2, <2>3
<1>14. CASE Respond
  BY <1>3, <1>14 DEF Respond
<1>15. CASE UNCHANGED statVars
  BY <1>1, <1>3, <1>15 DEF statVars
<1> QED BY <1>6, <1>7, <1>8, <1>9, <1>10, <1>11, <1>12, <1>13, <1>14, <1>15 DEF StatNext

LEMMA StatInvariant == StatSpec => []StatInv
BY StatStarts, StatStepKeeps, PTL DEF StatSpec

(* The tables tell of the hours filled so far, and an agent is counted no  *)
(* more hours than were filled, whatever the queues it was in.             *)
THEOREM StatisticsStayTyped == StatSpec => []StatTypeOK
<1>1. StatInv => StatTypeOK
  <2> SUFFICES ASSUME StatInv PROVE StatTypeOK
    OBVIOUS
  <2>1. Filled
    BY DEF StatInv
  <2>2. ASSUME request.kind \in {"agent", "agents"}, NEW item \in Range(request.items)
        PROVE  item.login <= filled
    <3>1. LoginsFit(request, filled)
      BY <2>2 DEF StatInv, NoRequest
    <3>2. item.login \in 0..filled
      BY <2>2, <3>1 DEF LoginsFit
    <3> QED BY <2>1, <3>2 DEF Filled
  <2> QED BY <2>1, <2>2 DEF StatTypeOK, Filled
<1> QED BY <1>1, StatInvariant, PTL

(* The intervals of a period make it up, for any period at least as long   *)
(* as one interval and any lengths of days and months: the end of the last *)
(* is brought back to that of the period (_generate_subinterval).          *)
THEOREM IntervalsKeepTiling == StatSpec => []IntervalsTilePeriod
<1>1. StatInv => IntervalsTilePeriod
  <2> SUFFICES ASSUME StatInv, request # NoRequest, Asked.interval # "none",
                      Unrestricted, LongEnough
               PROVE  /\ Cut # <<>> /\ Head(Cut).from = request.from
                      /\ Last(Cut).until = request.until
                      /\ \A k \in 1..(Len(Cut) - 1) : Cut[k + 1].from = {Cut[k].until}
    BY DEF IntervalsTilePeriod
  <2> DEFINE q == request.asked
             F == Frames(q, request.from, request.until)
             S == Range(F)
  <2>1. RequestFits(request) /\ FramesFit(request)
    BY DEF StatInv, RequestFits, Asked
  <2>2. q.interval \in {"hour", "day", "month"} /\ Whole(q)
    BY <2>1, StatAssumption DEF RequestFits, Unrestricted, Asked, Whole
  <2>3. PICK t \in Nat : request.from = {t}
    BY <2>1 DEF FramesFit, AtMostOne, LongEnough
  <2>4. t + Length(q.interval) <= request.until /\ request.until \in Nat
    <3>1. Max(request.from) = t
      BY <2>3 DEF Max
    <3> QED BY <2>1, <3>1 DEF LongEnough, Asked, FramesFit
  <2>5. Tiles(F, t, request.until)
    <3>1. F = Frames(q, {t}, request.until)
      BY <2>3
    <3> HIDE DEF F, q
    <3> QED BY <2>2, <2>4, <3>1, FramesTile
  <2>6. F \in Seq(S) /\ Len(F) \in Nat
    BY <2>1, <2>2, FramesShape DEF FramesFit
  <2>7. /\ request.items \in Seq(Range(request.items))
        /\ request.todo \in Seq(Range(request.todo))
        /\ MakeUp(request.items, request.todo, F)
    BY <2>1 DEF FramesFit, RequestFits
  <2> HIDE DEF F, S
  <2>11. /\ AllFrames \in Seq(S) /\ Len(AllFrames) = Len(F)
         /\ \A k \in 1..Len(F) : AllFrames[k] = F[k]
    <3>1. AllFrames = AllOf(request.items, request.todo)
      BY DEF AllFrames, AllOf
    <3> QED BY <2>6, <2>7, <3>1, AnsweredAndLeft
  <2> DEFINE n == Len(F) - 1
  <2>12. n \in Nat \ {0}
    <3>1. PICK m \in Nat : m = Len(F)
      BY <2>6
    <3>2. m > 1
      BY <2>5, <3>1 DEF Tiles
    <3> QED BY <3>1, <3>2
  <2>13. /\ Cut \in Seq(S) /\ Len(Cut) = n
         /\ \A k \in 1..n : Cut[k] = F[k]
    <3>1. Cut = SubSeq(AllFrames, 1, n)
      BY <2>11 DEF Cut
    <3>2. \A k \in 1..n : AllFrames[k] = F[k] /\ AllFrames[k] \in S
      <4>1. \A k \in 1..n : k \in 1..Len(F)
        BY <2>6, <2>12
      <4> QED BY <2>6, <2>11, <4>1, ElementOfSeq
    <3> HIDE DEF n
    <3>3. /\ SubSeq(AllFrames, 1, n) \in Seq(S)
          /\ Len(SubSeq(AllFrames, 1, n)) = IF 1 <= n THEN n - 1 + 1 ELSE 0
          /\ \A k \in 1..(n - 1 + 1) : SubSeq(AllFrames, 1, n)[k] = AllFrames[1 + k - 1]
      BY <2>12, <3>2, SubSeqProperties
    <3>4. \A k \in 1..n : k \in 1..(n - 1 + 1) /\ 1 + k - 1 = k
      BY <2>12
    <3> QED BY <2>12, <3>1, <3>2, <3>3, <3>4
  <2> HIDE DEF n
  <2>14. Cut # <<>> /\ Head(Cut) = Cut[1] /\ Last(Cut) = Cut[n]
    BY <2>12, <2>13, EmptySeq DEF Last
  <2>15. 1 \in 1..n /\ n \in 1..n
    BY <2>12
  <2>16. ASSUME NEW k \in 1..(Len(Cut) - 1) PROVE Cut[k + 1].from = {Cut[k].until}
    <3>1. k \in 1..(Len(F) - 2) /\ k \in 1..n /\ k + 1 \in 1..n
      BY <2>6, <2>12, <2>13 DEF n
    <3> QED BY <2>5, <2>13, <3>1 DEF Tiles
  <2> QED BY <2>3, <2>5, <2>13, <2>14, <2>15, <2>16 DEF n, Tiles
<1> QED BY <1>1, StatInvariant, PTL

-----------------------------------------------------------------------------
(***************************************************************************)
(* Sums: what is counted place by place is counted once in all.            *)
(***************************************************************************)
Fibre(C, g, x) == {c \in C : g[c] = x}

Counting(C, g, x) == CHOOSE b : b \in Bijection(Fibre(C, g, x), 1..Cardinality(Fibre(C, g, x)))

LEMMA FibreIsCounted ==
    ASSUME NEW C, NEW g, NEW x, IsFiniteSet(C)
    PROVE  Counting(C, g, x) \in Bijection(Fibre(C, g, x), 1..Cardinality(Fibre(C, g, x)))
<1> DEFINE F == Fibre(C, g, x)
<1>1. F \in SUBSET C
  BY DEF Fibre
<1> HIDE DEF F
<1>2. IsFiniteSet(F)
  BY <1>1, FS_Subset
<1>3. ExistsBijection(1..Cardinality(F), F)
  BY <1>2, FS_CardinalityType
<1>4. PICK b : b \in Bijection(1..Cardinality(F), F)
  BY <1>3 DEF ExistsBijection
<1>5. Inverse(b, 1..Cardinality(F), F) \in Bijection(F, 1..Cardinality(F))
  BY <1>4, Fun_BijInverse
<1> QED BY <1>5 DEF Counting, F

(* The places a sum takes up.                                              *)
Places(f) == UNION {{x} \X (1..f[x]) : x \in DOMAIN f}

LEMMA FibresAddUp ==
    ASSUME NEW C, NEW Q, NEW g \in [C -> Q], NEW f, DOMAIN f = Q, IsFiniteSet(C),
           \A x \in Q : f[x] = Cardinality(Fibre(C, g, x))
    PROVE  Total(f) = Cardinality(C)
<1> DEFINE P == Places(f)
           b(x) == Counting(C, g, x)
           h == [c \in C |-> <<g[c], b(g[c])[c]>>]
<1>1. \A x \in Q : b(x) \in Bijection(Fibre(C, g, x), 1..f[x])
  BY FibreIsCounted
<1> HIDE DEF b
<1>2. \A x \in Q :
         /\ b(x) \in [Fibre(C, g, x) -> 1..f[x]]
         /\ \A c, d \in Fibre(C, g, x) : b(x)[c] = b(x)[d] => c = d
         /\ \A k \in 1..f[x] : \E c \in Fibre(C, g, x) : b(x)[c] = k
  BY <1>1 DEF Bijection, Injection, Surjection, IsInjective
<1>3. \A c \in C : g[c] \in Q /\ c \in Fibre(C, g, g[c])
  BY DEF Fibre
<1>4. \A x \in Q : \A k \in 1..f[x] : <<x, k>> \in P
  BY DEF Places
<1>5. \A p \in P : p = <<p[1], p[2]>> /\ p[1] \in Q /\ p[2] \in 1..f[p[1]]
  BY DEF Places
<1> HIDE DEF P
<1>6. h \in [C -> P]
  <2> SUFFICES ASSUME NEW c \in C PROVE <<g[c], b(g[c])[c]>> \in P
    OBVIOUS
  <2>1. b(g[c])[c] \in 1..f[g[c]]
    BY <1>2, <1>3
  <2> QED BY <1>3, <1>4, <2>1
<1>7. ASSUME NEW c \in C, NEW d \in C, h[c] = h[d] PROVE c = d
  <2>1. g[c] = g[d] /\ b(g[c])[c] = b(g[d])[d]
    BY <1>7
  <2> QED BY <1>2, <1>3, <2>1
<1>8. ASSUME NEW p \in P PROVE \E c \in C : h[c] = p
  <2>1. PICK c \in Fibre(C, g, p[1]) : b(p[1])[c] = p[2]
    <3>1. p[1] \in Q /\ p[2] \in 1..f[p[1]]
      BY <1>5
    <3>2. \A k \in 1..f[p[1]] : \E c \in Fibre(C, g, p[1]) : b(p[1])[c] = k
      BY <1>2, <3>1
    <3> QED BY <3>1, <3>2
  <2>2. c \in C /\ g[c] = p[1]
    BY <2>1 DEF Fibre
  <2> QED BY <1>5, <2>1, <2>2
<1>9. h \in Bijection(C, P)
  BY <1>6, <1>7, <1>8, Fun_IsBij
<1>10. ExistsBijection(C, P)
  BY <1>9 DEF ExistsBijection
<1>11. Cardinality(P) = Cardinality(C)
  BY <1>10, FS_Bijection
<1> QED BY <1>11 DEF P, Places, Total

Covered(A, Q, part) == \A c \in A : \E x \in Q : c \in part[x]

(* Parts of a set that have nothing in common are together no more than    *)
(* the set, and as many if they leave nothing out.                         *)
LEMMA PartsAddUp ==
    ASSUME NEW A, NEW Q, NEW part, NEW f, DOMAIN f = Q, IsFiniteSet(A),
           \A x \in Q : part[x] \subseteq A /\ f[x] = Cardinality(part[x]),
           \A x, y \in Q : x # y => part[x] \cap part[y] = {}
    PROVE  /\ Total(f) <= Cardinality(A)
           /\ Covered(A, Q, part) => Total(f) = Cardinality(A)
<1> DEFINE C == {c \in A : \E x \in Q : c \in part[x]}
           g == [c \in C |-> CHOOSE x \in Q : c \in part[x]]
<1>1. IsFiniteSet(C) /\ Cardinality(C) <= Cardinality(A)
  <2>1. C \in SUBSET A
    OBVIOUS
  <2> HIDE DEF C
  <2> QED BY <2>1, FS_Subset
<1>2. \A c \in C : g[c] \in Q /\ c \in part[g[c]]
  OBVIOUS
<1>3. ASSUME NEW x \in Q PROVE part[x] = Fibre(C, g, x)
  BY <1>2, <1>3 DEF Fibre
<1>4. g \in [C -> Q]
  BY <1>2
<1> HIDE DEF C, g
<1>5. Total(f) = Cardinality(C)
  BY <1>1, <1>3, <1>4, FibresAddUp
<1>6. Covered(A, Q, part) => C = A
  BY DEF C, Covered
<1> QED BY <1>1, <1>5, <1>6

-----------------------------------------------------------------------------
(***************************************************************************)
(* What was answered is what the tables say, unless the batch ran.         *)
(***************************************************************************)
RowOf(c) == <<c.time \div 2, c.queue>>

(* There is a row for an hour of a queue where there is a call.            *)
RowsTell == queueHours = {RowOf(c) : c \in calls}

AllBuckets(q, frame) ==
    [k \in 1..(Len(q.thresholds) + 1) |-> InBucket(q, frame, Buckets(q.thresholds)[k])]

FrameFits(frame) == frame.from \subseteq Nat /\ frame.until \in Nat

Right(q, item) ==
    /\ FrameFits(item.frame)
    /\ q.kind = "queue" => item = QueueItem(q, item.frame)
    /\ q.kind = "queues" => item.of = QueueItems(q, item.frame)
    /\ q.kind \in {"agent", "agents"} =>
           /\ item.login = AgentItem(q, item.frame).login
           /\ item.answered = AgentItem(q, item.frame).answered
           /\ item.queues = AgentQueues(q, item.frame)
    /\ q.kind = "qos" => item.buckets = AllBuckets(q, item.frame)

(* The transactions of an interval that have been asked for.               *)
HalfRight(q, frame, half) ==
    /\ q.kind \in {"agent", "agents"} => half \in {<<>>, <<AgentItem(q, frame)>>}
    /\ q.kind = "qos" =>
           /\ half \in Seq(Range(half)) /\ Len(half) \in 0..Len(q.thresholds)
           /\ \A k \in 1..Len(half) : half[k] = AllBuckets(q, frame)[k]

Answers(w) ==
    /\ \A item \in Range(w.items) : Right(w.asked, item)
    /\ \A frame \in Range(w.todo) : FrameFits(frame)
    /\ w.todo # <<>> => HalfRight(w.asked, Head(w.todo), w.item)

AnswersInv ==
    /\ RowsTell
    /\ \A w \in {request} : w = NoRequest \/ batched \/ Answers(w)

LEMMA NothingIsHalfRight ==
    ASSUME NEW q \in Ask, NEW frame
    PROVE  HalfRight(q, frame, <<>>)
<1>1. /\ <<>> \in Seq(Range(<<>>)) /\ Len(<<>>) = 0
  BY EmptySeq
<1>2. Len(q.thresholds) \in Nat
  BY StatAssumption, LenProperties
<1> QED BY <1>1, <1>2 DEF HalfRight

LEMMA AnswersFit ==
    ASSUME NEW v, NEW item, NEW w,
           w = [v EXCEPT !.items = Append(@, item), !.item = <<>>, !.todo = Tail(@)],
           RequestFits(v), v.todo # <<>>, Answers(v), Right(v.asked, item)
    PROVE  Answers(w)
<1> DEFINE S == Range(v.items) \cup {item}
           T == Range(v.todo)
<1>1. /\ DOMAIN v = RequestField /\ v.asked \in Ask
      /\ v.items \in Seq(Range(v.items)) /\ v.todo \in Seq(T)
  BY DEF RequestFits
<1>2. /\ w.asked = v.asked /\ w.item = <<>>
      /\ w.items = Append(v.items, item) /\ w.todo = Tail(v.todo)
  BY <1>1 DEF RequestField
<1>3. ASSUME NEW k \in DOMAIN w.items PROVE w.items[k] \in S
  <2>1. /\ Len(v.items) \in Nat /\ DOMAIN v.items = 1..Len(v.items)
        /\ DOMAIN w.items = 1..(Len(v.items) + 1)
        /\ \A i \in 1..Len(v.items) : w.items[i] = v.items[i]
        /\ w.items[Len(v.items) + 1] = item
    <3>1. v.items \in Seq(S) /\ item \in S
      BY <1>1, SeqMonotonic
    <3> HIDE DEF S
    <3>2. /\ Append(v.items, item) \in Seq(S)
          /\ Len(Append(v.items, item)) = Len(v.items) + 1
          /\ \A i \in 1..Len(v.items) : Append(v.items, item)[i] = v.items[i]
          /\ Append(v.items, item)[Len(v.items) + 1] = item
      BY <3>1, AppendProperties
    <3> QED BY <1>2, <3>1, <3>2, LenProperties
  <2>2. k \in 1..Len(v.items) \/ k = Len(v.items) + 1
    BY <2>1
  <2> QED BY <2>1, <2>2 DEF Range
<1>4. ASSUME NEW k \in DOMAIN w.todo PROVE w.todo[k] \in T
  <2>1. Tail(v.todo) \in Seq(T)
    BY <1>1, HeadTailProperties
  <2> HIDE DEF T
  <2>2. w.todo \in Seq(T)
    BY <1>2, <2>1
  <2> QED BY <2>2, ElementOfSeq, LenProperties
<1>5. \A x \in Range(w.items) : Right(w.asked, x)
  <2>1. \A x \in S : Right(v.asked, x)
    BY DEF Answers
  <2> HIDE DEF S
  <2> QED BY <1>2, <1>3, <2>1 DEF Range
<1>6. \A x \in Range(w.todo) : FrameFits(x)
  <2>1. \A x \in T : FrameFits(x)
    BY DEF Answers
  <2> HIDE DEF T
  <2> QED BY <1>4, <2>1 DEF Range
<1>7. HalfRight(w.asked, Head(w.todo), w.item)
  BY <1>1, <1>2, NothingIsHalfRight
<1> QED BY <1>5, <1>6, <1>7 DEF Answers

LEMMA RightStaysRight ==
    ASSUME NEW q, NEW item, UNCHANGED <<calls, queueHours, agentHours>>
    PROVE  Right(q, item)' = Right(q, item)
BY DEF Right, FrameFits, QueueItem, QueueItems, AgentItem, AgentQueues, AllBuckets, ExtraStats,
       AgentRows, QueuesOfAgent, SumOf, RowsIn, CallsIn, WithStatus, InBucket, InFrame, Total

LEMMA HalfRightStaysRight ==
    ASSUME NEW q, NEW frame, NEW half, UNCHANGED <<calls, queueHours, agentHours>>
    PROVE  HalfRight(q, frame, half)' = HalfRight(q, frame, half)
BY DEF HalfRight, AgentItem, AllBuckets, AgentRows, RowsIn, CallsIn, WithStatus, InBucket, InFrame

LEMMA AnswersStay ==
    ASSUME NEW w, UNCHANGED <<calls, queueHours, agentHours>>
    PROVE  Answers(w)' <=> Answers(w)
BY RightStaysRight, HalfRightStaysRight DEF Answers, FrameFits

-----------------------------------------------------------------------------
(***************************************************************************)
(* The frames of a request are pieces of its period, none of them twice.   *)
(***************************************************************************)
LEMMA KthIsThere ==
    ASSUME NEW m \in Int, NEW S \in SUBSET (1..m), NEW k \in 1..Cardinality(S)
    PROVE  Kth(S, k) \in S /\ Cardinality({j \in S : j <= Kth(S, k)}) = k
<1> DEFINE upTo(i) == {j \in S : j <= i}
           c == Cardinality(S)
           r == [i \in S |-> Cardinality(upTo(i))]
<1>1. IsFiniteSet(S) /\ c \in Nat
  <2>1. IsFiniteSet(1..m)
    BY FS_Interval
  <2> QED BY <2>1, FS_Subset, FS_CardinalityType
<1>2. \A i \in S : upTo(i) \in SUBSET S /\ i \in upTo(i) /\ i \in Int
  OBVIOUS
<1>3. \A i, l \in S : i < l => upTo(i) \in SUBSET upTo(l) /\ l \notin upTo(i)
  <2> TAKE i, l \in S
  <2> HAVE i < l
  <2>1. \A j \in S : j \in Int
    OBVIOUS
  <2>2. \A j \in S : j <= i => j <= l
    BY <2>1
  <2>3. ~ (l <= i)
    BY <2>1
  <2> QED BY <2>2, <2>3
<1> HIDE DEF upTo
<1>4. \A i \in S : IsFiniteSet(upTo(i)) /\ Cardinality(upTo(i)) \in 1..c
  <2> TAKE i \in S
  <2>1. IsFiniteSet(upTo(i)) /\ Cardinality(upTo(i)) <= c
    BY <1>1, <1>2, FS_Subset
  <2>2. Cardinality(upTo(i)) \in Nat /\ Cardinality(upTo(i)) # 0
    BY <1>2, <2>1, FS_CardinalityType, FS_EmptySet
  <2> QED BY <1>1, <2>1, <2>2
<1>5. \A i, l \in S : i < l => Cardinality(upTo(i)) # Cardinality(upTo(l))
  <2> TAKE i, l \in S
  <2> HAVE i < l
  <2>1. upTo(i) \in SUBSET upTo(l) /\ upTo(i) # upTo(l) /\ IsFiniteSet(upTo(l))
    BY <1>2, <1>3, <1>4
  <2> QED BY <2>1, FS_Subset
<1>6. r \in Injection(S, 1..c)
  <2>1. r \in [S -> 1..c]
    BY <1>4
  <2>2. ASSUME NEW i \in S, NEW l \in S, r[i] = r[l] PROVE i = l
    <3>1. i \in Int /\ l \in Int /\ ~ (i < l) /\ ~ (l < i)
      BY <1>2, <1>5, <2>2
    <3> QED BY <3>1
  <2> QED BY <2>1, <2>2, Fun_IsInj
<1>7. IsFiniteSet(1..c) /\ Cardinality(1..c) = c
  BY <1>1, FS_Interval
<1>8. r \in Surjection(S, 1..c)
  <2>1. Cardinality(S) = Cardinality(1..c)
    BY <1>7
  <2> QED BY <1>6, <1>7, <2>1, FS_Injection
<1>9. \E i \in S : Cardinality(upTo(i)) = k
  BY <1>8 DEF Surjection
<1> QED BY <1>9 DEF Kth, upTo

Piece(frame, t, delta, until, j) ==
    /\ frame.from = {t + (j - 1) * delta} /\ frame.until \in Nat
    /\ frame.until <= t + j * delta
    /\ t + delta <= until => frame.until <= until

LEMMA SubintervalsArePieces ==
    ASSUME NEW t \in Nat, NEW until \in Nat, NEW delta \in Nat \ {0},
           NEW j \in DOMAIN Subintervals(t, until, delta), NEW frame,
           frame = [from |-> {Subintervals(t, until, delta)[j].from},
                    until |-> Subintervals(t, until, delta)[j].until]
    PROVE  j \in Nat \ {0} /\ Piece(frame, t, delta, until, j) /\ FrameFits(frame)
<1> DEFINE n == Pieces(t, until, delta)
           a == (j - 1) * delta
           b == j * delta
           u == IF j = 1 THEN t + delta ELSE Lower(t + b, until)
<1>1. n \in Int
  BY DEF Pieces
<1>2. j \in 1..n
  BY DEF Subintervals, Pieces
<1> HIDE DEF n
<1>3. j \in Nat \ {0}
  BY <1>1, <1>2
<1>4. frame.from = {t + a} /\ frame.until = u
  BY DEF Subintervals
<1>5. a \in Nat /\ b \in Nat /\ (j = 1 => b = delta)
  BY <1>3
<1>6. b >= delta
  <2>1. (j - 1) * delta = b - delta
    BY <1>3
  <2> QED BY <1>5, <2>1
<1> HIDE DEF a, b
<1>7. u \in Nat /\ u <= t + b /\ (t + delta <= until => u <= until)
  BY <1>3, <1>5, <1>6 DEF Lower
<1> HIDE DEF u
<1>8. t + a \in Nat
  BY <1>5
<1> QED BY <1>3, <1>4, <1>7, <1>8 DEF Piece, FrameFits, a, b

InPieces(F, t, delta, until, p) ==
    /\ F[Len(F)].from = {t} /\ F[Len(F)].until = until
    /\ \A k \in 1..(Len(F) - 1) :
           p[k] \in Nat \ {0} /\ Piece(F[k], t, delta, until, p[k]) /\ FrameFits(F[k])
    /\ \A i, k \in 1..(Len(F) - 1) : p[i] = p[k] => i = k

LEMMA FramesArePieces ==
    ASSUME NEW q, NEW t \in Nat, NEW until \in Nat, NEW F, F = Frames(q, {t}, until),
           q.interval \in {"hour", "day", "month"}
    PROVE  \E p : InPieces(F, t, Length(q.interval), until, p)
<1> DEFINE d == Length(q.interval)
           all == Subintervals(t, until, d)
           kept == {k \in DOMAIN all : Kept(q, all[k])}
           interval(k) == [from |-> {all[k].from}, until |-> all[k].until]
           n == Cardinality(kept)
           p == [k \in 1..n |-> Kth(kept, k)]
           cut == [k \in 1..n |-> interval(p[k])]
           last == <<[from |-> {t}, until |-> until]>>
           S == {cut[k] : k \in 1..n} \cup {last[1]}
           m == Pieces(t, until, d)
<1>1. d \in Nat \ {0} /\ m \in Int /\ DOMAIN all = 1..m
  <2>1. d \in Nat \ {0}
    BY LengthIsPositive
  <2> HIDE DEF d
  <2> QED BY <2>1 DEF Subintervals, Pieces
<1>2. F = Joined(cut, last)
  <2>1. Max({t}) = t /\ q.interval # "none" /\ {t} # {}
    BY DEF Max
  <2>2. F = [k \in 1..n |-> interval(Kth(kept, k))] \o last
    BY <2>1 DEF Frames
  <2>3. cut = [k \in 1..n |-> interval(Kth(kept, k))]
    OBVIOUS
  <2> HIDE DEF cut
  <2> QED BY <2>2, <2>3 DEF Joined
<1>3. \A j \in DOMAIN all : /\ j \in Nat \ {0} /\ Piece(interval(j), t, d, until, j)
                            /\ FrameFits(interval(j))
  <2> HIDE DEF d
  <2> QED BY <1>1, SubintervalsArePieces
<1> HIDE DEF d, m, all, interval
<1>4. kept \in SUBSET (1..m)
  BY <1>1
<1>5. n \in Nat
  <2>1. IsFiniteSet(1..m)
    BY <1>1, FS_Interval
  <2> HIDE DEF kept
  <2> QED BY <1>4, <2>1, FS_Subset, FS_CardinalityType
<1>6. \A k \in 1..n : p[k] \in kept /\ Cardinality({j \in kept : j <= p[k]}) = k
  <2> HIDE DEF kept
  <2> QED BY <1>1, <1>4, KthIsThere
<1>7. \A k \in 1..n : p[k] \in DOMAIN all
  BY <1>6
<1> HIDE DEF kept, n, p
<1>8. \A i, k \in 1..n : p[i] = p[k] => i = k
  BY <1>6
<1>9. /\ cut \in Seq(S) /\ Len(cut) = n /\ last \in Seq(S) /\ Len(last) = 1
      /\ last[1] = [from |-> {t}, until |-> until]
  <2>1. cut \in [1..n -> S]
    OBVIOUS
  <2>2. last \in Seq(S) /\ Len(last) = 1 /\ last[1] = [from |-> {t}, until |-> until]
    OBVIOUS
  <2> HIDE DEF cut, last, S
  <2> QED BY <1>5, <2>1, <2>2, FunctionIsSequence
<1>10. \A k \in 1..n : cut[k] = interval(p[k])
  OBVIOUS
<1> HIDE DEF cut, last, S
<1>11. /\ Len(F) = n + 1 /\ F[n + 1] = last[1]
       /\ \A k \in 1..n : F[k] = cut[k]
  <2>1. IsJoined(F, cut, last)
    BY <1>2, <1>9, JoinedProperties
  <2>2. 1 \in 1..Len(last)
    BY <1>9
  <2> QED BY <1>5, <1>9, <2>1, <2>2 DEF IsJoined
<1>12. F[Len(F)].from = {t} /\ F[Len(F)].until = until
  BY <1>9, <1>11
<1>13. Len(F) - 1 = n
  BY <1>5, <1>11
<1>14. \A k \in 1..n :
          p[k] \in Nat \ {0} /\ Piece(F[k], t, d, until, p[k]) /\ FrameFits(F[k])
  BY <1>3, <1>7, <1>10, <1>11
<1>15. InPieces(F, t, d, until, p)
  BY <1>8, <1>12, <1>13, <1>14 DEF InPieces
<1> QED BY <1>15 DEF d

(* The frames of a request are made of numbers.                            *)
LEMMA FramesAreNumbers ==
    ASSUME NEW q, NEW from, NEW until \in Nat, NEW F, F = Frames(q, from, until),
           q.interval \in {"none", "hour", "day", "month"},
           from \subseteq Nat, AtMostOne(from)
    PROVE  \A frame \in Range(F) : FrameFits(frame)
<1> DEFINE whole == [from |-> from, until |-> until]
<1>1. FrameFits(whole)
  BY DEF FrameFits
<1>2. CASE q.interval = "none" \/ from = {}
  <2>1. F = <<>> \o <<whole>>
    <3> DEFINE all == IF q.interval = "none" \/ from = {} THEN <<>>
                      ELSE Subintervals(Max(from), until, Length(q.interval))
               kept == {k \in DOMAIN all : Kept(q, all[k])}
               interval(k) == [from |-> {all[k].from}, until |-> all[k].until]
               cut == [k \in 1..Cardinality(kept) |-> interval(Kth(kept, k))]
    <3>1. F = cut \o <<whole>>
      BY DEF Frames
    <3>2. kept = {}
      BY <1>2
    <3> HIDE DEF kept, interval
    <3>3. Cardinality(kept) = 0
      BY <3>2, FS_EmptySet
    <3>4. cut = <<>>
      BY <3>3
    <3> HIDE DEF cut
    <3> QED BY <3>1, <3>4
  <2>2. F = <<whole>>
    BY <2>1
  <2>3. Range(F) = {whole}
    BY <2>2 DEF Range
  <2> QED BY <1>1, <2>3
<1>3. CASE ~ (q.interval = "none" \/ from = {})
  <2>1. PICK t \in Nat : from = {t}
    BY <1>3 DEF AtMostOne
  <2>2. F \in Seq(Range(F)) /\ Len(F) \in Nat \ {0}
    BY FramesShape
  <2>3. PICK p : InPieces(F, t, Length(q.interval), until, p)
    <3>1. F = Frames(q, {t}, until) /\ q.interval \in {"hour", "day", "month"}
      BY <1>3, <2>1
    <3> QED BY <3>1, FramesArePieces
  <2>4. PICK m \in Nat : m = Len(F) - 1 /\ Len(F) = m + 1
    BY <2>2
  <2>5. ASSUME NEW k \in DOMAIN F PROVE FrameFits(F[k])
    <3>1. k \in 1..m \/ k = m + 1
      BY <2>2, <2>4, LenProperties
    <3>2. CASE k \in 1..m
      BY <2>3, <2>4, <3>2 DEF InPieces
    <3>3. CASE k = m + 1
      <4>1. F[k].from = {t} /\ F[k].until = until
        BY <2>3, <2>4, <3>3 DEF InPieces
      <4> QED BY <4>1 DEF FrameFits
    <3> QED BY <3>1, <3>2, <3>3
  <2> QED BY <2>5 DEF Range
<1> QED BY <1>2, <1>3

-----------------------------------------------------------------------------
LEMMA AnswersStart == StatInit => AnswersInv
BY DEF StatInit, AnswersInv, RowsTell

LEMMA BucketsInNumber ==
    ASSUME NEW q \in Ask
    PROVE  /\ Len(q.thresholds) \in Nat
           /\ Len(Buckets(q.thresholds)) = Len(q.thresholds) + 1
<1> DEFINE n == Len(q.thresholds) + 1
           b == Buckets(q.thresholds)
<1>1. Len(q.thresholds) \in Nat
  BY StatAssumption, LenProperties
<1>2. n \in Nat
  BY <1>1
<1>3. b \in [1..n -> {b[k] : k \in 1..n}]
  BY DEF Buckets
<1> HIDE DEF n, b
<1>4. Len(b) = n
  BY <1>2, <1>3, FunctionIsSequence
<1> QED BY <1>1, <1>4 DEF n, b

(* One more bucket.                                                        *)
LEMMA NextBucket ==
    ASSUME NEW q \in Ask, NEW frame, NEW half, HalfRight(q, frame, half), q.kind = "qos",
           NEW now,
           now = Append(half, InBucket(q, frame, Buckets(q.thresholds)[Len(half) + 1]))
    PROVE  IF Len(now) = Len(Buckets(q.thresholds))
           THEN now = AllBuckets(q, frame) ELSE HalfRight(q, frame, now)
<1> DEFINE x == InBucket(q, frame, Buckets(q.thresholds)[Len(half) + 1])
           all == AllBuckets(q, frame)
           S == Range(half) \cup {x}
           n == Len(q.thresholds)
<1>1. /\ half \in Seq(Range(half)) /\ Len(half) \in 0..n
      /\ \A k \in 1..Len(half) : half[k] = all[k]
  BY DEF HalfRight
<1>2. n \in Nat /\ Len(Buckets(q.thresholds)) = n + 1
  BY BucketsInNumber
<1>3. PICK m \in 0..n : m = Len(half)
  BY <1>1
<1>4. all = [k \in 1..(n + 1) |-> InBucket(q, frame, Buckets(q.thresholds)[k])]
  BY DEF AllBuckets
<1>5. m + 1 \in 1..(n + 1)
  BY <1>2, <1>3
<1>6. x = all[m + 1]
  BY <1>3, <1>4, <1>5
<1>7. DOMAIN all = 1..(n + 1)
  BY <1>4
<1>8. half \in Seq(S) /\ x \in S
  BY <1>1, SeqMonotonic
<1>9. now = Append(half, x)
  OBVIOUS
<1> HIDE DEF x, all, S, n
<1>10. /\ now \in Seq(S) /\ Len(now) = m + 1 /\ DOMAIN now = 1..(m + 1)
       /\ \A k \in 1..m : now[k] = half[k]
       /\ now[m + 1] = x
  <2>1. /\ Append(half, x) \in Seq(S) /\ Len(Append(half, x)) = Len(half) + 1
        /\ \A k \in 1..Len(half) : Append(half, x)[k] = half[k]
        /\ Append(half, x)[Len(half) + 1] = x
    BY <1>8, AppendProperties
  <2>2. /\ now \in Seq(S) /\ Len(now) = m + 1
        /\ \A k \in 1..m : now[k] = half[k]
        /\ now[m + 1] = x
    BY <1>3, <1>9, <2>1
  <2> QED BY <2>2, LenProperties
<1>11. \A k \in 1..(m + 1) : now[k] = all[k]
  <2>1. \A k \in 1..m : now[k] = all[k]
    BY <1>1, <1>3, <1>10
  <2>2. \A k \in 1..(m + 1) : k \in 1..m \/ k = m + 1
    BY <1>3
  <2> QED BY <1>6, <1>10, <2>1, <2>2
<1>12. CASE Len(now) = n + 1
  <2>1. DOMAIN now = DOMAIN all
    BY <1>7, <1>10, <1>12
  <2>2. now = [k \in 1..(n + 1) |-> now[k]] /\ all = [k \in 1..(n + 1) |-> all[k]]
    BY <1>4, <1>7, <1>10, <1>12
  <2>3. \A k \in 1..(n + 1) : now[k] = all[k]
    BY <1>10, <1>11, <1>12
  <2>4. now = all
    BY <2>2, <2>3
  <2> QED BY <1>2, <1>12, <2>4 DEF all
<1>13. CASE Len(now) # n + 1
  <2>1. Len(now) \in 0..n
    BY <1>2, <1>3, <1>10, <1>13
  <2>2. now \in Seq(Range(now))
    BY <1>10, SequenceOfItsRange
  <2>3. HalfRight(q, frame, now)
    BY <1>10, <1>11, <2>1, <2>2 DEF HalfRight, all, n
  <2> QED BY <1>2, <1>13, <2>3
<1> QED BY <1>12, <1>13

LEMMA AnswersStepKeep == StatInv /\ AnswersInv /\ [StatNext]_statVars => AnswersInv'
<1> SUFFICES ASSUME StatInv, AnswersInv, [StatNext]_statVars PROVE AnswersInv'
  OBVIOUS
<1>1. Filled /\ RowsTell
  BY DEF StatInv, AnswersInv
<1>2. ASSUME request # NoRequest
      PROVE  /\ RequestFits(request) /\ Asked \in Ask /\ request.kind = Asked.kind
             /\ batched \/ Answers(request)
  BY <1>2 DEF StatInv, AnswersInv, RequestFits, Asked
<1>3. ASSUME request # NoRequest, request.todo # <<>>
      PROVE  batched \/ (FrameFits(Frame) /\ HalfRight(Asked, Frame, request.item))
  <2>1. request.todo \in Seq(Range(request.todo))
    BY <1>2, <1>3 DEF RequestFits
  <2>2. Frame \in Range(request.todo)
    <3>1. 1 \in DOMAIN request.todo /\ Head(request.todo) = request.todo[1]
      BY <1>3, <2>1, EmptySeq, LenProperties
    <3> QED BY <3>1 DEF Frame, Range
  <2> QED BY <1>2, <1>3, <2>2 DEF Answers, Asked, Frame
<1>4. ASSUME UNCHANGED <<calls, queueHours, agentHours, batched>>,
             \A w : w = request' => w = NoRequest \/ batched \/ Answers(w)
      PROVE  AnswersInv'
  <2>1. RowsTell'
    BY <1>1, <1>4 DEF RowsTell
  <2>2. ASSUME NEW w, w = request' PROVE w = NoRequest \/ batched' \/ Answers(w)'
    BY <1>4, <2>2, AnswersStay
  <2> QED BY <2>1, <2>2 DEF AnswersInv
<1>5. ASSUME NEW item, Answer(item), request # NoRequest, request.todo # <<>>,
             batched \/ Right(Asked, item)
      PROVE  AnswersInv'
  <2>1. UNCHANGED <<calls, queueHours, agentHours, batched>>
    BY <1>5 DEF Answer
  <2>2. ASSUME NEW w, w = request', ~ batched PROVE Answers(w)
    <3>1. w = [request EXCEPT !.items = Append(@, item), !.item = <<>>, !.todo = Tail(@)]
      BY <1>5, <2>2 DEF Answer
    <3>2. RequestFits(request) /\ Answers(request) /\ Right(request.asked, item)
      BY <1>2, <1>5, <2>2 DEF Asked
    <3> QED BY <1>5, <3>1, <3>2, AnswersFit
  <2> QED BY <1>4, <2>1, <2>2
<1>6. ASSUME NEW half, request # NoRequest, request.todo # <<>>,
             request' = [request EXCEPT !.item = half],
             UNCHANGED <<calls, queueHours, agentHours, batched>>,
             batched \/ HalfRight(Asked, Frame, half)
      PROVE  AnswersInv'
  <2>1. ASSUME NEW w, w = request', ~ batched PROVE Answers(w)
    <3>1. DOMAIN request = RequestField
      BY <1>2, <1>6 DEF RequestFits
    <3>2. w.asked = request.asked /\ w.todo = request.todo /\ w.items = request.items
          /\ w.item = half
      BY <1>6, <2>1, <3>1 DEF RequestField
    <3>3. Answers(request) /\ HalfRight(request.asked, Head(request.todo), half)
      BY <1>2, <1>6, <2>1 DEF Asked, Frame
    <3> QED BY <3>2, <3>3 DEF Answers
  <2> QED BY <1>4, <1>6, <2>1
<1>7. ASSUME NEW found \in SUBSET Call, NEW logins \in Logins, FillHour(found, logins)
      PROVE  AnswersInv'
  <2>1. /\ \A c \in found : c.time \div 2 = filled
        /\ calls' = calls \cup found /\ request' = request
        /\ queueHours' = queueHours \cup {<<filled, c.queue>> : c \in found}
        /\ batched' = (request # NoRequest)
    BY <1>7 DEF FillHour
  <2>2. {<<filled, c.queue>> : c \in found} = {RowOf(c) : c \in found}
    BY <2>1 DEF RowOf
  <2>3. RowsTell'
    BY <1>1, <2>1, <2>2 DEF RowsTell, RowOf
  <2> QED BY <2>1, <2>3 DEF AnswersInv
<1>8. ASSUME NEW q \in Ask, NEW from, NEW until, NEW todo, NEW w,
             \A frame \in Range(todo) : FrameFits(frame),
             w = [kind |-> q.kind, asked |-> q, from |-> from, until |-> until,
                  todo |-> todo, items |-> <<>>, item |-> <<>>]
      PROVE  Answers(w)
  <2>1. w.asked = q /\ w.todo = todo /\ w.items = <<>> /\ w.item = <<>>
    BY <1>8
  <2>2. Range(w.items) = {}
    BY <2>1 DEF Range
  <2> QED BY <1>8, <2>1, <2>2, NothingIsHalfRight DEF Answers
<1>9. ASSUME UNCHANGED <<calls, queueHours, agentHours>>,
             \A w : w = request' => Answers(w)
      PROVE  AnswersInv'
  <2>1. RowsTell'
    BY <1>1, <1>9 DEF RowsTell
  <2>2. ASSUME NEW w, w = request' PROVE Answers(w)'
    BY <1>9, <2>2, AnswersStay
  <2> QED BY <2>1, <2>2 DEF AnswersInv
<1>10. ASSUME NEW q \in Ask, Begin(q) PROVE AnswersInv'
  <2> DEFINE from == PeriodFrom(q)
             until == PeriodUntil(q)
             todo == Frames(q, from, until)
  <2>1. from \subseteq Nat /\ AtMostOne(from) /\ until \in Nat
    BY <1>1, PeriodIsNumbers
  <2>2. /\ request' = [kind |-> q.kind, asked |-> q, from |-> from, until |-> until,
                       todo |-> todo, items |-> <<>>, item |-> <<>>]
        /\ UNCHANGED <<calls, queueHours, agentHours>>
    BY <1>10 DEF Begin, PeriodFrom, PeriodUntil
  <2> HIDE DEF from, until
  <2>3. \A frame \in Range(todo) : FrameFits(frame)
    <3>1. q.interval \in {"none", "hour", "day", "month"}
      BY StatAssumption
    <3> QED BY <2>1, <3>1, FramesAreNumbers
  <2> HIDE DEF todo
  <2> QED BY <1>8, <1>9, <2>2, <2>3
<1>11. ASSUME NEW q \in Ask, BeginList(q) PROVE AnswersInv'
  <2> DEFINE frame == [from |-> q.from, until |-> PeriodUntil(q)]
             todo == <<frame>>
  <2>1. /\ request' = [kind |-> q.kind, asked |-> q, from |-> q.from, until |-> Tomorrow,
                       todo |-> todo, items |-> <<>>, item |-> <<>>]
        /\ UNCHANGED <<calls, queueHours, agentHours>>
    BY <1>11 DEF BeginList, PeriodUntil
  <2>2. FrameFits(frame)
    BY <1>1, PeriodIsNumbers, StatAssumption DEF FrameFits
  <2> HIDE DEF frame
  <2>3. Range(todo) = {frame}
    BY DEF Range
  <2> HIDE DEF todo
  <2> QED BY <1>8, <1>9, <2>1, <2>2, <2>3
<1>12. NoRequest.kind = "none"
  BY DEF NoRequest
<1>13. CASE AnswerQueue
  <2>1. /\ request # NoRequest /\ request.todo # <<>> /\ request.kind = "queue"
        /\ Answer(QueueItem(Asked, Frame))
    BY <1>12, <1>13 DEF AnswerQueue, Answering
  <2>2. QueueItem(Asked, Frame).frame = Frame
    BY DEF QueueItem
  <2>3. batched \/ Right(Asked, QueueItem(Asked, Frame))
    BY <1>2, <1>3, <2>1, <2>2 DEF Right
  <2> QED BY <1>5, <2>1, <2>3
<1>14. CASE AnswerQueues
  <2> DEFINE item == [frame |-> Frame, of |-> QueueItems(Asked, Frame)]
  <2>1. /\ request # NoRequest /\ request.todo # <<>> /\ request.kind = "queues" /\ Answer(item)
    BY <1>12, <1>14 DEF AnswerQueues, Answering
  <2>2. item.frame = Frame /\ item.of = QueueItems(Asked, Frame)
    OBVIOUS
  <2> HIDE DEF item
  <2>3. batched \/ Right(Asked, item)
    BY <1>2, <1>3, <2>1, <2>2 DEF Right
  <2> QED BY <1>5, <2>1, <2>3
<1>15. CASE AnswerAgent
  <2> DEFINE half == <<AgentItem(Asked, Frame)>>
  <2>1. /\ request # NoRequest /\ request.todo # <<>> /\ request.kind \in {"agent", "agents"}
        /\ request' = [request EXCEPT !.item = half]
        /\ UNCHANGED <<calls, queueHours, agentHours, batched>>
    BY <1>12, <1>15 DEF AnswerAgent, Answering
  <2>2. HalfRight(Asked, Frame, half)
    BY <1>2, <2>1 DEF HalfRight
  <2> HIDE DEF half
  <2> QED BY <1>6, <2>1, <2>2
<1>16. CASE AnswerAgentQueues
  <2> DEFINE item == [frame |-> Frame, login |-> request.item[1].login,
                      answered |-> request.item[1].answered,
                      queues |-> AgentQueues(Asked, Frame)]
  <2>1. /\ request # NoRequest /\ request.todo # <<>> /\ request.kind \in {"agent", "agents"}
        /\ request.item # <<>> /\ Answer(item)
    BY <1>12, <1>16 DEF AnswerAgentQueues, Answering
  <2>2. /\ item.frame = Frame /\ item.login = request.item[1].login
        /\ item.answered = request.item[1].answered /\ item.queues = AgentQueues(Asked, Frame)
    OBVIOUS
  <2> HIDE DEF item
  <2>3. ASSUME ~ batched PROVE Right(Asked, item)
    <3>1. FrameFits(Frame) /\ request.item = <<AgentItem(Asked, Frame)>>
      BY <1>2, <1>3, <2>1, <2>3 DEF HalfRight
    <3>2. request.item[1] = AgentItem(Asked, Frame)
      BY <3>1
    <3> QED BY <1>2, <2>1, <2>2, <3>1, <3>2 DEF Right
  <2> QED BY <1>5, <2>1, <2>3
<1>17. CASE AnswerBucket
  <2> DEFINE now == Append(request.item,
                           InBucket(Asked, Frame,
                                    Buckets(Asked.thresholds)[Len(request.item) + 1]))
             item == [frame |-> Frame, buckets |-> now]
  <2>1. request # NoRequest /\ request.todo # <<>> /\ request.kind = "qos"
    BY <1>12, <1>17 DEF AnswerBucket, Answering
  <2>2. IF Len(now) = Len(Buckets(Asked.thresholds))
        THEN Answer(item)
        ELSE /\ request' = [request EXCEPT !.item = now]
             /\ UNCHANGED <<calls, queueHours, agentHours, batched>>
    BY <1>17 DEF AnswerBucket
  <2>3. ASSUME ~ batched
        PROVE  /\ FrameFits(Frame)
               /\ IF Len(now) = Len(Buckets(Asked.thresholds))
                  THEN now = AllBuckets(Asked, Frame) ELSE HalfRight(Asked, Frame, now)
    BY <1>2, <1>3, <2>1, <2>3, NextBucket
  <2>4. item.frame = Frame /\ item.buckets = now
    OBVIOUS
  <2> HIDE DEF item, now
  <2>5. CASE Len(now) = Len(Buckets(Asked.thresholds))
    <3>1. batched \/ Right(Asked, item)
      BY <1>2, <2>1, <2>3, <2>4, <2>5 DEF Right
    <3> QED BY <1>5, <2>1, <2>2, <2>5, <3>1
  <2>6. CASE Len(now) # Len(Buckets(Asked.thresholds))
    BY <1>6, <2>1, <2>2, <2>3, <2>6
  <2> QED BY <2>5, <2>6
<1>18. CASE Respond
  BY <1>4, <1>18 DEF Respond
<1>19. CASE UNCHANGED statVars
  BY <1>2, <1>4, <1>19 DEF statVars
<1> QED BY <1>7, <1>10, <1>11, <1>13, <1>14, <1>15, <1>16, <1>17, <1>18, <1>19 DEF StatNext

LEMMA AnswersInvariant == StatSpec => []AnswersInv
BY StatInvariant, AnswersStart, AnswersStepKeep, PTL DEF StatSpec

-----------------------------------------------------------------------------
LEMMA CallsAreFinite ==
    ASSUME Filled
    PROVE  IsFiniteSet(calls) /\ calls \in SUBSET Call
<1>1. calls \in SUBSET Call
  BY DEF Filled
<1> QED BY <1>1, FS_Subset, StatAssumption

LEMMA AnsweredCalls ==
    ASSUME Filled, NEW q, NEW frame
    PROVE  LET A == WithStatus(CallsIn(q, frame), "answered")
           IN  IsFiniteSet(A) /\ A \in SUBSET calls
<1>1. WithStatus(CallsIn(q, frame), "answered") \in SUBSET calls
  BY DEF WithStatus, CallsIn
<1> QED BY <1>1, CallsAreFinite, FS_Subset

(* A request that is done, and what it answered.                           *)
LEMMA DoneIsRight ==
    ASSUME StatInv, AnswersInv, Done, ~ batched, NEW item \in Range(request.items)
    PROVE  /\ Filled /\ RowsTell
           /\ Asked \in Ask /\ request.kind = Asked.kind /\ Right(Asked, item)
BY DEF StatInv, AnswersInv, Done, RequestFits, Answers, Asked

(* What an agent answered is the sum of what it answered in each of its    *)
(* queues, for any queues and calls: a call of a queue the agent has no    *)
(* row for is reported all the same (get_per_queue_intervals_for_agent).   *)
THEOREM BreakdownKeepsAddingUp == StatSpec => []BreakdownAddsUp
<1>1. StatInv /\ AnswersInv => BreakdownAddsUp
  <2> SUFFICES ASSUME StatInv, AnswersInv, Done, request.kind \in {"agent", "agents"}, ~ batched,
                      NEW item \in Range(request.items), item.login > 0
               PROVE  Total(item.queues) = item.answered
    BY DEF BreakdownAddsUp
  <2> DEFINE q == Asked
             frame == item.frame
             A == WithStatus(CallsIn(q, frame), "answered")
             Q == QueuesOfAgent(q, frame)
             g == [c \in A |-> c.queue]
  <2>1. /\ Filled /\ item.login = AgentItem(q, frame).login
        /\ item.answered = AgentItem(q, frame).answered
        /\ item.queues = AgentQueues(q, frame)
    BY DoneIsRight DEF Right
  <2>2. item.login = Cardinality(AgentRows(q, frame))
    BY <2>1 DEF AgentItem
  <2>3. AgentRows(q, frame) # {}
    BY <2>2, FS_EmptySet
  <2>4. item.answered = Cardinality(A)
    BY <2>1, <2>3 DEF AgentItem
  <2>5. IsFiniteSet(A) /\ A \in SUBSET calls
    BY <2>1, AnsweredCalls
  <2>6. \A c \in A : c.queue \in Q
    <3>1. \A c \in A : c.queue # NoQueue
      BY <2>1, <2>5, StatAssumption DEF Filled
    <3> QED BY <3>1 DEF QueuesOfAgent
  <2>7. DOMAIN item.queues = Q
    BY <2>1 DEF AgentQueues
  <2>8. \A x \in Q : item.queues[x] = Cardinality({c \in A : c.queue = x})
    BY <2>1 DEF AgentQueues
  <2> HIDE DEF q, frame, A, Q
  <2>9. g \in [A -> Q]
    BY <2>6
  <2>10. \A x \in Q : Fibre(A, g, x) = {c \in A : c.queue = x}
    BY DEF Fibre
  <2> HIDE DEF g
  <2>11. \A x \in Q : item.queues[x] = Cardinality(Fibre(A, g, x))
    BY <2>8, <2>10
  <2>12. Total(item.queues) = Cardinality(A)
    BY <2>5, <2>7, <2>9, <2>11, FibresAddUp
  <2> QED BY <2>4, <2>12
<1> QED BY <1>1, StatInvariant, AnswersInvariant, PTL

(* The calls a sum over rows counts.                                       *)
CallsOf(rows, statuses) == {c \in calls : c.status \in statuses /\ RowOf(c) \in rows}

LEMMA SumOfCounts ==
    ASSUME Filled, NEW rows, NEW statuses
    PROVE  /\ SumOf(rows, statuses) = Cardinality(CallsOf(rows, statuses))
           /\ IsFiniteSet(CallsOf(rows, statuses))
<1> DEFINE C == CallsOf(rows, statuses)
           g == [c \in C |-> RowOf(c)]
           f == [r \in rows |-> Cardinality({c \in calls : /\ c.status \in statuses
                                                            /\ <<c.time \div 2, c.queue>> = r})]
<1>1. IsFiniteSet(C)
  <2>1. C \in SUBSET calls
    BY DEF CallsOf
  <2> HIDE DEF C
  <2> QED BY <2>1, CallsAreFinite, FS_Subset
<1>2. \A c \in C : RowOf(c) \in rows
  BY DEF CallsOf
<1>3. g \in [C -> rows]
  BY <1>2
<1>4. \A r \in rows :
         {c \in calls : c.status \in statuses /\ <<c.time \div 2, c.queue>> = r} = Fibre(C, g, r)
  BY DEF Fibre, CallsOf, RowOf
<1>5. DOMAIN f = rows /\ \A r \in rows : f[r] = Cardinality(Fibre(C, g, r))
  BY <1>4
<1>6. SumOf(rows, statuses) = Total(f)
  BY DEF SumOf
<1> HIDE DEF C, g, f
<1>7. Total(f) = Cardinality(C)
  BY <1>1, <1>3, <1>5, FibresAddUp
<1> QED BY <1>1, <1>6, <1>7 DEF C

-----------------------------------------------------------------------------
(***************************************************************************)
(* Calls and the rows of their hours.                                      *)
(***************************************************************************)
LEMMA QuotientIsUnique ==
    ASSUME NEW d \in Nat \ {0}, NEW t \in Nat, NEW k \in Nat, d * k <= t, t < d * k + d
    PROVE  t \div d = k
<1> DEFINE n == t \div d
<1>1. n \in Nat /\ d * n <= t /\ t < d * n + d
  OBVIOUS
<1> HIDE DEF n
<1>2. ASSUME NEW a \in Nat, NEW b \in Nat, a < b PROVE d * a + d <= d * b
  <2>1. d * ((b - a) - 1) >= 0
    BY <1>2
  <2>2. d * ((b - a) - 1) = d * b - d * a - d
    OBVIOUS
  <2>3. d * a \in Nat /\ d * b \in Nat
    OBVIOUS
  <2> QED BY <2>1, <2>2, <2>3
<1>3. d * k \in Nat /\ d * n \in Nat
  BY <1>1
<1>4. ~ (n < k) /\ ~ (k < n)
  BY <1>1, <1>2, <1>3
<1>5. n = k
  BY <1>1, <1>4
<1> QED BY <1>5 DEF n

(* An hour and its half hours are on the same day.                         *)
LEMMA SameDay ==
    ASSUME NEW h \in Nat, NEW t \in Nat, t = 2 * h \/ t = 2 * h + 1
    PROVE  t \div (2 * Hours) = (2 * h) \div (2 * Hours)
<1> DEFINE k == h \div Hours
           a == Hours * k
           d == 2 * Hours
<1>1. Hours \in Nat \ {0} /\ d \in Nat \ {0}
  BY StatAssumption
<1>2. k \in Nat /\ a <= h /\ h < a + Hours
  BY <1>1
<1> HIDE DEF k
<1>3. a \in Nat /\ d * k = 2 * a
  BY <1>1, <1>2
<1> HIDE DEF a
<1>4. /\ d * k <= t /\ t < d * k + d
      /\ d * k <= 2 * h /\ 2 * h < d * k + d
  BY <1>1, <1>2, <1>3
<1> HIDE DEF d
<1>5. t \div d = k /\ (2 * h) \div d = k
  <2>1. 2 * h \in Nat
    OBVIOUS
  <2> QED BY <1>1, <1>2, <1>4, <2>1, QuotientIsUnique
<1> QED BY <1>5 DEF d

(* A frame of whole hours holds a call where it holds the hour's row.      *)
LEMMA WholeHoursHold ==
    ASSUME NEW q, NEW frame, NEW t \in Nat, FrameFits(frame), OfWholeHours(frame)
    PROVE  InFrame(q, frame, t) <=> InFrame(q, frame, 2 * (t \div 2))
<1> DEFINE h == t \div 2
<1>1. h \in Nat /\ (t = 2 * h \/ t = 2 * h + 1)
  OBVIOUS
<1>2. (2 * h) \div 2 = h
  BY <1>1
<1>3. HourOfDay(t) = HourOfDay(2 * h)
  BY <1>2 DEF HourOfDay
<1> HIDE DEF h
<1>4. WeekDay(t) = WeekDay(2 * h)
  BY <1>1, SameDay DEF WeekDay
<1>5. ASSUME NEW x \in Nat, x % 2 = 0 PROVE (t >= x <=> 2 * h >= x) /\ (t < x <=> 2 * h < x)
  BY <1>1, <1>5
<1>6. /\ \A f \in frame.from : f \in Nat /\ f % 2 = 0
      /\ frame.until \in Nat /\ frame.until % 2 = 0
  BY DEF FrameFits, OfWholeHours
<1>7. /\ \A f \in frame.from : t >= f <=> 2 * h >= f
      /\ t < frame.until <=> 2 * h < frame.until
  BY <1>5, <1>6
<1> QED BY <1>3, <1>4, <1>7 DEF InFrame, h

(* The rows of a queue in a frame of whole hours are those of its calls.   *)
LEMMA RowsOfQueue ==
    ASSUME Filled, RowsTell, NEW q, NEW frame, NEW x, FrameFits(frame), OfWholeHours(frame),
           NEW c \in calls
    PROVE  RowOf(c) \in RowsIn({r \in queueHours : r[2] = x}, q, frame)
               <=> c.queue = x /\ c \in CallsIn(q, frame)
<1>1. c.time \in Nat
  BY StatAssumption DEF Filled
<1>2. RowOf(c) \in queueHours /\ RowOf(c)[1] = c.time \div 2 /\ RowOf(c)[2] = c.queue
  BY DEF RowsTell, RowOf
<1>3. InFrame(q, frame, c.time) <=> InFrame(q, frame, 2 * (c.time \div 2))
  BY <1>1, WholeHoursHold
<1> QED BY <1>2, <1>3 DEF RowsIn, CallsIn

(* What a queue is said to answer in time, and to wait, in whole hours.    *)
LEMMA QueueItemIsSound ==
    ASSUME Filled, RowsTell, NEW q, NEW frame, FrameFits(frame), OfWholeHours(frame)
    PROVE  LET item == QueueItem(q, frame)
               waiting == {c \in CallsIn(q, frame) : c.queue = q.queue /\ c.status \in Waited}
           IN  item.extra.onTime <= item.answered /\ item.extra.waited = Cardinality(waiting)
<1> DEFINE rows == RowsIn({r \in queueHours : r[2] = q.queue}, q, frame)
           item == QueueItem(q, frame)
           mine == {c \in CallsIn(q, frame) : c.queue = q.queue}
           waiting == {c \in CallsIn(q, frame) : c.queue = q.queue /\ c.status \in Waited}
           inTime == {c \in WithStatus(mine, "answered") : \E w \in q.threshold : c.wait <= w}
           answered == CallsOf(rows, {"answered"})
<1>1. \A c \in calls : RowOf(c) \in rows <=> c \in mine
  <2>1. \A c \in calls : RowOf(c) \in rows <=> c.queue = q.queue /\ c \in CallsIn(q, frame)
    BY RowsOfQueue
  <2> QED BY <2>1
<1>2. mine \in SUBSET calls
  BY DEF CallsIn
<1>3. item.answered = Cardinality(answered) /\ IsFiniteSet(answered)
  <2>1. item.answered = SumOf(rows, {"answered"})
    BY DEF QueueItem
  <2> HIDE DEF rows, item, answered
  <2> QED BY <2>1, SumOfCounts DEF answered
<1>4. CallsOf(rows, Waited) = waiting
  BY <1>1, <1>2 DEF CallsOf
<1>5. inTime \in SUBSET answered
  BY <1>1, <1>2 DEF CallsOf, WithStatus
<1>6. Cardinality(inTime) <= Cardinality(answered)
  <2> HIDE DEF inTime, answered
  <2> QED BY <1>3, <1>5, FS_Subset
<1>7. CASE rows # {}
  <2>1. item.extra = [onTime |-> Cardinality(inTime), waits |-> Total([c \in mine |-> c.wait]),
                      waited |-> SumOf(rows, Waited)]
    BY <1>7 DEF QueueItem, ExtraStats
  <2> HIDE DEF item, inTime, answered, rows, mine, waiting
  <2>2. item.extra.onTime = Cardinality(inTime) /\ item.extra.waited = SumOf(rows, Waited)
    BY <2>1
  <2>3. SumOf(rows, Waited) = Cardinality(waiting)
    BY <1>4, SumOfCounts
  <2> QED BY <1>3, <1>6, <2>2, <2>3 DEF item, waiting
<1>8. CASE rows = {}
  <2>1. item.extra.onTime = 0 /\ item.extra.waited = 0
    BY <1>8 DEF QueueItem
  <2>2. waiting = {} /\ answered = {}
    BY <1>1, <1>2, <1>4, <1>8 DEF CallsOf
  <2> HIDE DEF item, rows, mine, waiting, answered
  <2>3. Cardinality({}) = 0
    BY FS_EmptySet
  <2>4. item.answered = 0 /\ Cardinality(waiting) = 0
    BY <1>3, <2>2, <2>3
  <2> QED BY <2>1, <2>4 DEF item, waiting
<1> QED BY <1>7, <1>8

(* Each wait is in one bucket: the first whose end it does not reach.      *)
LEMMA OneBucketEach ==
    ASSUME NEW q \in Ask, NEW w \in Nat
    PROVE  LET n == Len(q.thresholds) + 1
               b == Buckets(q.thresholds)
               in(k) == w >= b[k].min /\ \A m \in b[k].max : w < m
           IN  /\ \E k \in 1..n : in(k)
               /\ \A j, k \in 1..n : in(j) /\ in(k) => j = k
<1> DEFINE t == q.thresholds
           n == Len(t) + 1
           b == Buckets(t)
           in(k) == w >= b[k].min /\ \A m \in b[k].max : w < m
           short == {k \in 1..n : \A m \in b[k].max : w < m}
<1>1. /\ Len(t) \in Nat /\ DOMAIN t = 1..Len(t)
      /\ \A k \in 1..Len(t) : t[k] \in Nat
      /\ \A i, j \in 1..Len(t) : i <= j => t[i] <= t[j]
  <2>1. t \in Seq(Nat) /\ \A i, j \in DOMAIN t : i <= j => t[i] <= t[j]
    BY StatAssumption
  <2> HIDE DEF t
  <2> QED BY <2>1, LenProperties, ElementOfSeq
<1>2. PICK l \in Nat : l = Len(t) /\ n = l + 1
  BY <1>1
<1>3. \A k \in 1..n : /\ b[k].min = IF k = 1 THEN 0 ELSE t[k - 1]
                      /\ b[k].max = IF k <= Len(t) THEN {t[k]} ELSE {}
  BY DEF Buckets
<1> HIDE DEF b, n, t
<1>4. \A k \in 1..(l + 1) : in(k) <=> /\ k = 1 \/ w >= t[k - 1]
                                      /\ k <= l => w < t[k]
  <2> TAKE k \in 1..(l + 1)
  <2>1. b[k].min = (IF k = 1 THEN 0 ELSE t[k - 1])
    BY <1>2, <1>3
  <2>2. w >= b[k].min <=> (k = 1 \/ w >= t[k - 1])
    BY <2>1
  <2>3. b[k].max = IF k <= l THEN {t[k]} ELSE {}
    BY <1>2, <1>3
  <2>4. (\A m \in b[k].max : w < m) <=> (k <= l => w < t[k])
    BY <2>3
  <2> QED BY <2>2, <2>4
<1>5. \E k \in 1..(l + 1) : in(k)
  <2> DEFINE S == {k \in 1..(l + 1) : k <= l => w < t[k]}
  <2>1. l + 1 \in S /\ S \subseteq Nat
    OBVIOUS
  <2> HIDE DEF S
  <2>2. PICK k \in S : \A j \in S : k <= j
    BY <2>1, NatHasMinimum
  <2>3. k \in 1..(l + 1) /\ (k <= l => w < t[k])
    BY <2>2 DEF S
  <2>4. CASE k = 1
    BY <1>4, <2>3, <2>4
  <2>5. CASE k # 1
    <3>1. k - 1 \in 1..(l + 1) /\ k - 1 \in 1..l /\ k - 1 \notin S
      BY <2>2, <2>3, <2>5
    <3>2. ~ (w < t[k - 1]) /\ t[k - 1] \in Nat
      BY <1>1, <1>2, <3>1 DEF S
    <3> QED BY <1>4, <2>3, <3>2
  <2> QED BY <2>4, <2>5
<1>6. ASSUME NEW j \in 1..(l + 1), NEW k \in 1..(l + 1), in(j), in(k), j < k PROVE FALSE
  <2>1. j \in 1..l /\ k - 1 \in 1..l /\ j <= k - 1
    BY <1>6
  <2>2. t[j] \in Nat /\ t[k - 1] \in Nat /\ t[j] <= t[k - 1]
    BY <1>1, <1>2, <2>1
  <2>3. w < t[j] /\ w >= t[k - 1]
    BY <1>4, <1>6, <2>1
  <2> QED BY <2>2, <2>3
<1>7. \A j, k \in 1..(l + 1) : in(j) /\ in(k) => j = k
  <2> SUFFICES ASSUME NEW j \in 1..(l + 1), NEW k \in 1..(l + 1), in(j), in(k) PROVE j = k
    OBVIOUS
  <2>1. ~ (j < k) /\ ~ (k < j)
    BY <1>6
  <2> QED BY <2>1
<1> QED BY <1>2, <1>5, <1>7 DEF n, b, t

(* The buckets of a queue hold each of its answered calls once.            *)
LEMMA BucketsAreSound ==
    ASSUME Filled, NEW q \in Ask, NEW frame
    PROVE  LET all == AllBuckets(q, frame)
               A == {c \in CallsIn(q, frame) : c.queue = q.queue}
           IN  Total([k \in DOMAIN all |-> all[k].answered])
                   = Cardinality(WithStatus(A, "answered"))
<1> DEFINE n == Len(q.thresholds) + 1
           b == Buckets(q.thresholds)
           all == AllBuckets(q, frame)
           A == {c \in CallsIn(q, frame) : c.queue = q.queue}
           C == WithStatus(A, "answered")
           in(c, k) == c.wait >= b[k].min /\ \A m \in b[k].max : c.wait < m
           f == [k \in DOMAIN all |-> all[k].answered]
           g == [c \in C |-> CHOOSE k \in 1..n : in(c, k)]
<1>1. IsFiniteSet(C) /\ \A c \in C : c.wait \in Nat
  <2>1. C \in SUBSET calls
    BY DEF CallsIn, WithStatus
  <2>2. \A c \in calls : c.wait \in Nat
    BY CallsAreFinite, StatAssumption
  <2> HIDE DEF C
  <2> QED BY <2>1, <2>2, CallsAreFinite, FS_Subset
<1>2. \A c \in C : /\ \E k \in 1..n : in(c, k)
                   /\ \A j, k \in 1..n : in(c, j) /\ in(c, k) => j = k
  <2> HIDE DEF C
  <2> QED BY <1>1, OneBucketEach
<1>3. DOMAIN f = 1..n /\ \A k \in 1..n : f[k] = Cardinality({c \in C : in(c, k)})
  <2>1. DOMAIN all = 1..n /\ \A k \in 1..n : all[k] = InBucket(q, frame, b[k])
    BY DEF AllBuckets
  <2>2. \A k \in 1..n : InBucket(q, frame, b[k]).answered = Cardinality({c \in C : in(c, k)})
    <3> TAKE k \in 1..n
    <3>1. {c \in WithStatus(CallsIn(q, frame), "answered") :
              /\ c.queue = q.queue /\ c.wait >= b[k].min
              /\ \A m \in b[k].max : c.wait < m} = {c \in C : in(c, k)}
      BY DEF WithStatus
    <3> HIDE DEF C, b
    <3> QED BY <3>1 DEF InBucket
  <2> HIDE DEF all, b
  <2> QED BY <2>1, <2>2
<1> HIDE DEF C, f, n, in
<1>4. \A c \in C : g[c] \in 1..n /\ in(c, g[c])
  BY <1>2
<1>5. \A k \in 1..n : {c \in C : in(c, k)} = Fibre(C, g, k)
  BY <1>2, <1>4 DEF Fibre
<1>6. g \in [C -> 1..n]
  BY <1>4
<1> HIDE DEF g
<1>7. \A k \in 1..n : f[k] = Cardinality(Fibre(C, g, k))
  BY <1>3, <1>5
<1>8. Total(f) = Cardinality(C)
  <2> DEFINE Q == 1..n
  <2>1. DOMAIN f = Q /\ g \in [C -> Q] /\ \A k \in Q : f[k] = Cardinality(Fibre(C, g, k))
    BY <1>3, <1>6, <1>7
  <2> HIDE DEF Q
  <2> QED BY <1>1, <2>1, FibresAddUp
<1> QED BY <1>8 DEF f, C

(* The buckets, the calls answered in time and the calls that waited are   *)
(* those of the period asked for, for any thresholds, queues and calls:    *)
(* what is put in proportion is counted over the same calls, from the      *)
(* table of calls or from that of hours (_get_extra_stats).                *)
THEOREM QualityKeepsAccounting == StatSpec => []QualityAccountsForEveryCall
<1>1. StatInv /\ AnswersInv => QualityAccountsForEveryCall
  <2> DEFINE among(x, frame) == {c \in CallsIn(Asked, frame) : c.queue = x}
             sound(x, frame, stats) ==
                 /\ stats.extra.onTime <= stats.answered
                 /\ stats.extra.waited
                        = Cardinality({c \in among(x, frame) : c.status \in Waited})
  <2> SUFFICES ASSUME StatInv, AnswersInv, Done, ~ batched, NEW item \in Range(request.items)
               PROVE  /\ request.kind = "qos" =>
                             Total([k \in DOMAIN item.buckets |-> item.buckets[k].answered])
                                 = Cardinality(WithStatus(among(Asked.queue, item.frame),
                                                          "answered"))
                      /\ request.kind = "queue" /\ OfWholeHours(item.frame) =>
                             sound(Asked.queue, item.frame, item)
                      /\ request.kind = "queues" /\ OfWholeHours(item.frame) =>
                             \A x \in DOMAIN item.of : sound(x, item.frame, item.of[x])
    BY DEF QualityAccountsForEveryCall
  <2>1. /\ Filled /\ RowsTell
        /\ Asked \in Ask /\ request.kind = Asked.kind /\ Right(Asked, item)
    BY DoneIsRight
  <2>2. FrameFits(item.frame)
    BY <2>1 DEF Right
  <2>3. \A q, x, frame : {c \in CallsIn(q, frame) : c.queue = x /\ c.status \in Waited}
                       = {c \in {d \in CallsIn(q, frame) : d.queue = x} : c.status \in Waited}
    OBVIOUS
  <2>4. ASSUME request.kind = "qos"
        PROVE  Total([k \in DOMAIN item.buckets |-> item.buckets[k].answered])
                   = Cardinality(WithStatus(among(Asked.queue, item.frame), "answered"))
    <3>1. item.buckets = AllBuckets(Asked, item.frame)
      BY <2>1, <2>4 DEF Right
    <3> QED BY <2>1, <3>1, BucketsAreSound
  <2>5. ASSUME request.kind = "queue", OfWholeHours(item.frame)
        PROVE  sound(Asked.queue, item.frame, item)
    <3>1. item = QueueItem(Asked, item.frame)
      BY <2>1, <2>5 DEF Right
    <3>2. LET stats == QueueItem(Asked, item.frame)
              waiting == {c \in CallsIn(Asked, item.frame) :
                             c.queue = Asked.queue /\ c.status \in Waited}
          IN  stats.extra.onTime <= stats.answered /\ stats.extra.waited = Cardinality(waiting)
      BY <2>1, <2>2, <2>5, QueueItemIsSound
    <3> QED BY <2>3, <3>1, <3>2
  <2>6. ASSUME request.kind = "queues", OfWholeHours(item.frame), NEW x \in DOMAIN item.of
        PROVE  sound(x, item.frame, item.of[x])
    <3> DEFINE r == [Asked EXCEPT !.queue = x]
               frame == item.frame
    <3>1. item.of[x] = QueueItem(r, frame)
      BY <2>1, <2>6 DEF Right, QueueItems
    <3>2. DOMAIN Asked = AskField
      BY <2>1, StatAssumption
    <3>3. r.queue = x /\ r.window = Asked.window /\ r.days = Asked.days
      BY <3>2 DEF AskField
    <3> HIDE DEF r
    <3>4. CallsIn(r, frame) = CallsIn(Asked, frame)
      BY <3>3 DEF CallsIn, InFrame
    <3>5. LET stats == QueueItem(r, frame)
              waiting == {c \in CallsIn(r, frame) : c.queue = r.queue /\ c.status \in Waited}
          IN  stats.extra.onTime <= stats.answered /\ stats.extra.waited = Cardinality(waiting)
      BY <2>1, <2>2, <2>6, QueueItemIsSound
    <3> QED BY <2>3, <3>1, <3>3, <3>4, <3>5
  <2> QED BY <2>4, <2>5, <2>6
<1> QED BY <1>1, StatInvariant, AnswersInvariant, PTL

-----------------------------------------------------------------------------
(***************************************************************************)
(* What is answered in the intervals and in their period.                  *)
(***************************************************************************)
Within(frame, x) == (\A f \in frame.from : x >= f) /\ x < frame.until

(* The calls an item says were answered.                                   *)
AnsweredOf(q, frame) ==
    IF q.kind = "queue"
    THEN CallsOf(RowsIn({r \in queueHours : r[2] = q.queue}, q, frame), {"answered"})
    ELSE IF AgentRows(q, frame) = {} THEN {}
    ELSE WithStatus(CallsIn(q, frame), "answered")

LEMMA AnsweredIsCounted ==
    ASSUME Filled, NEW q, NEW item, Right(q, item), q.kind \in {"queue", "agent"}
    PROVE  /\ item.answered = Cardinality(AnsweredOf(q, item.frame))
           /\ IsFiniteSet(AnsweredOf(q, item.frame))
<1> DEFINE rows == RowsIn({r \in queueHours : r[2] = q.queue}, q, item.frame)
<1>1. CASE q.kind = "queue"
  <2>1. item.answered = SumOf(rows, {"answered"})
    <3>1. item = QueueItem(q, item.frame)
      BY <1>1 DEF Right
    <3> QED BY <3>1 DEF QueueItem
  <2>2. AnsweredOf(q, item.frame) = CallsOf(rows, {"answered"})
    BY <1>1 DEF AnsweredOf
  <2> HIDE DEF rows
  <2> QED BY <2>1, <2>2, SumOfCounts
<1>2. CASE q.kind = "agent"
  <2>1. item.answered = IF AgentRows(q, item.frame) = {} THEN 0
                        ELSE Cardinality(WithStatus(CallsIn(q, item.frame), "answered"))
    BY <1>2 DEF Right, AgentItem
  <2>2. AnsweredOf(q, item.frame) = IF AgentRows(q, item.frame) = {} THEN {}
                                    ELSE WithStatus(CallsIn(q, item.frame), "answered")
    BY <1>2 DEF AnsweredOf
  <2> QED BY <2>1, <2>2, AnsweredCalls, FS_EmptySet
<1> QED BY <1>1, <1>2

(* Each call said to be answered has a time that tells: its own, or that   *)
(* of its hour.                                                            *)
Telling(q, c) == IF q.kind = "queue" THEN 2 * (c.time \div 2) ELSE c.time

LEMMA TellingTime ==
    ASSUME Filled, NEW q, NEW frame, NEW c \in AnsweredOf(q, frame)
    PROVE  /\ c \in calls /\ Telling(q, c) \in Nat /\ Within(frame, Telling(q, c))
           /\ \A g : Within(g, Telling(q, c)) /\ (q.kind = "queue" \/ AgentRows(q, g) # {})
                         => c \in AnsweredOf(q, g)
<1> DEFINE rows(g) == RowsIn({r \in queueHours : r[2] = q.queue}, q, g)
<1>1. CASE q.kind = "queue"
  <2>1. /\ c \in calls /\ c.status \in {"answered"}
        /\ RowOf(c) \in queueHours /\ RowOf(c)[2] = q.queue
        /\ InFrame(q, frame, 2 * RowOf(c)[1])
    BY <1>1 DEF AnsweredOf, CallsOf, RowsIn
  <2>2. RowOf(c)[1] = c.time \div 2 /\ Telling(q, c) = 2 * RowOf(c)[1]
    BY <1>1 DEF RowOf, Telling
  <2>3. c.time \in Nat
    BY <2>1, StatAssumption DEF Filled
  <2>4. ASSUME NEW g, Within(g, Telling(q, c)) PROVE c \in AnsweredOf(q, g)
    <3>1. InFrame(q, g, 2 * RowOf(c)[1])
      BY <2>1, <2>2, <2>4 DEF InFrame, Within
    <3>2. RowOf(c) \in rows(g)
      BY <2>1, <3>1 DEF RowsIn
    <3> QED BY <1>1, <2>1, <3>2 DEF AnsweredOf, CallsOf
  <2>5. Within(frame, Telling(q, c))
    BY <2>1, <2>2 DEF InFrame, Within
  <2> QED BY <2>1, <2>2, <2>3, <2>4, <2>5
<1>2. CASE q.kind # "queue"
  <2>1. c \in calls /\ c.status = "answered" /\ InFrame(q, frame, c.time)
    BY <1>2 DEF AnsweredOf, WithStatus, CallsIn
  <2>2. Telling(q, c) = c.time /\ c.time \in Nat
    BY <1>2, <2>1, StatAssumption DEF Telling, Filled
  <2>3. ASSUME NEW g, Within(g, c.time), AgentRows(q, g) # {} PROVE c \in AnsweredOf(q, g)
    <3>1. InFrame(q, g, c.time)
      BY <2>1, <2>3 DEF InFrame, Within
    <3> QED BY <1>2, <2>1, <2>3, <3>1 DEF AnsweredOf, WithStatus, CallsIn
  <2>4. Within(frame, c.time)
    BY <2>1 DEF InFrame, Within
  <2> QED BY <1>2, <2>1, <2>2, <2>3, <2>4
<1> QED BY <1>1, <1>2

(* Part of a frame answers part of its calls.                              *)
LEMMA PartsAnswerLess ==
    ASSUME Filled, NEW q, NEW g, NEW h, \A x \in Nat : Within(g, x) => Within(h, x)
    PROVE  AnsweredOf(q, g) \subseteq AnsweredOf(q, h)
<1>1. \A r \in agentHours : 2 * r[1] \in Nat
  BY DEF Filled
<1>2. AgentRows(q, g) \subseteq AgentRows(q, h)
  <2> SUFFICES ASSUME NEW r \in AgentRows(q, g) PROVE r \in AgentRows(q, h)
    OBVIOUS
  <2>1. r \in agentHours /\ r[2] = NoQueue /\ InFrame(q, g, 2 * r[1])
    BY DEF AgentRows, RowsIn
  <2>2. InFrame(q, h, 2 * r[1])
    BY <1>1, <2>1 DEF InFrame, Within
  <2> QED BY <2>1, <2>2 DEF AgentRows, RowsIn
<1>3. ASSUME NEW c \in AnsweredOf(q, g) PROVE c \in AnsweredOf(q, h)
  <2>1. q.kind = "queue" \/ AgentRows(q, h) # {}
    BY <1>2, <1>3 DEF AnsweredOf
  <2> QED BY <1>3, <2>1, TellingTime
<1> QED BY <1>3

(* Frames that have no time in common have no answered call in common.     *)
LEMMA FramesApart ==
    ASSUME Filled, NEW q, NEW g, NEW h, \A x \in Nat : ~ (Within(g, x) /\ Within(h, x))
    PROVE  AnsweredOf(q, g) \cap AnsweredOf(q, h) = {}
BY TellingTime

LEMMA MultiplesGrow ==
    ASSUME NEW i \in Nat, NEW k \in Nat, NEW d \in Nat, i < k
    PROVE  i * d \in Nat /\ (k - 1) * d \in Nat /\ i * d <= (k - 1) * d
<1>1. ((k - 1) - i) * d >= 0
  OBVIOUS
<1>2. ((k - 1) - i) * d = (k - 1) * d - i * d
  OBVIOUS
<1> QED BY <1>1, <1>2

LEMMA PiecesNest ==
    ASSUME NEW t \in Nat, NEW until \in Nat, NEW d \in Nat, t + d <= until,
           NEW F, NEW p, InPieces(F, t, d, until, p), NEW x \in Nat
    PROVE  /\ \A k \in 1..(Len(F) - 1) : Within(F[k], x) => Within(F[Len(F)], x)
           /\ \A i, k \in 1..(Len(F) - 1) : Within(F[i], x) /\ Within(F[k], x) => i = k
<1> DEFINE n == Len(F) - 1
<1>1. ASSUME NEW k \in 1..n, Within(F[k], x)
      PROVE  /\ p[k] \in Nat \ {0} /\ t + (p[k] - 1) * d <= x
             /\ x < t + p[k] * d /\ x < until
  <2>1. p[k] \in Nat \ {0} /\ Piece(F[k], t, d, until, p[k])
    BY DEF InPieces
  <2> DEFINE a == (p[k] - 1) * d
             b == p[k] * d
  <2>2. a \in Nat /\ b \in Nat
    BY <2>1
  <2>3. /\ F[k].from = {t + a} /\ F[k].until \in Nat
        /\ F[k].until <= t + b /\ F[k].until <= until
    BY <2>1 DEF Piece
  <2> HIDE DEF a, b
  <2>4. t + a <= x /\ x < F[k].until
    BY <1>1, <2>2, <2>3 DEF Within
  <2>5. x < t + b /\ x < until
    BY <2>2, <2>3, <2>4
  <2> QED BY <2>1, <2>4, <2>5 DEF a, b
<1>2. ASSUME NEW k \in 1..n, Within(F[k], x) PROVE Within(F[Len(F)], x)
  <2>1. F[Len(F)].from = {t} /\ F[Len(F)].until = until
    BY DEF InPieces
  <2> DEFINE a == (p[k] - 1) * d
  <2>2. t + a <= x /\ x < until /\ p[k] \in Nat \ {0}
    BY <1>1, <1>2
  <2>3. a \in Nat
    BY <2>2
  <2> HIDE DEF a
  <2> QED BY <2>1, <2>2, <2>3 DEF Within
<1>3. ASSUME NEW i \in 1..n, NEW k \in 1..n, Within(F[i], x), Within(F[k], x), p[i] < p[k]
      PROVE  FALSE
  <2> DEFINE a == (p[k] - 1) * d
             b == p[i] * d
  <2>1. p[i] \in Nat /\ p[k] \in Nat /\ x < t + b /\ t + a <= x
    BY <1>1, <1>3
  <2>2. a \in Nat /\ b \in Nat /\ b <= a
    BY <1>3, <2>1, MultiplesGrow
  <2> HIDE DEF a, b
  <2> QED BY <2>1, <2>2
<1>4. ASSUME NEW i \in 1..n, NEW k \in 1..n, Within(F[i], x), Within(F[k], x)
      PROVE  i = k
  <2>1. p[i] \in Nat /\ p[k] \in Nat /\ ~ (p[i] < p[k]) /\ ~ (p[k] < p[i])
    BY <1>1, <1>3, <1>4
  <2>2. p[i] = p[k]
    BY <2>1
  <2> QED BY <2>2 DEF InPieces
<1> QED BY <1>2, <1>4

LEMMA TilesCover ==
    ASSUME NEW t \in Nat, NEW until \in Nat, NEW F, Tiles(F, t, until), Len(F) \in Nat,
           \A k \in 1..(Len(F) - 1) : FrameFits(F[k]),
           NEW x \in Nat, t <= x, x < until
    PROVE  \E k \in 1..(Len(F) - 1) : Within(F[k], x)
<1>1. PICK n \in Nat : n = Len(F) - 1 /\ n >= 1
  <2>1. PICK m \in Nat : m = Len(F)
    OBVIOUS
  <2>2. m > 1
    BY <2>1 DEF Tiles
  <2>3. m - 1 \in Nat /\ m - 1 >= 1
    BY <2>2
  <2> QED BY <2>1, <2>3
<1> DEFINE S == {k \in 1..n : x < F[k].until}
<1>2. n \in S /\ S \subseteq Nat
  BY <1>1 DEF Tiles
<1> HIDE DEF S
<1>3. PICK k \in S : \A j \in S : k <= j
  BY <1>2, NatHasMinimum
<1>4. k \in 1..n /\ x < F[k].until
  BY <1>3 DEF S
<1>5. CASE k = 1
  <2>1. F[1].from = {t}
    BY DEF Tiles
  <2> QED BY <1>1, <1>4, <1>5, <2>1 DEF Within
<1>6. CASE k # 1
  <2> DEFINE j == k - 1
  <2>1. j \in 1..n /\ j < k /\ j + 1 = k
    BY <1>1, <1>4, <1>6
  <2>2. j \in 1..(Len(F) - 2)
    <3>1. PICK m \in Nat : m = Len(F)
      OBVIOUS
    <3> QED BY <1>1, <1>4, <2>1, <3>1
  <2> HIDE DEF j
  <2>3. j \notin S
    BY <1>3, <1>4, <2>1
  <2>4. ~ (x < F[j].until) /\ F[j].until \in Nat
    BY <1>1, <2>1, <2>3 DEF S, FrameFits
  <2>5. F[k].from = {F[j].until}
    BY <2>1, <2>2 DEF Tiles
  <2> QED BY <1>1, <1>4, <2>4, <2>5 DEF Within
<1> QED BY <1>5, <1>6

(* The intervals never answer more than their period, and those of a queue *)
(* answer as much when every hour of the week is asked for, for any period *)
(* at least as long as one interval, any calls and any lengths of days and *)
(* months: no call is in two intervals (_generate_subinterval), and none   *)
(* between them.                                                           *)
THEOREM IntervalsKeepAccounting == StatSpec => []IntervalsAccountForTotal
<1>1. StatInv /\ AnswersInv => IntervalsAccountForTotal
  <2> DEFINE N == Len(request.items)
             q == request.asked
             F == Frames(q, request.from, request.until)
             sum == Total([k \in 1..(N - 1) |-> request.items[k].answered])
  <2> SUFFICES ASSUME StatInv, AnswersInv, Done, request.kind \in {"queue", "agent"}, ~ batched,
                      Asked.interval # "none", LongEnough
               PROVE  /\ sum <= request.items[N].answered
                      /\ request.kind = "queue" /\ Unrestricted => sum = request.items[N].answered
    BY DEF IntervalsAccountForTotal
  <2>1. /\ RequestFits(request) /\ FramesFit(request) /\ Filled
        /\ request.todo = <<>> /\ q.kind = request.kind /\ q = Asked
    BY DEF StatInv, RequestFits, Asked, Done
  <2>2. q.interval \in {"hour", "day", "month"}
    BY <2>1, StatAssumption DEF RequestFits
  <2>3. PICK t \in Nat : request.from = {t}
    BY <2>1 DEF FramesFit, AtMostOne, LongEnough
  <2>4. t + Length(q.interval) <= request.until /\ request.until \in Nat
    <3>1. Max(request.from) = t
      BY <2>3 DEF Max
    <3> QED BY <2>1, <3>1 DEF LongEnough, FramesFit
  <2>5. F = Frames(q, {t}, request.until)
    BY <2>3
  <2>6. F \in Seq(Range(F)) /\ Len(F) \in Nat \ {0}
    BY <2>1, <2>2, FramesShape DEF FramesFit
  <2>7. MakeUp(request.items, request.todo, F)
    BY <2>1 DEF FramesFit
  <2> HIDE DEF F
  <2>8. PICK n \in Nat : N = n + 1 /\ Len(F) = n + 1
    <3>1. PICK m \in Nat : m = Len(F)
      BY <2>6
    <3>2. m # 0 /\ Len(request.items) \in Nat /\ Len(request.todo) = 0
      BY <2>1, <2>6, <3>1, EmptySeq, LenProperties DEF RequestFits
    <3>3. N = m
      BY <2>7, <3>1, <3>2 DEF MakeUp
    <3>4. m - 1 \in Nat /\ m = (m - 1) + 1
      BY <3>1, <3>2
    <3> QED BY <3>1, <3>3, <3>4
  <2>9. PICK p : InPieces(F, t, Length(q.interval), request.until, p)
    BY <2>2, <2>4, <2>5, FramesArePieces
  <2>10. \A k \in 1..(n + 1) : /\ request.items[k] \in Range(request.items)
                               /\ request.items[k].frame = F[k]
    <3>1. DOMAIN request.items = 1..(n + 1)
      BY <2>1, <2>8, LenProperties DEF RequestFits
    <3> QED BY <2>7, <2>8, <3>1 DEF MakeUp, Range
  <2>11. \A k \in 1..(n + 1) : /\ request.items[k].answered = Cardinality(AnsweredOf(q, F[k]))
                               /\ IsFiniteSet(AnsweredOf(q, F[k]))
    <3>1. \A k \in 1..(n + 1) : Right(q, request.items[k])
      BY <2>1, <2>10, DoneIsRight
    <3> QED BY <2>1, <2>10, <3>1, AnsweredIsCounted
  <2>12. /\ Len(F) - 1 = n /\ n + 1 \in 1..(n + 1) /\ N - 1 = n
         /\ \A k \in 1..n : k \in 1..(n + 1)
    BY <2>8
  <2> DEFINE A == AnsweredOf(q, F[n + 1])
             Q == 1..n
             part == [k \in Q |-> AnsweredOf(q, F[k])]
             f == [k \in Q |-> request.items[k].answered]
  <2>13. /\ \A x \in Nat, k \in Q : Within(F[k], x) => Within(F[n + 1], x)
         /\ \A x \in Nat, i, k \in Q : Within(F[i], x) /\ Within(F[k], x) => i = k
    <3> DEFINE d == Length(q.interval)
    <3>1. d \in Nat /\ t + d <= request.until /\ InPieces(F, t, d, request.until, p)
      BY <2>2, <2>4, <2>9, LengthIsPositive
    <3> HIDE DEF d, q
    <3>2. ASSUME NEW x \in Nat
          PROVE  /\ \A k \in 1..(Len(F) - 1) : Within(F[k], x) => Within(F[Len(F)], x)
                 /\ \A i, k \in 1..(Len(F) - 1) : Within(F[i], x) /\ Within(F[k], x) => i = k
      BY <2>4, <3>1, PiecesNest
    <3>3. Len(F) - 1 = n /\ Len(F) = n + 1
      BY <2>8, <2>12
    <3> QED BY <3>2, <3>3
  <2>14. \A k \in Q : part[k] \subseteq A
    BY <2>1, <2>13, PartsAnswerLess
  <2>15. \A i, k \in Q : i # k => part[i] \cap part[k] = {}
    BY <2>1, <2>13, FramesApart
  <2>16. DOMAIN f = Q /\ \A k \in Q : f[k] = Cardinality(part[k])
    BY <2>11, <2>12
  <2>17. sum = Total(f) /\ request.items[N].answered = Cardinality(A) /\ IsFiniteSet(A)
    BY <2>8, <2>11, <2>12
  <2>18. ASSUME request.kind = "queue", Unrestricted, NEW c \in A
         PROVE  \E k \in Q : c \in part[k]
    <3>1. PICK x \in Nat : /\ Within(F[n + 1], x)
                           /\ \A g : Within(g, x) => c \in AnsweredOf(q, g)
      BY <2>1, <2>18, TellingTime
    <3>2. t <= x /\ x < request.until
      BY <2>8, <2>9, <3>1 DEF InPieces, Within
    <3>3. Tiles(F, t, request.until)
      BY <2>1, <2>2, <2>4, <2>5, <2>18, FramesTile DEF Whole, Unrestricted
    <3>4. \A k \in 1..(Len(F) - 1) : FrameFits(F[k])
      BY <2>9 DEF InPieces
    <3>5. PICK k \in 1..(Len(F) - 1) : Within(F[k], x)
      BY <2>4, <2>6, <3>2, <3>3, <3>4, TilesCover
    <3> QED BY <2>12, <3>1, <3>5
  <2> HIDE DEF A, Q, part, f, q, sum, N
  <2>19. /\ Total(f) <= Cardinality(A)
         /\ Covered(A, Q, part) => Total(f) = Cardinality(A)
    <3>1. \A k \in Q : part[k] \subseteq A /\ f[k] = Cardinality(part[k])
      BY <2>14, <2>16
    <3>2. DOMAIN f = Q /\ IsFiniteSet(A)
      BY <2>16, <2>17
    <3> QED BY <2>15, <3>1, <3>2, PartsAddUp
  <2> QED BY <2>17, <2>18, <2>19 DEF Covered
<1> QED BY <1>1, StatInvariant, AnswersInvariant, PTL
=============================================================================
