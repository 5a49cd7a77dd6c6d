------------------------------ MODULE CdrSearch ------------------------------
(***************************************************************************)
(* Listing call logs over HTTP.  A listing is two transactions, one that   *)
(* counts and one that fetches a page, and the next page is another        *)
(* request; call logs are stored and deleted meanwhile.  The status and    *)
(* the destination of a call log are computed twice: by the serialiser in  *)
(* Python, and by the filters in SQL, where a column may be NULL.          *)
(***************************************************************************)
EXTENDS Integers, FiniteSets, Sequences, SequencesExt, FiniteSetsExt

CONSTANTS
    Row,        \* the call logs that may be stored
    Query,      \* the searches a client may make
    MaxId       \* bound on the call logs stored

Null == "null"      \* SQL NULL; Booleans that may be NULL are "yes" and "no"
NoDate == -1        \* SQL NULL, for a date
NotGiven == "any"   \* no call_status; other parameters not given are empty sets

Least(a, b) == IF a < b THEN a ELSE b

QueryField == {"tenants", "me", "users", "from", "until", "direction", "fileOf", "fromId",
               "recorded", "status", "distinct", "order", "descending", "limit", "offset"}

(* A search as the schema of the parameters lets it through.               *)
IsQuery(q) ==
    /\ DOMAIN q = QueryField
    /\ q.status \in {NotGiven, "default", "blocked", "answered", "voicemail", "unknown"}
    /\ q.order \in {"start", "answered", "duration", "call_status"}
    /\ q.descending \in BOOLEAN
    /\ q.limit \in Nat
    /\ q.offset \in Nat

(* A client begins with the first page.                                    *)
ASSUME SearchAssumption ==
    /\ MaxId \in Nat
    /\ \A r \in Row : /\ {r.date, r.answer, r.end} \subseteq Int
                      /\ {r.blocked, r.voicemail} \subseteq {"yes", "no", Null}
    /\ \A q \in Query : IsQuery(q) /\ q.offset = 0

VARIABLES
    logs,       \* rows of call_logd_call_log, by id
    lastId,     \* the sequence of ids
    search      \* the search of a client and what it was answered

searchVars == <<logs, lastId, search>>

NoSearch == [step |-> "none"]

-----------------------------------------------------------------------------
(* What the serialiser shows.                                              *)

CallStatus(r) ==
    IF r.blocked = "yes" THEN "blocked"
    ELSE IF r.answer # NoDate THEN "answered"
    ELSE IF r.voicemail = "yes" THEN "voicemail" ELSE "unknown"

WithRole(r, role) == {p \in r.parts : p.role = role}

(* The relationship of the model: the first by answered, then by user,     *)
(* both descending; users are numbered in the order of their uuids.        *)
DestinationParticipant(r) ==
    LET dest == WithRole(r, "destination")
        first == IF \E p \in dest : p.answered THEN {p \in dest : p.answered} ELSE dest
    IN  {p \in first : \A q \in first : q.user <= p.user}

(* The two ends of a call: who called, and the destination shown.          *)
ShownEnds(r) == WithRole(r, "source") \cup DestinationParticipant(r)

PeerExten(r, p) == IF p.role = "source" THEN r.requested ELSE r.exten

-----------------------------------------------------------------------------
(* The filters, in SQL.                                                    *)

(* Mutant: the comparison is with FALSE only, which NULL is not.           *)
BlockedIsFalse(r) == r.blocked = "no"

NotBlocked(r) == r.blocked \in {"no", Null}

HasStatus(r, s) ==
    \/ s = "blocked" /\ r.blocked = "yes"
    \/ s = "answered" /\ r.answer # NoDate /\ NotBlocked(r)
    \/ s = "voicemail" /\ r.voicemail = "yes" /\ r.answer = NoDate /\ NotBlocked(r)
    \/ s = "unknown" /\ r.voicemail \in {"no", Null} /\ r.answer = NoDate /\ NotBlocked(r)
    \/ s = "default" /\ NotBlocked(r)
    \/ s = NotGiven

HasParticipant(r, users) == \E p \in r.parts : p.user \in users

(* Mutant: the destination is ordered by user only.                        *)
LargestUserFirst(r) ==
    {p.user : p \in {p \in WithRole(r, "destination") :
                         \A q \in WithRole(r, "destination") : q.user <= p.user}}

(* The row that ORDER BY answered DESC, user_uuid DESC puts before another. *)
ComesBefore(p, q) ==
    \/ p.answered /\ ~q.answered
    \/ (p.answered <=> q.answered) /\ q.user <= p.user

(* The subquery of the filter, which cannot use the relationship and       *)
(* defines the destination anew: the user of the first row, if any.        *)
FirstDestinationUser(r) ==
    LET rows == {p \in r.parts : p.role = "destination"}
    IN  {p.user : p \in {p \in rows : \A q \in rows : ComesBefore(p, q)}}

(* terminal_user_uuids.                                                    *)
HasEnd(r, users) ==
    \/ \E p \in WithRole(r, "source") : p.user \in users
    \/ FirstDestinationUser(r) \cap users # {}

HasColumns(r, i, q) ==
    /\ \A d \in q.from : r.date >= d
    /\ \A d \in q.until : r.date < d
    /\ \A d \in q.direction : r.direction = d
    /\ \A n \in q.fileOf : i = n

Matches(r, i, q) ==
    /\ HasColumns(r, i, q)
    /\ \A n \in q.fromId : i >= n
    /\ q.users # {} => HasEnd(r, q.users)
    /\ \A b \in q.recorded : r.recorded = b
    /\ HasStatus(r, q.status)

(* What separates tenants, and the caller's own call logs from the others. *)
Visible(r, q) == r.tenant \in q.tenants /\ (q.me # {} => HasParticipant(r, q.me))

(* distinct=peer_exten: the last call log of each user with each peer, of  *)
(* all users and before any other filter.                                  *)
Talked(i) == {<<p.user, PeerExten(logs[i], p)>> : p \in logs[i].parts}

LastWithPeer ==
    {i \in DOMAIN logs :
        \E w \in Talked(i) : \A j \in DOMAIN logs : w \in Talked(j) => j <= i}

Listed(q) ==
    {i \in (IF q.distinct THEN LastWithPeer ELSE DOMAIN logs) :
        Visible(logs[i], q) /\ Matches(logs[i], i, q)}

(* get_by_id, which matches any participant.                               *)
Fetched(i, tenants, users) ==
    /\ i \in DOMAIN logs
    /\ logs[i].tenant \in tenants
    /\ users # {} => HasParticipant(logs[i], users)

-----------------------------------------------------------------------------
(* The rank of a call log in the order asked for; NULL, as -1, comes first *)
(* in ascending order and last in descending order.                        *)
OrderField(r, order) ==
    CASE order = "start" -> r.date
      [] order = "answered" -> IF r.answer = NoDate THEN -1 ELSE r.answer
      [] order = "duration" -> IF NoDate \in {r.answer, r.end} THEN -1 ELSE r.end - r.answer
      [] order = "call_status" -> IF HasStatus(r, "blocked") THEN 2
                                  ELSE IF HasStatus(r, "voicemail") THEN 3
                                  ELSE IF HasStatus(r, "answered") THEN 4 ELSE 1

(* The orders in which the database may return the rows: ties are its own. *)
Orderings(q) ==
    LET key(i) == OrderField(logs[i], q.order) IN
    {s \in SetToSeqs(Listed(q)) :
        \A i \in 1..(Len(s) - 1) :
            IF q.descending THEN key(s[i]) >= key(s[i + 1]) ELSE key(s[i]) <= key(s[i + 1])}

(* Mutant: the limit counts the rows that the offset skips.                *)
LimitCountsOffset(s, q) ==
    SubSeq(s, q.offset + 1, IF q.limit = 0 THEN Len(s) ELSE Least(Len(s), q.limit))

(* A limit of 0 is no limit.                                               *)
Page(s, q) ==
    SubSeq(s, q.offset + 1, IF q.limit = 0 THEN Len(s) ELSE Least(Len(s), q.offset + q.limit))
-----------------------------------------------------------------------------
SearchInit ==
    /\ logs = [i \in {} |-> {}]
    /\ lastId = 0
    /\ search = NoSearch

(* A change of the table: the listing in progress may count what it will   *)
(* not fetch, or the reverse.                                              *)
Disturbed == IF search = NoSearch THEN search ELSE [search EXCEPT !.disturbed = TRUE]

(* Mutant: the sequence follows the number of rows.                        *)
StoreReusingIds(r) ==
    /\ lastId < MaxId
    /\ lastId' = Cardinality(DOMAIN logs) + 1
    /\ logs' = [i \in DOMAIN logs \cup {lastId + 1} |-> IF i = lastId + 1 THEN r ELSE logs[i]]
    /\ search' = Disturbed

(* create_from_list.                                                       *)
StoreCallLog(r) ==
    /\ lastId < MaxId
    /\ lastId' = lastId + 1
    /\ logs' = [i \in DOMAIN logs \cup {lastId + 1} |-> IF i = lastId + 1 THEN r ELSE logs[i]]
    /\ search' = Disturbed

(* delete_from_list and the purge.                                         *)
DeleteCallLog(i) ==
    /\ logs' = [j \in DOMAIN logs \ {i} |-> logs[j]]
    /\ search' = Disturbed
    /\ UNCHANGED lastId

Search(q) ==
    /\ search = NoSearch
    /\ search' = [step |-> "count", query |-> q, disturbed |-> FALSE,
                   listed |-> {}, total |-> 0, filtered |-> 0, items |-> <<>>]
    /\ UNCHANGED <<logs, lastId>>

(* Mutant: the default status is set on a copy of the parameters.          *)
CountsWithDefault ==
    /\ search.step = "count"
    /\ LET q == IF search.query.status = NotGiven
                THEN [search.query EXCEPT !.status = "default"] ELSE search.query IN
           search' = [search EXCEPT
               !.step = "find",
               !.total = Cardinality({i \in DOMAIN logs : Visible(logs[i], q)}),
               !.filtered = Cardinality(Listed(q))]
    /\ UNCHANGED <<logs, lastId>>

(* count_in_period: without a status, blocked calls are left out, in the   *)
(* page too since the parameters themselves are changed; the total is of   *)
(* all that the client could see.                                          *)
CountInPeriod ==
    /\ search.step = "count"
    /\ LET q == IF search.query.status = NotGiven
                THEN [search.query EXCEPT !.status = "default"] ELSE search.query IN
           search' = [search EXCEPT
               !.step = "find", !.query = q,
               !.total = Cardinality({i \in DOMAIN logs : Visible(logs[i], q)}),
               !.filtered = Cardinality(Listed(q))]
    /\ UNCHANGED <<logs, lastId>>

FindAllInPeriod ==
    /\ search.step = "find"
    /\ \E s \in Orderings(search.query) :
           search' = [search EXCEPT
               !.step = "answered",
               !.items = [k \in DOMAIN Page(s, search.query) |->
                             LET i == Page(s, search.query)[k] IN [id |-> i, row |-> logs[i]]]]
    /\ UNCHANGED <<logs, lastId>>

Ids == {search.items[k].id : k \in DOMAIN search.items}

(* The client asks for the following page, or is done.                     *)
NextPage ==
    /\ search.step = "answered"
    /\ LET q == search.query IN
        IF q.limit # 0 /\ q.offset + q.limit < search.filtered
        THEN search' = [search EXCEPT !.step = "count", !.items = <<>>,
                            !.query.offset = @ + q.limit, !.listed = @ \cup Ids]
        ELSE search' = NoSearch
    /\ UNCHANGED <<logs, lastId>>

SearchNext ==
    \/ \E r \in Row : StoreCallLog(r)
    \/ \E i \in DOMAIN logs : DeleteCallLog(i)
    \/ \E q \in Query : Search(q)
    \/ CountInPeriod
    \/ FindAllInPeriod
    \/ NextPage

-----------------------------------------------------------------------------
Answered == search.step = "answered"

Items == {search.items[k] : k \in DOMAIN search.items}

(* Searches hold the ids and rows that were once stored.                   *)
SearchTypeOK ==
    /\ DOMAIN logs \subseteq 1..lastId
    /\ \A i \in DOMAIN logs : logs[i] \in Row
    /\ Answered => \A x \in Items : x.id \in 1..lastId /\ x.row \in Row

(* The counts of an answer agree with its page: of an unchanged database,  *)
(* a page without limit holds as many items as were counted, and what is   *)
(* counted is among what the client can see.                               *)
CountsAgree ==
    Answered /\ ~search.disturbed =>
        /\ Len(search.items) <= search.filtered
        /\ search.filtered <= search.total
        /\ search.query.limit = 0 /\ search.query.offset = 0
               => Len(search.items) = search.filtered

(* A search by status, and the order by status, go by the status that the  *)
(* items show, for rows that hold NULL as well: nothing else is listed,    *)
(* and of an unchanged database nothing is missing.                        *)
StatusFilterAgrees ==
    Answered =>
        LET q == search.query
            status(k) == CallStatus(search.items[k].row)
            wanted(r) == IF q.status = "default" THEN CallStatus(r) # "blocked"
                         ELSE CallStatus(r) = q.status
        IN  /\ \A x \in Items : wanted(x.row)
            /\ q.order = "call_status" =>
                   \A j, k, l \in DOMAIN search.items :
                       j < k /\ k < l /\ status(j) = status(l) => status(k) = status(j)
            /\ ~search.disturbed /\ q.limit = 0 /\ ~q.distinct =>
                   \A i \in DOMAIN logs :
                       /\ wanted(logs[i]) /\ Visible(logs[i], q)
                       /\ Matches(logs[i], i, [q EXCEPT !.status = NotGiven])
                       => i \in Ids

(* A call log listed for some users shows one of them at an end, each of   *)
(* its users can then fetch it by its id while it is stored, and of an     *)
(* unchanged database no call log that shows one of them is missing: the   *)
(* subquery of the filter finds the destination that the relationship      *)
(* shows, whoever rang and whoever answered.                               *)
ListedCallLogShowsItsUser ==
    Answered /\ search.query.users # {} =>
        LET q == search.query
            shows(r) == \E p \in ShownEnds(r) : p.user \in q.users
        IN  /\ \A x \in Items :
                  /\ shows(x.row)
                  /\ \A p \in ShownEnds(x.row) :
                         x.id \in DOMAIN logs => Fetched(x.id, q.tenants, {p.user})
            /\ ~search.disturbed /\ q.limit = 0 /\ ~q.distinct =>
                   \A i \in DOMAIN logs :
                       /\ shows(logs[i]) /\ Visible(logs[i], q)
                       /\ Matches(logs[i], i, [q EXCEPT !.users = {}])
                       => i \in Ids

(* Of an unchanged database whose rows differ in the field they are        *)
(* ordered by, the pages never repeat a call log, and the last completes   *)
(* the list.                                                               *)
PagesMakeUpTheList ==
    Answered /\ ~search.disturbed =>
        LET q == search.query
            key(i) == OrderField(logs[i], q.order)
        IN  (\A i, j \in Listed(q) : i # j => key(i) # key(j)) =>
                /\ Ids \cap search.listed = {}
                /\ q.limit = 0 \/ q.offset + q.limit >= search.filtered
                       => Ids \cup search.listed = Listed(q)
=============================================================================
