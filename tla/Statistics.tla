------------------------------ MODULE Statistics ------------------------------
(***************************************************************************)
(* Statistics of an agent and of a queue.  A batch of another program,     *)
(* xivo-stat, fills the tables hour by hour: one row per call that entered *)
(* a queue, one row per hour of a queue, one row per hour of an agent and, *)
(* for each queue the agent was in, one more.  A request cuts its period   *)
(* into intervals and asks for each of them, then for the whole period;    *)
(* each question is a transaction of its own, and the batch may run        *)
(* between them.                                                           *)
(*                                                                         *)
(* Time is counted in half hours.  Time zones and the change to and from   *)
(* summer time are not modelled, and all months have the same length.      *)
(***************************************************************************)
EXTENDS Integers, FiniteSets, Sequences, SequencesExt, FiniteSetsExt, Functions

CONSTANTS
    Hours,          \* hours of a day
    Days,           \* days of a month
    LastHour,       \* the hours the batch may fill are 0..LastHour
    Call,           \* calls the batch may find, [time, queue, status, wait]
    Logins,         \* where the agent may be logged in during an hour
    Ask             \* what clients may ask

NoQueue == "none"
AtMostOne(S) == \A s, t \in S : s = t
AskField == {"kind", "queue", "from", "until", "interval", "window", "days",
             "threshold", "thresholds"}

(* A request may give the beginning and the end of its period, in whole    *)
(* half hours; the lists do not cut theirs.  Thresholds come sorted.       *)
ASSUME StatAssumption ==
    /\ Hours \in Nat \ {0} /\ Days \in Nat \ {0} /\ LastHour \in Nat
    /\ IsFiniteSet(Call)
    /\ \A c \in Call : c.time \in Nat /\ c.wait \in Nat /\ c.queue # NoQueue
    /\ \A q \in Ask :
        /\ DOMAIN q = AskField
        /\ q.thresholds \in Seq(Nat)
        /\ \A i, j \in DOMAIN q.thresholds : i <= j => q.thresholds[i] <= q.thresholds[j]
        /\ q.kind \in {"queue", "agent", "qos", "queues", "agents"}
        /\ q.interval \in {"none", "hour", "day", "month"}
        /\ q.kind \in {"queues", "agents"} => q.interval = "none"
        /\ q.from \subseteq Nat /\ AtMostOne(q.from)
        /\ q.until \subseteq Nat /\ AtMostOne(q.until)

VARIABLES
    filled,         \* the hours before this one are filled
    calls,          \* stat_call_on_queue; the agent took those answered
    queueHours,     \* stat_queue_periodic: <<hour, queue>> of the rows
    agentHours,     \* stat_agent_periodic: <<hour, queue>>, queue NoQueue for the total
    request,        \* what is asked and what was answered so far
    batched         \* whether the batch ran since the request began

statVars == <<filled, calls, queueHours, agentHours, request, batched>>

NoRequest == [kind |-> "none"]
Hour == 0..LastHour
Tomorrow == 2 * (LastHour + 1)

HourOfDay(t) == (t \div 2) % Hours
WeekDay(t) == ((t \div (2 * Hours)) % 7) + 1

Length(interval) ==
    CASE interval = "hour" -> 2
      [] interval = "day" -> 2 * Hours
      [] interval = "month" -> 2 * Hours * Days

Lower(a, b) == IF a < b THEN a ELSE b

-----------------------------------------------------------------------------
(* Intervals and buckets.                                                  *)

(* Mutant: the last interval is as long as the others.                     *)
WholeSubintervals(from, until, delta) ==
    [k \in 1..((until - from + delta - 1) \div delta) |->
        [from |-> from + (k - 1) * delta, until |-> from + k * delta]]

(* _generate_subinterval: the end is brought back to that of the period,   *)
(* but for the first interval.                                             *)
Subintervals(from, until, delta) ==
    [k \in 1..((until - from + delta - 1) \div delta) |->
        [from |-> from + (k - 1) * delta,
         until |-> IF k = 1 THEN from + delta ELSE Lower(from + k * delta, until)]]

(* Hours outside the hours of the day asked for are skipped, and so are    *)
(* hours and days that begin on another day of the week.                   *)
Kept(q, frame) ==
    LET within(t) == \A w \in q.window : HourOfDay(t) \in w.first..w.last
    IN  /\ q.interval = "hour" => within(frame.from) /\ within(frame.until)
        /\ q.interval \in {"hour", "day"} => WeekDay(frame.from) \in q.days

(* The k-th of a set of numbers, in ascending order.                       *)
Kth(S, k) == CHOOSE i \in S : Cardinality({j \in S : j <= i}) = k

(* The intervals of a request, if any, then its whole period.              *)
Frames(q, from, until) ==
    LET all == IF q.interval = "none" \/ from = {} THEN <<>>
               ELSE Subintervals(Max(from), until, Length(q.interval))
        kept == {k \in DOMAIN all : Kept(q, all[k])}
        interval(k) == [from |-> {all[k].from}, until |-> all[k].until]
    IN  [k \in 1..Cardinality(kept) |-> interval(Kth(kept, k))]
            \o <<[from |-> from, until |-> until]>>

(* More than a month of hours is refused.                                  *)
TooLarge(q, from, until) ==
    q.interval = "hour" /\ \E f \in from : f + Length("month") < until

(* Mutant: nothing beyond the last threshold.                              *)
BoundedBuckets(thresholds) ==
    [k \in DOMAIN thresholds |->
        [min |-> IF k = 1 THEN 0 ELSE thresholds[k - 1], max |-> {thresholds[k]}]]

(* _generate_qos_interval: from each threshold to the next, from 0 and     *)
(* without end.                                                            *)
Buckets(thresholds) ==
    [k \in 1..(Len(thresholds) + 1) |->
        [min |-> IF k = 1 THEN 0 ELSE thresholds[k - 1],
         max |-> IF k <= Len(thresholds) THEN {thresholds[k]} ELSE {}]]

-----------------------------------------------------------------------------
(* Queries.                                                                *)

(* Mutant: the end of the frame belongs to it.                             *)
InFrameOrItsEnd(q, frame, t) ==
    /\ \A f \in frame.from : t >= f
    /\ t <= frame.until
    /\ \A w \in q.window : HourOfDay(t) \in w.first..w.last
    /\ WeekDay(t) \in q.days

(* _add_interval_query; the beginning may be missing.                      *)
InFrame(q, frame, t) ==
    /\ \A f \in frame.from : t >= f
    /\ t < frame.until
    /\ \A w \in q.window : HourOfDay(t) \in w.first..w.last
    /\ WeekDay(t) \in q.days

CallsIn(q, frame) == {c \in calls : InFrame(q, frame, c.time)}

WithStatus(S, status) == {c \in S : c.status = status}

RowsIn(rows, q, frame) == {r \in rows : InFrame(q, frame, 2 * r[1])}

(* The sum of numbers, each counted out: how many places they take up.     *)
Total(f) == Cardinality(UNION {{x} \X (1..f[x]) : x \in DOMAIN f})

(* What stat_queue_periodic counts in an hour, summed over rows.           *)
SumOf(rows, statuses) ==
    Total([r \in rows |-> Cardinality({c \in calls : /\ c.status \in statuses
                                                     /\ <<c.time \div 2, c.queue>> = r})])

(* Calls that are said to have waited: a full or a closed queue turns away. *)
Waited == {"answered", "abandoned", "leaveempty", "timeout"}

(* _get_extra_stats: what is counted from the calls themselves, to be put  *)
(* in proportion to what is counted from the rows of hours; without a      *)
(* threshold no call is in time.                                           *)
ExtraStats(q, frame, rows) ==
    LET mine == {c \in CallsIn(q, frame) : c.queue = q.queue}
    IN  [onTime |-> Cardinality({c \in WithStatus(mine, "answered") :
                                    \E w \in q.threshold : c.wait <= w}),
         waits |-> Total([c \in mine |-> c.wait]),
         waited |-> SumOf(rows, Waited)]

(* get_interval_by_queue: nothing at all where the queue has no row.       *)
QueueItem(q, frame) ==
    LET rows == RowsIn({r \in queueHours : r[2] = q.queue}, q, frame)
    IN  [frame |-> frame, answered |-> SumOf(rows, {"answered"}),
         extra |-> IF rows = {} THEN [onTime |-> 0, waits |-> 0, waited |-> 0]
                   ELSE ExtraStats(q, frame, rows)]

(* get_interval: every queue that has a row.                               *)
QueueItems(q, frame) ==
    [x \in {r[2] : r \in RowsIn(queueHours, q, frame)} |-> QueueItem([q EXCEPT !.queue = x], frame)]

(* Mutant: the rows of the queues count as well.                           *)
AgentRowsOfAll(q, frame) == RowsIn(agentHours, q, frame)

AgentRows(q, frame) == RowsIn({r \in agentHours : r[2] = NoQueue}, q, frame)

(* get_interval_by_agent: nothing is answered where the agent has no row.  *)
AgentItem(q, frame) ==
    [frame |-> frame,
     login |-> Cardinality(AgentRows(q, frame)),
     answered |-> IF AgentRows(q, frame) = {} THEN 0
                  ELSE Cardinality(WithStatus(CallsIn(q, frame), "answered"))]

(* Mutant: only the queues that have a row of the agent.                   *)
QueuesWithRows(q, frame) ==
    {r[2] : r \in RowsIn(agentHours, q, frame)} \ {NoQueue}

(* get_per_queue_intervals_for_agent: the queues the agent was logged in,  *)
(* and those it answered for without a row.                                *)
QueuesOfAgent(q, frame) ==
    ({r[2] : r \in RowsIn(agentHours, q, frame)}
        \cup {c.queue : c \in WithStatus(CallsIn(q, frame), "answered")}) \ {NoQueue}

AgentQueues(q, frame) ==
    [x \in QueuesOfAgent(q, frame) |->
        Cardinality({c \in WithStatus(CallsIn(q, frame), "answered") : c.queue = x})]

(* get_qos_interval_by_queue.                                              *)
InBucket(q, frame, bucket) ==
    LET among(S) == Cardinality({c \in S : /\ c.queue = q.queue
                                           /\ c.wait >= bucket.min
                                           /\ \A m \in bucket.max : c.wait < m})
    IN  [answered |-> among(WithStatus(CallsIn(q, frame), "answered")),
         abandoned |-> among(WithStatus(CallsIn(q, frame), "abandoned"))]

-----------------------------------------------------------------------------
StatInit ==
    /\ filled = 0
    /\ calls = {} /\ queueHours = {} /\ agentHours = {}
    /\ request = NoRequest
    /\ batched = FALSE

(* xivo-stat fills the next hour: an agent who answered was logged in, in  *)
(* the queue of the call or not any more.                                  *)
FillHour(found, logins) ==
    /\ filled \in Hour
    /\ \A c \in found : c.time \div 2 = filled
    /\ WithStatus(found, "answered") # {} \/ logins # {} => NoQueue \in logins
    /\ filled' = filled + 1
    /\ calls' = calls \cup found
    /\ queueHours' = queueHours \cup {<<filled, c.queue>> : c \in found}
    /\ agentHours' = agentHours \cup {<<filled, x>> : x \in logins}
    /\ batched' = (request # NoRequest)
    /\ UNCHANGED request

(* find_oldest_time.                                                       *)
OldestTime(q) ==
    LET rows == IF q.kind = "agent" THEN agentHours
                ELSE {r \in queueHours : r[2] = q.queue}
    IN  IF rows = {} THEN {} ELSE {2 * Min({r[1] : r \in rows})}

(* get and get_qos: what is not given is replaced.                         *)
Begin(q) ==
    /\ request = NoRequest
    /\ LET from == IF q.from = {} THEN OldestTime(q) ELSE q.from
           until == IF q.until = {} THEN Tomorrow ELSE Max(q.until)
       IN  /\ ~TooLarge(q, from, until)
           /\ request' = [kind |-> q.kind, asked |-> q, from |-> from, until |-> until,
                          todo |-> Frames(q, from, until), items |-> <<>>, item |-> <<>>]
    /\ batched' = FALSE
    /\ UNCHANGED <<filled, calls, queueHours, agentHours>>

(* list: the period is taken as given, and not cut.                        *)
BeginList(q) ==
    /\ request = NoRequest
    /\ request' = [kind |-> q.kind, asked |-> q, from |-> q.from, until |-> Tomorrow,
                   todo |-> <<[from |-> q.from,
                               until |-> IF q.until = {} THEN Tomorrow ELSE Max(q.until)]>>,
                   items |-> <<>>, item |-> <<>>]
    /\ batched' = FALSE
    /\ UNCHANGED <<filled, calls, queueHours, agentHours>>

Asked == request.asked
Frame == Head(request.todo)
Answering(kind) == request.kind = kind /\ request.todo # <<>>

Answer(item) ==
    /\ request' = [request EXCEPT !.items = Append(@, item), !.item = <<>>, !.todo = Tail(@)]
    /\ UNCHANGED <<filled, calls, queueHours, agentHours, batched>>

AnswerQueue == Answering("queue") /\ Answer(QueueItem(Asked, Frame))

(* The list of queues asks for all of them in one transaction.             *)
AnswerQueues ==
    Answering("queues") /\ Answer([frame |-> Frame, of |-> QueueItems(Asked, Frame)])

(* The two transactions of an agent's interval, or of an agent in the list. *)
AnswerAgent ==
    /\ Answering("agent") \/ Answering("agents")
    /\ request.item = <<>>
    /\ request' = [request EXCEPT !.item = <<AgentItem(Asked, Frame)>>]
    /\ UNCHANGED <<filled, calls, queueHours, agentHours, batched>>

AnswerAgentQueues ==
    /\ Answering("agent") \/ Answering("agents")
    /\ request.item # <<>>
    /\ Answer([frame |-> Frame, login |-> request.item[1].login,
               answered |-> request.item[1].answered, queues |-> AgentQueues(Asked, Frame)])

(* One transaction for each bucket.                                        *)
AnswerBucket ==
    /\ Answering("qos")
    /\ LET buckets == Buckets(Asked.thresholds)
           now == Append(request.item, InBucket(Asked, Frame, buckets[Len(request.item) + 1]))
       IN  IF Len(now) = Len(buckets)
           THEN Answer([frame |-> Frame, buckets |-> now])
           ELSE /\ request' = [request EXCEPT !.item = now]
                /\ UNCHANGED <<filled, calls, queueHours, agentHours, batched>>

Done == request # NoRequest /\ request.todo = <<>>

Respond ==
    /\ Done
    /\ request' = NoRequest
    /\ UNCHANGED <<filled, calls, queueHours, agentHours, batched>>

StatNext ==
    \/ \E found \in SUBSET Call, logins \in Logins :
           FillHour(found, logins)
    \/ \E q \in Ask : IF q.kind \in {"queues", "agents"} THEN BeginList(q) ELSE Begin(q)
    \/ AnswerQueue
    \/ AnswerQueues
    \/ AnswerAgent
    \/ AnswerAgentQueues
    \/ AnswerBucket
    \/ Respond

-----------------------------------------------------------------------------
(* The frames of the request, in order, the whole period last.             *)
AllFrames == [k \in DOMAIN request.items |-> request.items[k].frame] \o request.todo
Cut == SubSeq(AllFrames, 1, Len(AllFrames) - 1)

OfWholeHours(frame) == \A t \in frame.from \cup {frame.until} : t % 2 = 0

(* Every hour of the week is asked for.                                    *)
Unrestricted == Asked.window = {} /\ Asked.days = 1..7

(* The period is at least as long as one interval.                         *)
LongEnough == request.from # {} /\ Max(request.from) + Length(Asked.interval) <= request.until

(* The tables hold the hours filled so far, and the time an agent was      *)
(* logged in during an hour is counted once, whatever its queues.          *)
StatTypeOK ==
    /\ \A c \in calls : c \in Call /\ c.time < 2 * filled
    /\ \A r \in queueHours \cup agentHours : r[1] \in 0..(filled - 1)
    /\ request.kind \in {"agent", "agents"} =>
           \A item \in Range(request.items) : item.login <= filled

(* The intervals of a period make it up: the first begins with it, each of *)
(* the others where the one before ends, and the last ends with it.        *)
IntervalsTilePeriod ==
    request # NoRequest /\ Asked.interval # "none" /\ Unrestricted /\ LongEnough =>
        /\ Cut # <<>> /\ Head(Cut).from = request.from /\ Last(Cut).until = request.until
        /\ \A k \in 1..(Len(Cut) - 1) : Cut[k + 1].from = {Cut[k].until}

(* As the unit test test_that_intervals_stays_within_limits says of them,  *)
(* no interval ends after its period.                                      *)
IntervalsStayWithinLimits ==
    request # NoRequest => \A frame \in Range(Cut) : frame.until <= request.until

(* The intervals never count more answered calls than the period they cut, *)
(* and those of a queue count all of them when every hour was asked for,   *)
(* unless the batch ran in between.                                        *)
IntervalsAccountForTotal ==
    Done /\ request.kind \in {"queue", "agent"} /\ ~batched /\ Asked.interval # "none"
         /\ LongEnough =>
        LET n == Len(request.items)
            answered(k) == request.items[k].answered
            sum == Total([k \in 1..(n - 1) |-> answered(k)])
        IN  /\ sum <= answered(n)
            /\ request.kind = "queue" /\ Unrestricted => sum = answered(n)

(* Unless the batch ran in between, each call of a queue is in one bucket, *)
(* and when it is asked for whole hours, a queue answers no more calls in  *)
(* time than it answers, and its average wait is that of as many calls as  *)
(* waited.                                                                 *)
QualityAccountsForEveryCall ==
    Done /\ ~batched =>
        \A item \in Range(request.items) :
            LET among(x) == {c \in CallsIn(Asked, item.frame) : c.queue = x}
                sound(x, stats) ==
                    /\ stats.extra.onTime <= stats.answered
                    /\ stats.extra.waited = Cardinality({c \in among(x) : c.status \in Waited})
            IN  /\ request.kind = "qos" =>
                       Total([k \in DOMAIN item.buckets |-> item.buckets[k].answered])
                           = Cardinality(WithStatus(among(Asked.queue), "answered"))
                /\ request.kind = "queue" /\ OfWholeHours(item.frame) =>
                       sound(Asked.queue, item)
                /\ request.kind = "queues" /\ OfWholeHours(item.frame) =>
                       \A x \in DOMAIN item.of : sound(x, item.of[x])

(* What an agent answered in an interval is the sum of what it answered in *)
(* each of its queues, where it has a row and unless the batch ran.        *)
BreakdownAddsUp ==
    Done /\ request.kind \in {"agent", "agents"} /\ ~batched =>
        \A item \in Range(request.items) :
            item.login > 0 => Total(item.queues) = item.answered
=============================================================================
