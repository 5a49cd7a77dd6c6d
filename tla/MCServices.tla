----------------------------- MODULE MCServices -----------------------------
(***************************************************************************)
(* Small worlds for the services that only share the database server: the  *)
(* search of call logs, the statistics, and the transcriptions with the    *)
(* settings of tenants.  No two of the three touch the same table, so a    *)
(* behaviour leaves the initial state of one of them only, and the run     *)
(* explores the sum of their state spaces.                                 *)
(***************************************************************************)
EXTENDS CdrSearch, Statistics, VoicemailTranscription

-----------------------------------------------------------------------------
(* Search: users are numbered, 3 is in another tenant; calls between two   *)
(* users, answered or not, ring groups, columns that are NULL.             *)
User(u, role, answered) == [user |-> u, role |-> role, answered |-> answered]
AliceCallsBob == [
    date |-> 1, answer |-> -1, end |-> 3, blocked |-> "no", voicemail |-> "no",
    tenant |-> "t1", direction |-> "internal", recorded |-> FALSE,
    exten |-> "101", requested |-> "102",
    parts |-> {User(1, "source", TRUE), User(2, "destination", FALSE)}]
CallLogs == {
    [AliceCallsBob EXCEPT !.answer = 2, !.recorded = TRUE,
         !.parts = {User(1, "source", TRUE), User(2, "destination", TRUE)}],
    [AliceCallsBob EXCEPT !.answer = 2, !.exten = "100",
         !.parts = {User(1, "destination", TRUE), User(2, "destination", FALSE)}],
    [AliceCallsBob EXCEPT !.date = 2, !.blocked = "yes"],
    [AliceCallsBob EXCEPT !.date = 3, !.blocked = Null, !.voicemail = Null, !.exten = "100",
         !.parts = {User(1, "destination", FALSE), User(2, "destination", FALSE)}],
    [AliceCallsBob EXCEPT !.date = 2, !.voicemail = "yes", !.direction = "inbound", !.exten = "100",
         !.parts = {User(2, "destination", FALSE)}],
    [AliceCallsBob EXCEPT !.answer = 2, !.end = -1, !.tenant = "t2",
         !.parts = {User(3, "source", TRUE)}]}
All == [tenants |-> {"t1"}, me |-> {}, users |-> {}, from |-> {}, until |-> {},
        direction |-> {}, fileOf |-> {}, fromId |-> {}, recorded |-> {},
        status |-> NotGiven, distinct |-> FALSE,
        order |-> "start", descending |-> TRUE, limit |-> 0, offset |-> 0]
Searches == {
    [All EXCEPT !.limit = 1],
    [All EXCEPT !.tenants = {"t1", "t2"}, !.limit = 2, !.order = "answered", !.descending = FALSE],
    [All EXCEPT !.me = {1}, !.distinct = TRUE],
    [All EXCEPT !.users = {1}, !.order = "duration"],
    [All EXCEPT !.users = {2}, !.status = "answered"],
    [All EXCEPT !.status = "blocked"], [All EXCEPT !.status = "unknown"],
    [All EXCEPT !.status = "voicemail", !.direction = {"inbound"}],
    [All EXCEPT !.tenants = {"t1", "t2"}, !.order = "call_status"],
    [All EXCEPT !.from = {2}, !.until = {3}],
    [All EXCEPT !.fileOf = {2}, !.recorded = {FALSE}],
    [All EXCEPT !.fromId = {2}, !.order = "call_status", !.descending = FALSE]}

-----------------------------------------------------------------------------
(* Statistics: two days of two hours each, two queues, an agent who may    *)
(* answer for a queue it has left.                                         *)
Found(t, queue, status, wait) == [time |-> t, queue |-> queue, status |-> status, wait |-> wait]
Calls == {Found(0, "q1", "answered", 5), Found(1, "q1", "answered", 20),
          Found(3, "q2", "answered", 10), Found(4, "q1", "abandoned", 10),
          Found(5, "q1", "full", 0)}
LoggedIn == {{}, {NoQueue}, {NoQueue, "q1"}}
Whole == [kind |-> "queue", queue |-> "q1", from |-> {}, until |-> {}, interval |-> "none",
          window |-> {}, days |-> 1..7, threshold |-> {10}, thresholds |-> <<>>]
Morning == [first |-> 0, last |-> 1]
Asks == {
    Whole,
    [Whole EXCEPT !.interval = "hour", !.from = {0}, !.until = {7}],
    [Whole EXCEPT !.interval = "day", !.from = {1}],
    [Whole EXCEPT !.interval = "hour", !.window = {Morning}],
    [Whole EXCEPT !.interval = "month", !.days = {1}],
    [Whole EXCEPT !.interval = "hour", !.from = {2}, !.until = {3}],
    [Whole EXCEPT !.kind = "agent"],
    [Whole EXCEPT !.kind = "queues", !.from = {2}], [Whole EXCEPT !.kind = "agents", !.until = {5}],
    [Whole EXCEPT !.kind = "agent", !.interval = "hour", !.from = {1}, !.until = {6}],
    [Whole EXCEPT !.kind = "agent", !.interval = "day", !.days = 2..7, !.window = {Morning}],
    [Whole EXCEPT !.kind = "qos", !.interval = "day", !.from = {0}, !.thresholds = <<10>>],
    [Whole EXCEPT !.kind = "qos", !.from = {1}, !.thresholds = <<5, 20>>]}

-----------------------------------------------------------------------------
(* Transcriptions: Unset is -1.  While no event has been sent, two PUT     *)
(* requests may overlap and the configuration file may change; from then   *)
(* on, settings change one request at a time and to the same days.         *)
Keep(c, e, r) == [k \in Kind |-> IF k = "cdr" THEN c ELSE IF k = "export" THEN e ELSE r]
Factory == Keep(365, 2, 365)
Requests == {Keep(30, -1, 20), Keep(10, -1, -1)}
Files == {Keep(90, -1, -1), Keep(-1,-1,-1)}
Plain == Keep(30, -1, 20)
PlainSettings ==
    /\ config = Factory /\ overtaken = {}
    /\ \A t \in Tenant : promised[t] \in {{}, {Plain}}
    /\ \A t \in DOMAIN retention : retention[t] \in {Plain, Keep(-1, -1, -1)}
    /\ \A p \in Put : puts[p] = NoPut \/ (p = "p1" /\ puts[p].want = Plain)

-----------------------------------------------------------------------------
ServicesInit == SearchInit /\ StatInit /\ TranscriptInit

ServicesNext ==
    \/ /\ StatInit /\ TranscriptInit
       /\ SearchNext
       /\ UNCHANGED <<statVars, settings, transcriptVars>>
    \/ /\ SearchInit /\ TranscriptInit
       /\ StatNext
       /\ UNCHANGED <<searchVars, settings, transcriptVars>>
    \/ /\ SearchInit /\ StatInit
       /\ TranscriptNext
       /\ sent' = {} \/ PlainSettings'
       /\ UNCHANGED <<searchVars, statVars>>

ServicesSpec ==
    ServicesInit /\ [][ServicesNext]_<<searchVars, statVars, settings, transcriptVars>>
=============================================================================
