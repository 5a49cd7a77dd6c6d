-------------------------- MODULE CallLogGeneration --------------------------
(***************************************************************************)
(* How call logs come to be.  Asterisk writes CELs to the CEL database.    *)
(* The wazo-call-logd daemon turns the CELs of a call into a call log when *)
(* it hears LINKEDID_END on the bus; the wazo-call-logs command, run every *)
(* night by cron, does the same for the CELs that have no call log yet,    *)
(* and can also delete call logs.  Both run the pipeline of manager.py,    *)
(* generator.py and writer.py: each of its steps is one transaction, the   *)
(* CELs and the call logs are in two databases, and nothing holds the      *)
(* daemon and the command apart.  The purge of old call logs and the       *)
(* removal of tenants work on the same tables.                             *)
(***************************************************************************)
EXTENDS CelCorrelation

CONSTANTS
    Cel,            \* the CELs Asterisk may write, in the order of eventtime
    Tenant,
    TenantOf,       \* the tenant of a conversation, by its first linkedid
    Process,        \* the running programs: "daemon" and "cli"
    CelCount,       \* generate --cel-count
    GenerateSince,  \* generate --days: the dates it may reach back to
    DeleteSince,    \* delete --days: the dates it may reach back to, 0 for --all
    AbortAt,        \* the steps at which a job may be cut short
    MaxFaults,      \* bound on aborted jobs, restarts and failed interpretations
    MaxDeletes,     \* bound on the deletions the command is asked for
    PurgeBefore,    \* dates the purge may be run for
    RemovableTenant \* tenants that may be deleted from wazo-auth

PipelineStep == {"correlate", "read", "delete", "unassociate", "tenants",
                 "create", "associate", "publish"}

WipeStep == {"wipe", "wipe_unassociate", "wipe_unassociate_all"}

Step == {"idle"} \cup PipelineStep \cup WipeStep

ASSUME CelAssumption ==
    /\ Cel \subseteq [linkedid : Nat, uniqueid : Nat, eventtime : Nat,
                      eventtype : {"CHAN_START", "LINKEDID_END", "OTHER"},
                      chat : BOOLEAN]
    /\ IsFiniteSet(Cel)
    /\ TenantOf \in [LinkedIds(Cel) -> Tenant]

(* LINKEDID_END is the last CEL of its linkedid: Asterisk writes it when   *)
(* no channel is left in the conversation.                                 *)
ASSUME LinkedIdEndIsLast ==
    \A c, d \in Cel :
        /\ c.eventtime = d.eventtime => c = d
        /\ c.eventtype = "LINKEDID_END" /\ c.linkedid = d.linkedid =>
               d.eventtime <= c.eventtime

ASSUME ParameterAssumption ==
    /\ Process \subseteq {"daemon", "cli"}
    /\ CelCount \in Nat \ {0}
    /\ GenerateSince \subseteq Nat
    /\ DeleteSince \subseteq Nat
    /\ AbortAt \subseteq Step \ {"idle"}
    /\ MaxFaults \in Nat
    /\ MaxDeletes \in Nat
    /\ PurgeBefore \subseteq Nat
    /\ RemovableTenant \subseteq Tenant

VARIABLES
    cels,           \* CEL database: the rows written
    callLogIdOf,    \* CEL database: call_log_id of each row, NULL or an id
    callLogs,       \* call-logd database: call logs with the CELs they came from
    nextId,         \* call-logd database: the id sequence
    tenants,        \* call-logd database: tenants
    authTenants,    \* tenants wazo-auth knows
    events,         \* bus messages the daemon has not handled
    pc,             \* pc[p]: the next step of process p
    channels,       \* channels[p]: uniqueids of the CELs the job starts from
    links,          \* links[p]: linkedids found to be correlated to them
    toDelete,       \* toDelete[p]: ids of the call logs the job replaces or deletes
    new,            \* new[p]: call logs the job makes; until they are created
                    \* their id is their place in the batch
    since,          \* date from which the command deletes
    published,      \* ids of the call logs announced on the bus
    faults, deletes \* counters for MaxFaults and MaxDeletes

(* History, read by no action: the ids that CELs may be left with, and     *)
(* the CELs that may be in several call logs.                              *)
VARIABLES
    purged,         \* call logs removed by retention or with their tenant
    stranded,       \* deleted call logs whose CELs the job will not release
    halted,         \* created call logs whose CELs the job did not associate
    shared,         \* processes whose job has run beside another
    tangled         \* CELs recorded by such a job, or twice in one batch

database == <<cels, callLogIdOf, callLogs, nextId, tenants>>
job == <<pc, channels, links, toDelete, new, since>>
history == <<purged, stranded, halted, shared, tangled>>
vars == <<database, authTenants, events, job, published, faults, deletes, history>>

NULL == 0           \* ids start at 1

CallLog == [id : Nat, cels : SUBSET Cel]

Ids(logs) == {r.id : r \in logs}

(* What the date, the conversation_id and the tenant_uuid of a call log    *)
(* are, given its CELs.                                                    *)
Smallest(S) == CHOOSE n \in S : \A m \in S : n <= m

Date(log) == Smallest({c.eventtime : c \in {d \in log.cels : d.eventtype = "CHAN_START"}})

TenantUuid(log) == TenantOf[Smallest(LinkedIds(log.cels))]

(* The call logs another job has created and not yet associated.           *)
Unfinished == UNION {Ids(new[p]) : p \in {q \in Process : pc[q] = "associate"}}

Init ==
    /\ cels = {}
    /\ callLogIdOf = [c \in Cel |-> NULL]
    /\ callLogs = {}
    /\ nextId = 1
    /\ tenants = {}
    /\ authTenants = Tenant
    /\ events = <<>>
    /\ pc = [p \in Process |-> "idle"]
    /\ channels = [p \in Process |-> {}]
    /\ links = [p \in Process |-> {}]
    /\ toDelete = [p \in Process |-> {}]
    /\ new = [p \in Process |-> {}]
    /\ since = 0
    /\ published = {}
    /\ faults = 0
    /\ deletes = 0
    /\ purged = {}
    /\ stranded = {}
    /\ halted = {}
    /\ shared = {}
    /\ tangled = {}

-----------------------------------------------------------------------------
(***************************************************************************)
(* Asterisk and wazo-auth.                                                 *)
(***************************************************************************)

(* A CEL is written; LINKEDID_END is also announced on the bus, where only *)
(* a running daemon has a queue.                                           *)
WriteCel(c) ==
    /\ c \in Cel \ cels
    /\ \A d \in Cel \ cels : c.eventtime <= d.eventtime
    /\ cels' = cels \cup {c}
    /\ events' = IF c.eventtype = "LINKEDID_END" /\ "daemon" \in Process
                 THEN Append(events, [name |-> "LINKEDID_END", linkedid |-> c.linkedid])
                 ELSE events
    /\ UNCHANGED <<callLogIdOf, callLogs, nextId, tenants, authTenants, job,
                   published, faults, deletes, history>>

AuthDeletesTenant(t) ==
    /\ t \in authTenants \cap RemovableTenant
    /\ authTenants' = authTenants \ {t}
    /\ events' = IF "daemon" \in Process
                 THEN Append(events, [name |-> "auth_tenant_deleted", tenant |-> t])
                 ELSE events
    /\ UNCHANGED <<database, job, published, faults, deletes, history>>

-----------------------------------------------------------------------------
(***************************************************************************)
(* Starting a job.                                                         *)
(***************************************************************************)
MayStart(p) ==
    /\ p \in Process
    /\ pc[p] = "idle"

AtWork == {p \in Process : pc[p] # "idle"}

(* The job p starts beside the ones at work, if any.                       *)
Begin(p) ==
    /\ shared' = IF AtWork = {} THEN shared ELSE shared \cup {p} \cup AtWork
    /\ UNCHANGED <<purged, stranded, halted, tangled>>

End(p) ==
    /\ shared' = shared \ {p}
    /\ UNCHANGED <<purged, stranded, halted, tangled>>

(* The first query of a generation: the channels of the CELs it is about.  *)
Generate(p, base) ==
    /\ pc' = [pc EXCEPT ![p] = "correlate"]
    /\ channels' = [channels EXCEPT ![p] = Channels(base)]
    /\ Begin(p)
    /\ UNCHANGED <<database, authTenants, links, toDelete, new, since, published,
                   faults, deletes>>

(* The bus thread of the daemon handles one message at a time.             *)
HandleLinkedIdEnd ==
    /\ MayStart("daemon")
    /\ events # <<>>
    /\ Head(events).name = "LINKEDID_END"
    /\ events' = Tail(events)
    /\ Generate("daemon", OfLinkedIds(cels, {Head(events).linkedid}))

Unprocessed == {c \in cels : callLogIdOf[c] = NULL /\ ~c.chat}

(* A run of the command that finds no CEL changes nothing and is left out. *)
GenerateFromCount ==
    /\ MayStart("cli")
    /\ Unprocessed # {}
    /\ Generate("cli", MostRecent(Unprocessed, CelCount))
    /\ UNCHANGED events

GenerateFromDays(date) ==
    /\ MayStart("cli")
    /\ \E c \in Unprocessed : c.eventtime >= date
    /\ Generate("cli", {c \in Unprocessed : c.eventtime >= date})
    /\ UNCHANGED events

(* The SELECT of a deletion: the ids of the call logs it concerns.         *)
StartDelete(date) ==
    /\ MayStart("cli")
    /\ deletes < MaxDeletes
    /\ deletes' = deletes + 1
    /\ pc' = [pc EXCEPT !["cli"] = "wipe"]
    /\ since' = date
    /\ toDelete' = [toDelete EXCEPT !["cli"] = Ids({r \in callLogs : Date(r) >= date})]
    /\ Begin("cli")
    /\ UNCHANGED <<database, authTenants, events, channels, links, new, published,
                   faults>>

-----------------------------------------------------------------------------
(***************************************************************************)
(* The pipeline.                                                           *)
(***************************************************************************)
Advance(p, from, to) ==
    /\ pc[p] = from
    /\ pc' = [pc EXCEPT ![p] = to]

Correlate(p) ==
    /\ Advance(p, "correlate", "read")
    /\ links' = [links EXCEPT ![p] = CorrelatedLinkedIds(cels, channels[p])]
    /\ channels' = [channels EXCEPT ![p] = {}]
    /\ UNCHANGED <<database, authTenants, events, toDelete, new, since, published,
                   faults, deletes, history>>

(* The most groups a batch can hold: ids are reserved for all of them, so  *)
(* that the groups that yield no call log leave gaps.                      *)
BatchSize == Cardinality(LinkedIds(Cel))

(* Bug: calls that are not over are recorded too.                          *)
BugRecordable(group) == \E c \in group : c.eventtype = "CHAN_START"

(* A call log is made of a group whose linkedids have all ended; without a *)
(* CHAN_START it has no date and is invalid.                               *)
Recordable(group) ==
    /\ Terminated(group)
    /\ \E c \in group : c.eventtype = "CHAN_START"

(* The call logs that the rows T yield, numbered by their group.           *)
Batch(T) ==
    LET groups == GroupCelsBySharedChannels(T)
        all == {[id |-> i, cels |-> OfLinkedIds(T, groups[i].linkedids)] :
                  i \in DOMAIN groups \cap (1 .. BatchSize)}
    IN  {r \in all : Recordable(r.cels)}

(* Bug: the call logs to delete are looked up by the CELs they list.       *)
BugCallLogIds(T) == Ids({r \in callLogs : r.cels \cap T # {}})

CallLogIds(T) == {callLogIdOf[c] : c \in T} \ {NULL}

(* from_cel: every call log one of the CELs refers to is to be deleted,    *)
(* whether or not its CELs yield a new one; a group whose interpretation   *)
(* fails (wazo-confd does not answer) is skipped.                          *)
Read(p) ==
    LET T     == OfLinkedIds(cels, links[p])
        batch == Batch(T)
    IN
    /\ Advance(p, "read", "delete")
    /\ toDelete' = [toDelete EXCEPT ![p] = CallLogIds(T)]
    /\ \E yield \in SUBSET batch :
         /\ yield # batch => faults < MaxFaults
         /\ faults' = IF yield = batch THEN faults ELSE faults + 1
         /\ new' = [new EXCEPT ![p] = yield]
    /\ links' = [links EXCEPT ![p] = {}]
    /\ UNCHANGED <<database, authTenants, events, channels, since, published, deletes,
                   history>>

(* Bug: the call logs are not deleted.                                     *)
BugDelete(p) ==
    /\ Advance(p, "delete", "unassociate")
    /\ UNCHANGED <<database, authTenants, events, channels, links, toDelete, new,
                   since, published, faults, deletes, history>>

Delete(p) ==
    /\ Advance(p, "delete", "unassociate")
    /\ callLogs' = {r \in callLogs : r.id \notin toDelete[p]}
    /\ UNCHANGED <<cels, callLogIdOf, nextId, tenants, authTenants, events, channels,
                   links, toDelete, new, since, published, faults, deletes, history>>

(* Bug: the CELs of the deleted call logs are not released.                *)
BugRelease(ids) == UNCHANGED callLogIdOf

Release(ids) ==
    callLogIdOf' = [c \in Cel |-> IF callLogIdOf[c] \in ids THEN NULL ELSE callLogIdOf[c]]

Unassociate(p) ==
    /\ Advance(p, "unassociate", "tenants")
    /\ Release(toDelete[p])
    /\ toDelete' = [toDelete EXCEPT ![p] = {}]
    /\ UNCHANGED <<cels, callLogs, nextId, tenants, authTenants, events, channels,
                   links, new, since, published, faults, deletes, history>>

CreateTenants(p) ==
    /\ Advance(p, "tenants", "create")
    /\ tenants' = tenants \cup {TenantUuid(r) : r \in new[p]}
    /\ UNCHANGED <<cels, callLogIdOf, callLogs, nextId, authTenants, events, channels,
                   links, toDelete, new, since, published, faults, deletes, history>>

(* Batches that may list a CEL another call log lists: those of a job that *)
(* ran beside another, and groups that overlap (see CelGrouping).          *)
Tangles(p) ==
    {c \in cels : \E r \in new[p] : /\ c \in r.cels
                                  /\ \/ p \in shared
                                     \/ \E s \in new[p] \ {r} : c \in s.cels}

(* Bug: an id is given out twice.                                          *)
BugCreate(p) ==
    LET created == {[id |-> nextId + r.id, cels |-> r.cels] : r \in new[p]} IN
    /\ Advance(p, "create", "associate")
    /\ \A r \in new[p] : TenantUuid(r) \in tenants
    /\ callLogs' = callLogs \cup created
    /\ new' = [new EXCEPT ![p] = created]
    /\ tangled' = tangled \cup Tangles(p)
    /\ UNCHANGED <<cels, callLogIdOf, nextId, tenants, authTenants, events, channels,
                   links, toDelete, since, published, faults, deletes, purged, stranded,
                   halted, shared>>

(* The rows of a batch are inserted in one transaction, in order.  Each    *)
(* refers to its tenant.                                                   *)
Create(p) ==
    LET created == {[id |-> nextId + r.id, cels |-> r.cels] : r \in new[p]} IN
    /\ Advance(p, "create", "associate")
    /\ \A r \in new[p] : TenantUuid(r) \in tenants
    /\ callLogs' = callLogs \cup created
    /\ new' = [new EXCEPT ![p] = created]
    /\ nextId' = IF new[p] = {} THEN nextId ELSE nextId + BatchSize + 1
    /\ tangled' = tangled \cup Tangles(p)
    /\ UNCHANGED <<cels, callLogIdOf, tenants, authTenants, events, channels, links,
                   toDelete, since, published, faults, deletes, purged, stranded,
                   halted, shared>>

Largest(S) == CHOOSE n \in S : \A m \in S : m <= n

(* Bug: every CEL of the batch is given the id of the last call log.       *)
BugIdGivenTo(c, batch) ==
    IF \E r \in batch : c \in r.cels THEN Largest(Ids(batch)) ELSE callLogIdOf[c]

(* The updates run in the order of the batch: a CEL listed by two call     *)
(* logs is left with the later one.                                        *)
IdGivenTo(c, batch) ==
    LET listing == Ids({r \in batch : c \in r.cels})
    IN  IF listing = {} THEN callLogIdOf[c] ELSE Largest(listing)

Associate(p) ==
    /\ Advance(p, "associate", "publish")
    /\ callLogIdOf' = [c \in Cel |-> IdGivenTo(c, new[p])]
    /\ UNCHANGED <<cels, callLogs, nextId, tenants, authTenants, events, channels,
                   links, toDelete, new, since, published, faults, deletes, history>>

Publish(p) ==
    /\ Advance(p, "publish", "idle")
    /\ published' = published \cup Ids(new[p])
    /\ new' = [new EXCEPT ![p] = {}]
    /\ End(p)
    /\ UNCHANGED <<database, authTenants, events, channels, links, toDelete, since,
                   faults, deletes>>

-----------------------------------------------------------------------------
(***************************************************************************)
(* The deletions of the command: a transaction on the call logs, whose     *)
(* DELETE follows its SELECT, then one on the CELs.                        *)
(***************************************************************************)
Wipe(p) ==
    LET deleted  == {r \in callLogs : Date(r) >= since}
        selected == IF since = 0 THEN Ids(deleted) ELSE toDelete[p]
    IN  /\ Advance(p, "wipe", IF since = 0 THEN "wipe_unassociate_all"
                                           ELSE "wipe_unassociate")
        /\ callLogs' = callLogs \ deleted
        /\ toDelete' = [toDelete EXCEPT ![p] = selected]
        /\ stranded' = stranded \cup (Ids(deleted) \ selected)
                                \cup (Ids(deleted) \cap Unfinished)
        /\ UNCHANGED <<cels, callLogIdOf, nextId, tenants, authTenants, events,
                       channels, links, new, since, published, faults, deletes,
                       purged, halted, shared, tangled>>

EndWipe(p) ==
    /\ toDelete' = [toDelete EXCEPT ![p] = {}]
    /\ since' = 0
    /\ End(p)
    /\ UNCHANGED <<cels, callLogs, nextId, tenants, authTenants, events, channels,
                   links, new, published, faults, deletes>>

WipeUnassociate(p) ==
    /\ Advance(p, "wipe_unassociate", "idle")
    /\ Release(toDelete[p])
    /\ EndWipe(p)

(* delete --all does not use the ids: it releases every CEL.               *)
WipeUnassociateAll(p) ==
    /\ Advance(p, "wipe_unassociate_all", "idle")
    /\ callLogIdOf' = [c \in Cel |-> NULL]
    /\ EndWipe(p)

-----------------------------------------------------------------------------
(***************************************************************************)
(* Failures.  A transaction is rolled back, the exception ends the job:    *)
(* the daemon logs it and goes on to the next message, the command exits.  *)
(* What the job has committed stays.                                       *)
(***************************************************************************)
(* Bug: the exception ends the thread, not the job.                        *)
BugEndJob(p) ==
    /\ pc' = [pc EXCEPT ![p] = "dead"]
    /\ UNCHANGED <<database, authTenants, channels, links, toDelete, new, since,
                   published, deletes, history>>

EndJob(p) ==
    /\ pc' = [pc EXCEPT ![p] = "idle"]
    /\ channels' = [channels EXCEPT ![p] = {}]
    /\ links' = [links EXCEPT ![p] = {}]
    /\ toDelete' = [toDelete EXCEPT ![p] = {}]
    /\ new' = [new EXCEPT ![p] = {}]
    /\ since' = IF p = "cli" THEN 0 ELSE since
    /\ stranded' = IF pc[p] \in {"unassociate", "wipe_unassociate", "wipe_unassociate_all"}
                   THEN stranded \cup toDelete[p] ELSE stranded
    /\ halted' = IF pc[p] = "associate"
                 THEN halted \cup Ids(new[p]) ELSE halted
    /\ shared' = shared \ {p}
    /\ UNCHANGED <<database, authTenants, published, deletes, purged, tangled>>

Abort(p) ==
    /\ pc[p] \in AbortAt
    /\ faults < MaxFaults
    /\ faults' = faults + 1
    /\ EndJob(p)
    /\ UNCHANGED events

(* The messages a stopped daemon has not handled are lost with its queue.  *)
Restart ==
    /\ "daemon" \in Process
    /\ pc["daemon"] \in AbortAt \cup {"idle"}
    /\ faults < MaxFaults
    /\ faults' = faults + 1
    /\ EndJob("daemon")
    /\ events' = <<>>

(* A tenant was removed after this job made sure it exists: the foreign    *)
(* key refuses the call log.                                               *)
CreateFails(p) ==
    /\ pc[p] = "create"
    /\ \E r \in new[p] : TenantUuid(r) \notin tenants
    /\ EndJob(p)
    /\ UNCHANGED <<events, faults>>

-----------------------------------------------------------------------------
(***************************************************************************)
(* Retention and tenant removal: one transaction each.  Neither touches    *)
(* the CELs.                                                               *)
(***************************************************************************)
PurgeCallLogs(t, date) ==
    LET old == {r \in callLogs : TenantUuid(r) = t /\ Date(r) < date} IN
    /\ t \in tenants
    /\ old # {}
    /\ callLogs' = callLogs \ old
    /\ purged' = purged \cup Ids(old)
    /\ UNCHANGED <<cels, callLogIdOf, nextId, tenants, authTenants, events, job,
                   published, faults, deletes, stranded, halted, shared, tangled>>

(* The purge of remove_tenant and the cascade of the tenant's row.         *)
RemoveTenants(removed) ==
    LET theirs == {r \in callLogs : TenantUuid(r) \in removed} IN
    /\ callLogs' = callLogs \ theirs
    /\ tenants' = tenants \ removed
    /\ purged' = purged \cup Ids(theirs)
    /\ UNCHANGED <<cels, callLogIdOf, nextId, authTenants, job, published, faults,
                   deletes, stranded, halted, shared, tangled>>

HandleTenantDeleted ==
    /\ MayStart("daemon")
    /\ events # <<>>
    /\ Head(events).name = "auth_tenant_deleted"
    /\ events' = Tail(events)
    /\ RemoveTenants({Head(events).tenant})

SyncDb ==
    /\ tenants \ authTenants # {}
    /\ RemoveTenants(tenants \ authTenants)
    /\ UNCHANGED events

-----------------------------------------------------------------------------
PipelineNext(p) ==
    \/ Correlate(p)
    \/ Read(p)
    \/ Delete(p)
    \/ Unassociate(p)
    \/ CreateTenants(p)
    \/ Create(p)
    \/ CreateFails(p)
    \/ Associate(p)
    \/ Publish(p)

WipeNext(p) ==
    \/ Wipe(p)
    \/ WipeUnassociate(p)
    \/ WipeUnassociateAll(p)

DaemonStart == HandleLinkedIdEnd \/ HandleTenantDeleted

Next ==
    \/ \E c \in Cel : WriteCel(c)
    \/ \E t \in Tenant : AuthDeletesTenant(t)
    \/ HandleLinkedIdEnd
    \/ HandleTenantDeleted
    \/ GenerateFromCount
    \/ \E date \in GenerateSince : GenerateFromDays(date)
    \/ \E date \in DeleteSince : StartDelete(date)
    \/ \E p \in Process : PipelineNext(p)
    \/ \E p \in Process : WipeNext(p)
    \/ \E p \in Process : Abort(p)
    \/ Restart
    \/ \E t \in Tenant, date \in PurgeBefore : PurgeCallLogs(t, date)
    \/ SyncDb

Spec == Init /\ [][Next]_vars

(* A job that has started goes on; the daemon takes the messages of its    *)
(* queue; cron starts the command every night.  Nothing obliges Asterisk   *)
(* to end a call, or anyone to purge, to delete or to remove a tenant.     *)
Fairness ==
    /\ \A p \in Process : WF_vars(PipelineNext(p) \/ WipeNext(p))
    /\ WF_vars(DaemonStart)
    /\ WF_vars(GenerateFromCount)

FairSpec == Spec /\ Fairness

-----------------------------------------------------------------------------
(***************************************************************************)
(* Properties.                                                             *)
(***************************************************************************)
Message == [name : {"LINKEDID_END"}, linkedid : Nat]
             \cup [name : {"auth_tenant_deleted"}, tenant : Tenant]

(* The variables have the shapes their comments give them.                 *)
TypeOK ==
    /\ cels \subseteq Cel
    /\ callLogIdOf \in [Cel -> Nat]
    /\ callLogs \subseteq CallLog
    /\ nextId \in Nat
    /\ tenants \subseteq Tenant
    /\ authTenants \subseteq Tenant
    /\ events \in Seq(Message)
    /\ pc \in [Process -> Step]
    /\ channels \in [Process -> SUBSET Nat]
    /\ links \in [Process -> SUBSET Nat]
    /\ toDelete \in [Process -> SUBSET Nat]
    /\ new \in [Process -> SUBSET CallLog]
    /\ since \in Nat
    /\ published \subseteq Nat
    /\ faults \in Nat
    /\ deletes \in Nat
    /\ purged \subseteq Nat
    /\ stranded \subseteq Nat
    /\ halted \subseteq Nat
    /\ shared \subseteq Process
    /\ tangled \subseteq Cel

BeingReleased ==
    UNION {toDelete[p] : p \in {q \in Process : pc[q] \in
             {"unassociate", "wipe_unassociate", "wipe_unassociate_all"}}}

(* A CEL that refers to no existing call log is out of the reach of every  *)
(* later run of the command, which looks for call_log_id NULL.  It happens *)
(* in three ways only: retention or a tenant's removal took the call log,  *)
(* a job was cut between deleting call logs and releasing their CELs, or   *)
(* the command deleted call logs another job was about to associate.  In   *)
(* particular no two generations, however they interleave, leave one.      *)
(* (writer.py:9-16, manager.py:20-27, purger.py:99-104)                    *)
AssociationAccountedFor ==
    \A c \in Cel :
        callLogIdOf[c] \in {NULL} \cup Ids(callLogs) \cup BeingReleased
                             \cup purged \cup stranded

(* A call log holds all CELs of each linkedid it is about, up to its       *)
(* LINKEDID_END, although they are read while Asterisk goes on writing and *)
(* the linkedids are looked up in an earlier query than the rows           *)
(* (cel.py:37-52, generator.py:231-243).                                   *)
CallLogIsWholeCall ==
    \A r \in callLogs : \A c \in r.cels :
        /\ \A d \in cels : d.linkedid = c.linkedid => d \in r.cels
        /\ \E d \in r.cels : d.linkedid = c.linkedid /\ d.eventtype = "LINKEDID_END"

(* A CEL refers to a call log that was made from it, whatever jobs ran at  *)
(* the same time and in whatever state they were cut (cel.py:16-30).       *)
AssociatedCelIsListed ==
    \A r \in callLogs : \A c \in Cel : callLogIdOf[c] = r.id => c \in r.cels

(* A generation never deletes a call log that another job has created and  *)
(* not yet associated: it only knows ids that CELs refer to                *)
(* (generator.py:282-283, writer.py:10-16).                                *)
UnfinishedCallLogUntouched ==
    \A p \in Process : pc[p] \in PipelineStep => toDelete[p] \cap Unfinished = {}

(* No CEL is in two call logs.  It gets there in three ways only: a cut    *)
(* job left a call log behind unassociated, the CEL was recorded by a job  *)
(* that ran beside another, or its linkedid joins several groups of one    *)
(* batch.  In particular a job that runs alone repeats nothing, whatever   *)
(* became of the call logs before it and in whatever state those were cut  *)
(* (test_call_logs_cli.py:225-245 reprocesses a call and expects a single  *)
(* call log; generator.py:282-283, writer.py:10-16).                       *)
OneCallLogPerCall ==
    \A r, s \in callLogs :
        r # s => \/ r.cels \cap s.cels \subseteq tangled
                 \/ {r.id, s.id} \cap halted # {}

(* No CEL is in two call logs that were completed, once every job is done  *)
(* and every message handled: what the pidfile of the command is there     *)
(* for, which "only one cli can be executed" (test_call_logs_cli.py:       *)
(* 247-252), and the daemon does not take.                                 *)
OneCallLogAtRest ==
    events = <<>> /\ AtWork = {} =>
        \A r, s \in callLogs :
            r # s /\ r.cels \cap s.cels # {} => {r.id, s.id} \cap halted # {}

(* What a job that runs alone releases it records again: no CEL loses its  *)
(* call log because it is processed anew, unless an interpretation fails.  *)
(* The generator says of an unfinished group that it is "skipping" it      *)
(* (generator.py:237-243).                                                 *)
RegenerationReplacesWhatItDeletes ==
    [][\A p \in Process :
         pc[p] = "unassociate" /\ pc'[p] = "tenants" /\ faults = 0 /\ p \notin shared =>
             \A c \in Cel : callLogIdOf[c] \in toDelete[p] =>
                 \E r \in new[p] : c \in r.cels]_vars

Recorded(c) ==
    \/ \E r \in callLogs : c \in r.cels /\ callLogIdOf[c] = r.id
    \/ callLogIdOf[c] \in stranded \cup purged

(* A linkedid that never ends, or whose start was never written, makes no  *)
(* call log.                                                               *)
CallOf(c) ==
    \A type \in {"CHAN_START", "LINKEDID_END"} :
        \E d \in Cel : d.linkedid = c.linkedid /\ d.eventtype = type

(* Once every call is over and the failures have ceased, every CEL of a    *)
(* call stays in a call log for good: what a lost message or a failed job  *)
(* leaves behind is made up for by the command (debian/cron.d,             *)
(* cel.py:54-69).  Nothing is promised once a tenant is gone.              *)
EventuallyRecorded ==
    <>[](cels = Cel /\ authTenants = Tenant =>
            \A c \in Cel : CallOf(c) => Recorded(c))

-----------------------------------------------------------------------------
(* The generation implements the book of calls: the entries are the call   *)
(* logs, without those a cut job left unassociated and those with CELs     *)
(* that are tangled up.  Every step of a job, alone or not, enters calls   *)
(* that are whole, over and apart from all entries, strikes calls out, or  *)
(* leaves the book as it is, whatever fails (writer.py:9-16,               *)
(* manager.py:50-54).                                                      *)
Book == INSTANCE CallBook
    WITH book <- {r.cels : r \in {s \in callLogs : s.id \notin halted /\ s.cels \cap tangled = {}}}

ImplementsCallBook == Book!Spec
=============================================================================
