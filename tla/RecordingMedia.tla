---------------------------- MODULE RecordingMedia ----------------------------
(***************************************************************************)
(* The files of call recordings and of their exports, and the rows that    *)
(* point to them.  HTTP requests delete recordings and ask for archives, a *)
(* Celery worker writes the archives, the nightly purge and the removal of *)
(* tenants delete what is past its retention.  Files and rows cannot be    *)
(* changed together: each actor changes one, then the other.               *)
(***************************************************************************)
EXTENDS RetentionSettings, Sequences, SequencesExt

CONSTANTS
    CallLog,
    Recording,
    Export,
    Delete,         \* DELETE requests that may be in flight
    CallOf,         \* CallOf[r]: the call log of a recording
    TenantOf,       \* TenantOf[c]: the tenant of a call log
    Date,           \* Date[c]: the day of a call
    LastDay,        \* bound on time
    FactoryPurgeDays, \* the days wazo-purge-db is installed with
    PurgeDays,      \* days the nightly purge may be run with
    Purger,         \* the programs that purge: "cron", "daemon"
    MaxJobs,        \* bound on requests, purges and removals
    MaxFaults       \* bound on failed file operations and interrupted actors

ASSUME MediaAssumption ==
    /\ Recording \cap Export = {} /\ CallLog \cap (Recording \cup Export) = {}
    /\ CallOf \in [Recording -> CallLog]
    /\ TenantOf \in [CallLog -> Tenant]
    /\ Date \in [CallLog -> Nat]
    /\ LastDay \in Nat
    /\ FactoryPurgeDays \in Nat
    /\ PurgeDays \subseteq Nat
    /\ Purger \subseteq {"cron", "daemon"}
    /\ MaxJobs \in Nat
    /\ MaxFaults \in Nat

VARIABLES
    today,
    wav,            \* recordings whose file exists
    born,           \* call logs generated so far
    callLogs,       \* rows of call_logd_call_log
    path,           \* recordings whose row has a path
    exports,        \* rows of call_logd_export, by export
    archive,        \* archive[e]: recordings in the zip file, by export
    task,           \* task[e]: where the export task is
    asked,          \* asked[e]: its argument, the recordings to export
    left,           \* left[e]: recordings the worker has yet to write
    deletes,        \* deletes[d]: a DELETE request, or NoDelete
    purge,          \* purge[p]: the purge or removal that runs, or NoPurge
    jobs, faults    \* counters for MaxJobs and MaxFaults

(* History, read by no action.                                             *)
VARIABLES
    stray,          \* recordings whose file may be left without a path
    revived,        \* recordings listed again once their file was given up
    broken,         \* files an interrupted purge removed without their rows
    changed         \* tenants whose days to keep changed while a purge ran

rows == <<born, callLogs, path>>
exporting == <<exports, archive, task, asked, left>>
history == <<stray, revived, broken, changed>>
mediaVars == <<settings, today, wav, rows, exporting, deletes, purge, jobs, faults,
               history>>

TaskState == {"none", "posted", "queued", "running", "done", "lost"}

Status == {"pending", "processing", "finished", "error"}

NoDelete == [todo |-> {}, seen |-> {}, outdated |-> {}, removing |-> {}]

NoPurge == [phase |-> "none", removed |-> {}, dead |-> {}]

RecordingsOf(C) == {r \in Recording : CallOf[r] \in C}

MediaInit ==
    /\ SettingsInit
    /\ today = 0
    /\ wav = {}
    /\ born = {}
    /\ callLogs = {}
    /\ path = {}
    /\ exports = [e \in {} |-> {}]
    /\ archive = [e \in {} |-> {}]
    /\ task = [e \in Export |-> "none"]
    /\ asked = [e \in Export |-> {}]
    /\ left = [e \in Export |-> {}]
    /\ deletes = [d \in Delete |-> NoDelete]
    /\ purge = [p \in Purger |-> NoPurge]
    /\ jobs = 0
    /\ faults = 0
    /\ stray = {}
    /\ revived = {}
    /\ broken = {}
    /\ changed = {}

Job == jobs < MaxJobs /\ jobs' = jobs + 1

Fault == faults < MaxFaults /\ faults' = faults + 1

Purging == \E p \in Purger : purge[p] # NoPurge

(* What the open transaction of a purge has deleted, recordings standing   *)
(* for their paths: others that write it wait for the commit.              *)
Locked(p) == purge[p].dead \cup RecordingsOf(purge[p].dead)

(* Files that a DELETE request is to remove, the row read before.          *)
ToRemove(d) == deletes[d].removing \cup (deletes[d].todo \cap deletes[d].seen)

Unlocked(row) == \A p \in Purger : row \notin Locked(p)

-----------------------------------------------------------------------------
(***************************************************************************)
(* Days, settings, and call logs with the recordings Asterisk has made.    *)
(* A call log may be generated long after its call.                        *)
(***************************************************************************)
Midnight ==
    /\ today < LastDay
    /\ today' = today + 1
    /\ UNCHANGED <<settings, wav, rows, exporting, deletes, purge, jobs,
                   faults, history>>

ChangeSettings ==
    /\ \/ Job /\ \E p \in Put, t \in Tenant, want \in Request : PutFindsOrCreates(p, t, want)
       \/ Job /\ \E file \in FileDays : UpdateDbFromConfigFile(file)
       \/ UNCHANGED jobs /\ \E p \in Put : PutUpdates(p)
    /\ changed' = changed \cup
           {t \in Tenant : Purging /\ <<OwnDays(t), config>> # <<OwnDays(t), config>>'}
    /\ UNCHANGED <<today, wav, rows, exporting, deletes, purge, faults,
                   stray, revived, broken>>

(* A call log is generated, for the first time or again: its recordings    *)
(* have the path that Asterisk gave them, whatever has become of the file. *)
(* What a DELETE or a purge has read of an earlier one, by its id, they do *)
(* not find any more.                                                      *)
CreateCallLog(c) ==
    /\ c \notin callLogs
    /\ Date[c] <= today
    /\ born' = born \cup {c}
    /\ callLogs' = callLogs \cup {c}
    /\ path' = path \cup RecordingsOf({c})
    /\ wav' = IF c \in born THEN wav ELSE wav \cup RecordingsOf({c})
    /\ tenants' = tenants \cup {TenantOf[c]}
    /\ deletes' = [d \in Delete |-> [deletes[d] EXCEPT
                      !.outdated = @ \cup (deletes[d].todo \cap RecordingsOf({c}))]]
    /\ purge' = [p \in Purger |-> IF purge[p].phase = "remove"
                                  THEN [purge[p] EXCEPT !.files = @ \ RecordingsOf({c})]
                                  ELSE purge[p]]
    /\ stray' = IF Purging THEN stray \cup RecordingsOf({c}) ELSE stray \ RecordingsOf({c})
    /\ revived' = revived \cup {r \in RecordingsOf({c}) :
                      r \notin wav' \/ \E d \in Delete : r \in ToRemove(d)}
    /\ UNCHANGED <<retention, config, puts, overtaken, promised, today, exporting,
                   jobs, faults, broken, changed>>

(* The rows of recordings go with their call logs, the files do not.       *)
DropCallLogs(C) ==
    /\ Job
    /\ C # {}
    /\ \A row \in C \cup RecordingsOf(C) : Unlocked(row)
    /\ callLogs' = callLogs \ C
    /\ path' = path \ RecordingsOf(C)
    /\ stray' = stray \cup (RecordingsOf(C) \cap wav)
    /\ UNCHANGED <<settings, today, wav, born, exporting, deletes, purge, faults,
                   revived, broken, changed>>

(* delete_from_list: a generation deletes the call logs that it is about   *)
(* to create again.                                                        *)
Regenerate(C) == C \subseteq callLogs /\ DropCallLogs(C)

(* wazo-call-logs delete.                                                  *)
DeleteCallLogs(since) == DropCallLogs({c \in callLogs : Date[c] >= since})

-----------------------------------------------------------------------------
(***************************************************************************)
(* DELETE of the recordings of some call logs, or of one of their          *)
(* recordings: the path is set to NULL and committed, where the row is     *)
(* still there, then the file is removed.                                  *)
(***************************************************************************)
RequestDelete(d, R) ==
    /\ deletes[d] = NoDelete
    /\ Job
    /\ R # {} /\ {CallOf[r] : r \in R} \subseteq callLogs
    /\ deletes' = [deletes EXCEPT ![d] = [NoDelete EXCEPT !.todo = R,
                                                         !.seen = R \cap path]]
    /\ UNCHANGED <<settings, today, wav, rows, exporting, purge, faults, history>>

DeleteMediaPath(d, r) ==
    /\ deletes[d].removing = {}
    /\ r \in deletes[d].todo
    /\ r \in deletes[d].outdated \/ Unlocked(r)
    /\ path' = path \ ({r} \ deletes[d].outdated)
    /\ deletes' = [deletes EXCEPT ![d].todo = @ \ {r},
                                  ![d].removing = {r} \cap deletes[d].seen]
    /\ UNCHANGED <<settings, today, wav, born, callLogs, exporting, purge,
                   jobs, faults, history>>

(* A file that is not there any more is no error.                          *)
DeleteMediaFile(d) ==
    /\ deletes[d].removing # {}
    /\ wav' = wav \ deletes[d].removing
    /\ deletes' = [deletes EXCEPT ![d].removing = {}]
    /\ UNCHANGED <<settings, today, rows, exporting, purge, jobs, faults,
                   history>>

(* PermissionError, or the end of the daemon: what is left is not done.    *)
DeleteMediaFails(d) ==
    /\ deletes[d] # NoDelete
    /\ Fault
    /\ stray' = stray \cup (deletes[d].removing \cap wav)
    /\ deletes' = [deletes EXCEPT ![d] = NoDelete]
    /\ UNCHANGED <<settings, today, wav, rows, exporting, purge, jobs,
                   revived, broken, changed>>

(* What GET .../recordings/{uuid}/media answers.                           *)
MediaAnswer(r) ==
    CASE CallOf[r] \notin callLogs -> "cdr not found"
      [] CallOf[r] \in callLogs /\ r \notin path -> "media not found"
      [] r \in path /\ r \notin wav -> "file not found"
      [] OTHER -> "served"

-----------------------------------------------------------------------------
(* Mutant: the export may be made for a tenant that has no row.            *)
ExportForAnyTenant(e, t, C) ==
    /\ task[e] = "none"
    /\ Job
    /\ RecordingsOf(C) \cap path # {}
    /\ exports' = [f \in DOMAIN exports \cup {e} |->
                      IF f = e THEN [tenant |-> t, requested |-> today,
                                     status |-> "pending", path |-> FALSE]
                      ELSE exports[f]]
    /\ asked' = [asked EXCEPT ![e] = RecordingsOf(C) \cap path]
    /\ task' = [task EXCEPT ![e] = "posted"]
    /\ UNCHANGED <<settings, today, wav, rows, archive, left, deletes, purge, faults,
                   history>>

(***************************************************************************)
(* Exports.  POST makes the row, then sends the task to the worker, which  *)
(* works from the paths sent with it; the task is acknowledged before it   *)
(* runs, so one that is cut is never run again.                            *)
(***************************************************************************)
RequestExport(e, t, C) ==
    /\ task[e] = "none"
    /\ Job
    /\ RecordingsOf(C) \cap path # {}
    /\ t \in tenants
    /\ exports' = [f \in DOMAIN exports \cup {e} |->
                      IF f = e THEN [tenant |-> t, requested |-> today,
                                     status |-> "pending", path |-> FALSE]
                      ELSE exports[f]]
    /\ asked' = [asked EXCEPT ![e] = RecordingsOf(C) \cap path]
    /\ task' = [task EXCEPT ![e] = "posted"]
    /\ UNCHANGED <<settings, today, wav, rows, archive, left, deletes, purge,
                   faults, history>>

SendTask(e) ==
    /\ task[e] = "posted"
    /\ task' = [task EXCEPT ![e] = "queued"]
    /\ UNCHANGED <<settings, today, wav, rows, exports, archive, asked, left,
                   deletes, purge, jobs, faults, history>>

(* The daemon or the worker dies, the broker fails, or the archive cannot  *)
(* be opened: the row stays as it is.                                      *)
LoseTask(e) ==
    /\ task[e] \in {"posted", "queued", "running"}
    /\ Fault
    /\ task' = [task EXCEPT ![e] = "lost"]
    /\ UNCHANGED <<settings, today, wav, rows, exports, archive, asked, left,
                   deletes, purge, jobs, history>>

(* Mutant: the error is not saved.                                         *)
ErrorNotSaved(e, status) ==
    exports' = [f \in DOMAIN exports |->
                   IF f = e /\ status # "error"
                   THEN [exports[f] EXCEPT !.status = status,
                                           !.path = @ \/ status = "finished"]
                   ELSE exports[f]]

SetStatus(e, status) ==
    exports' = [f \in DOMAIN exports |->
                   IF f = e THEN [exports[f] EXCEPT !.status = status,
                                                    !.path = @ \/ status = "finished"]
                   ELSE exports[f]]

(* An export deleted before its task runs ends it.                         *)
StartTask(e) ==
    /\ task[e] = "queued"
    /\ Unlocked(e)
    /\ IF e \in DOMAIN exports
       THEN /\ task' = [task EXCEPT ![e] = "running"]
            /\ left' = [left EXCEPT ![e] = asked[e]]
            /\ archive' = [f \in DOMAIN archive \cup {e} |->
                              IF f = e THEN {} ELSE archive[f]]
       ELSE /\ task' = [task EXCEPT ![e] = "done"]
            /\ UNCHANGED <<left, archive>>
    /\ SetStatus(e, "processing")
    /\ UNCHANGED <<settings, today, wav, rows, asked, deletes, purge, jobs,
                   faults, history>>

WriteRecording(e, r) ==
    /\ task[e] = "running"
    /\ r \in left[e] \cap wav
    /\ left' = [left EXCEPT ![e] = @ \ {r}]
    /\ archive' = [f \in DOMAIN archive |->
                      IF f = e THEN archive[f] \cup {r} ELSE archive[f]]
    /\ UNCHANGED <<settings, today, wav, rows, exports, task, asked, deletes,
                   purge, jobs, faults, history>>
(* Mutant: a recording that cannot be read is left out of the archive.     *)
SkipUnreadable(e, r) ==
    /\ task[e] = "running"
    /\ r \in left[e] \ wav
    /\ left' = [left EXCEPT ![e] = @ \ {r}]
    /\ UNCHANGED <<settings, today, wav, rows, exports, archive, task, asked, deletes,
                   purge, jobs, faults, history>>

(* FileNotFoundError, or PermissionError: a fault of the file system.      *)
WriteFails(e, r) ==
    /\ task[e] = "running"
    /\ Unlocked(e)
    /\ r \in left[e]
    /\ IF r \in wav THEN Fault ELSE UNCHANGED faults
    /\ task' = [task EXCEPT ![e] = "done"]
    /\ left' = [left EXCEPT ![e] = {}]
    /\ SetStatus(e, "error")
    /\ UNCHANGED <<settings, today, wav, rows, archive, asked, deletes, purge,
                   jobs, history>>

(* The update fails when the export was deleted meanwhile: its archive     *)
(* stays, with no row.                                                     *)
FinishTask(e) ==
    /\ task[e] = "running"
    /\ left[e] = {}
    /\ Unlocked(e)
    /\ task' = [task EXCEPT ![e] = "done"]
    /\ SetStatus(e, "finished")
    /\ UNCHANGED <<settings, today, wav, rows, archive, asked, left, deletes,
                   purge, jobs, faults, history>>

(* What GET /exports/{uuid}/download answers.                              *)
DownloadAnswer(e) ==
    CASE e \notin DOMAIN exports -> "export not found"
      [] e \in DOMAIN exports /\ exports[e].status \in {"pending", "processing"} ->
             "not done yet"
      [] e \in DOMAIN exports /\ exports[e].status = "error" -> "export not found"
      [] OTHER -> IF e \in DOMAIN archive THEN "served" ELSE "file not found"

-----------------------------------------------------------------------------
(***************************************************************************)
(* The purge and the removal of a tenant: the purgers of purger.py, for a  *)
(* list of tenants, in one transaction whose files go before its rows.     *)
(***************************************************************************)
Begin(p, steps, days, gone) ==
    /\ purge[p] = NoPurge
    /\ Job
    /\ purge' = [purge EXCEPT ![p] =
           [phase |-> "load", steps |-> steps, days |-> days, gone |-> gone,
            started |-> today, own |-> [t \in Tenant |-> Unset], defaults |-> config,
            keep |-> 0, files |-> {}, removed |-> {}, dead |-> {}, spared |-> {}]]
    /\ changed' = IF Purging THEN changed ELSE {}
    /\ UNCHANGED <<settings, today, wav, rows, exporting, deletes, faults,
                   stray, revived, broken>>

(* wazo-purge-db runs one purger for every tenant.                         *)
PurgeKind(kind, days) ==
    /\ tenants # {}
    /\ \E order \in SetToSeqs(tenants) :
           Begin("cron", [i \in DOMAIN order |-> [kind |-> kind, tenant |-> order[i]]],
                 days, {})

(* The tenant is gone from wazo-auth: everything it has is purged, with 0  *)
(* days to keep, before its row is deleted.                                *)
RemoveTenant(p, t) ==
    /\ t \in tenants
    /\ Begin(p, <<[kind |-> "cdr", tenant |-> t], [kind |-> "export", tenant |-> t],
                  [kind |-> "recording", tenant |-> t]>>, 0, {t})

(* Mutant: days given to the purge go before the tenant's own.             *)
PurgeDaysFirst(own, default, days, factory) ==
    IF days # FactoryPurgeDays THEN days ELSE IF own # Unset THEN own ELSE default

(* _extract_days_to_keep: the tenant's own days; else the days of the      *)
(* purge, when they were customised and the default was not.               *)
DaysToKeep(own, default, days, factory) ==
    CASE own # Unset -> own
      [] own = Unset /\ days # FactoryPurgeDays /\ default = factory -> days
      [] OTHER -> default

(* Older than now() - days: the purge starts later in the day than what    *)
(* has already happened.                                                   *)
Old(job, step, days) ==
    IF step.kind = "export"
    THEN {e \in DOMAIN exports : /\ exports[e].tenant = step.tenant
                                 /\ exports[e].requested + days <= job.started}
    ELSE {c \in callLogs : /\ TenantOf[c] = step.tenant
                           /\ Date[c] + days <= job.started}

(* Mutant: the purger of call logs leaves the files to the one of recordings. *)
FilesOfRecordings(step, old) ==
    CASE step.kind = "export" -> {e \in old : exports[e].path}
      [] step.kind = "recording" -> RecordingsOf(old)
      [] OTHER -> {}

FilesOf(step, old) ==
    IF step.kind = "export" THEN {e \in old : exports[e].path} ELSE RecordingsOf(old)

(* Mutant: the purger of recordings leaves their paths.                    *)
NoPaths(step, old) == IF step.kind = "recording" THEN {} ELSE old

RowsOf(step, old) == IF step.kind = "recording" THEN RecordingsOf(old) ELSE old

(* A purger reads the settings when it begins, then what is too old, with  *)
(* the files of it, one tenant at a time.                                  *)
PurgeReads(p) ==
    /\ purge[p].phase \in {"load", "read"}
    /\ LET job == purge[p]
           step == Head(job.steps)
           fresh == job.phase = "load"
           own == IF fresh THEN [t \in Tenant |-> OwnDays(t)[step.kind]] ELSE job.own
           default == IF fresh THEN config ELSE job.defaults
           keep == DaysToKeep(own[step.tenant], default[step.kind], job.days,
                              FactoryDays[step.kind])
           old == Old(job, step, keep) \ job.dead
       IN purge' = [purge EXCEPT
              ![p].phase = "remove",
              ![p].own = own,
              ![p].defaults = default,
              ![p].keep = keep,
              ![p].files = FilesOf(step, old),
              ![p].spared = IF keep > job.days THEN @ \cup {step} ELSE @]
    /\ UNCHANGED <<settings, today, wav, rows, exporting, deletes, jobs,
                   faults, history>>

(* The path of a recording is read when its turn comes.                    *)
PurgeRemovesFile(p, x) ==
    /\ purge[p].phase = "remove"
    /\ x \in purge[p].files
    /\ wav' = wav \ ({x} \cap path)
    /\ archive' = [e \in DOMAIN archive \ {x} |-> archive[e]]
    /\ purge' = [purge EXCEPT ![p].files = @ \ {x},
                              ![p].removed = @ \cup ({x} \cap (path \cup Export))]
    /\ UNCHANGED <<settings, today, rows, exports, task, asked, left, deletes,
                   jobs, faults, history>>

PurgeDeletesRows(p) ==
    /\ purge[p].phase = "remove"
    /\ purge[p].files = {}
    /\ LET job == purge[p]
           step == Head(job.steps)
           rest == Tail(job.steps)
           out == RowsOf(step, Old(job, step, job.keep))
       IN /\ \A q \in Purger \ {p}, row \in out : row \notin Locked(q)
          /\ purge' = [purge EXCEPT
                 ![p].dead = @ \cup out,
                 ![p].steps = rest,
                 ![p].phase = CASE rest = <<>> -> "commit"
                                [] rest # <<>> /\ Head(rest).kind = step.kind -> "read"
                                [] OTHER -> "load"]
    /\ UNCHANGED <<settings, today, wav, rows, exporting, deletes, jobs,
                   faults, history>>

(* Deleting a tenant deletes by cascade whatever still refers to it, once  *)
(* no other purge is deleting it.                                          *)
PurgeCommits(p) ==
    /\ purge[p].phase = "commit"
    /\ LET job == purge[p]
           lost == {c \in callLogs : c \in job.dead \/ TenantOf[c] \in job.gone}
           out == {e \in DOMAIN exports : e \in job.dead \/ exports[e].tenant \in job.gone}
           spared == {t \in job.gone : \A k \in {"cdr", "recording"} :
                          [kind |-> k, tenant |-> t] \in job.spared}
       IN /\ \A q \in Purger \ {p} : Locked(q) \cap (lost \cup RecordingsOf(lost) \cup out) = {}
          /\ callLogs' = callLogs \ lost
          /\ path' = path \ (job.dead \cup RecordingsOf(lost))
          /\ exports' = [e \in DOMAIN exports \ out |-> exports[e]]
          /\ stray' = stray \cup RecordingsOf({c \in lost : TenantOf[c] \in spared})
          /\ DropTenants(job.gone)
          /\ changed' = changed \cup job.gone
    /\ purge' = [purge EXCEPT ![p] = NoPurge]
    /\ UNCHANGED <<today, wav, born, archive, task, asked, left, deletes,
                   jobs, faults, revived, broken>>

(* PermissionError on a file, or the end of the program: the transaction   *)
(* is rolled back, the files are not.                                      *)
PurgeFails(p) ==
    /\ purge[p] # NoPurge
    /\ Fault
    /\ broken' = broken \cup purge[p].removed
    /\ purge' = [purge EXCEPT ![p] = NoPurge]
    /\ UNCHANGED <<settings, today, wav, rows, exporting, deletes, jobs,
                   stray, revived, changed>>

-----------------------------------------------------------------------------
WorkerStep(e) ==
    \/ StartTask(e)
    \/ \E r \in Recording : WriteRecording(e, r) \/ WriteFails(e, r)
    \/ FinishTask(e)

PurgeStep(p) ==
    \/ PurgeReads(p)
    \/ \E x \in Recording \cup Export : PurgeRemovesFile(p, x)
    \/ PurgeDeletesRows(p)
    \/ PurgeCommits(p)

MediaNext ==
    \/ Midnight
    \/ ChangeSettings
    \/ \E c \in CallLog : CreateCallLog(c)
    \/ \E C \in SUBSET CallLog : Regenerate(C)
    \/ \E since \in 0..LastDay : DeleteCallLogs(since)
    \/ \E d \in Delete : \/ \E R \in SUBSET Recording : RequestDelete(d, R)
                        \/ \E r \in Recording : DeleteMediaPath(d, r)
                        \/ DeleteMediaFile(d)
                        \/ DeleteMediaFails(d)
    \/ \E e \in Export : \/ \E t \in Tenant, C \in SUBSET CallLog : RequestExport(e, t, C)
                        \/ SendTask(e) \/ LoseTask(e) \/ WorkerStep(e)
    \/ \E kind \in Kind, days \in PurgeDays : "cron" \in Purger /\ PurgeKind(kind, days)
    \/ \E p \in Purger : \/ \E t \in Tenant : RemoveTenant(p, t)
                        \/ PurgeStep(p) \/ PurgeFails(p)

(* A request sends its task, the worker runs, a purge goes on unless it is *)
(* interrupted.                                                            *)
MediaFairness ==
    /\ \A e \in Export : WF_mediaVars(SendTask(e)) /\ WF_mediaVars(WorkerStep(e))
    /\ \A p \in Purger : WF_mediaVars(PurgeStep(p))

MediaSpec == MediaInit /\ [][MediaNext]_mediaVars /\ MediaFairness

-----------------------------------------------------------------------------
MediaTypeOK ==
    /\ SettingsTypeOK
    /\ today \in 0..LastDay
    /\ callLogs \subseteq born /\ born \subseteq CallLog
    /\ {TenantOf[c] : c \in callLogs} \subseteq tenants
    /\ path \subseteq RecordingsOf(callLogs)
    /\ wav \subseteq RecordingsOf(born)
    /\ \A e \in DOMAIN exports : /\ exports[e].status \in Status
                                 /\ exports[e].tenant \in tenants
    /\ task \in [Export -> TaskState]
    /\ \A p \in Purger : purge[p].phase \in {"none", "load", "read", "remove", "commit"}

(* A recording that the API lists as available has its file, but for those *)
(* a purge has removed and not committed, or did before it was interrupted,*)
(* and for those listed again by a later generation of their call log when *)
(* the file had gone, or was about to with a DELETE that had read the row  *)
(* before; no order of deletions, generations and purges loses another.    *)
AvailableMediaIsServed ==
    \A r \in path : \/ MediaAnswer(r) = "served"
                    \/ r \in broken \cup revived
                    \/ \E p \in Purger : r \in purge[p].removed

(* A recording file without a path is one a request is about to remove, or *)
(* one that is known to stay behind: its removal failed, its call log was  *)
(* deleted by the command or by a generation that has not created it again,*)
(* or generated while a purge was deleting rows, or its tenant went while  *)
(* retention days spared it.                                               *)
NoOrphanFile ==
    wav \subseteq path \cup stray \cup UNION {deletes[d].removing : d \in Delete}

(* An archive is downloaded only when it holds every recording asked for,  *)
(* and an export that finished can be downloaded until a purge takes it.   *)
DownloadServesWholeArchive ==
    \A e \in DOMAIN exports :
        /\ DownloadAnswer(e) = "served" => archive[e] = asked[e]
        /\ exports[e].status = "finished" =>
               \/ DownloadAnswer(e) = "served"
               \/ e \in broken
               \/ \E p \in Purger : e \in purge[p].removed

(* No purge removes the recording of a tenant that is younger than both    *)
(* what the tenant keeps its call logs for and what it keeps recordings    *)
(* for: its own days or, without them, the shorter of the default and of   *)
(* the days of the purge, unless the days changed while the purge ran.     *)
KeptDays(p, t, kind) ==
    CASE OwnDays(t)[kind] # Unset -> OwnDays(t)[kind]
      [] config[kind] <= purge[p].days /\ OwnDays(t)[kind] = Unset -> config[kind]
      [] OTHER -> purge[p].days

TenantRetentionRespected ==
    [][\A p \in Purger :
          purge[p] # NoPurge /\ purge'[p] # NoPurge =>
              \A r \in Recording \cap (purge'[p].removed \ purge[p].removed) :
                  LET t == TenantOf[CallOf[r]]
                      age == today - Date[CallOf[r]]
                  IN \/ t \in changed
                     \/ \E kind \in {"cdr", "recording"} : age >= KeptDays(p, t, kind)]_mediaVars

(* Every export ends up finished, in error or deleted, whatever happens to *)
(* its recordings, unless its task was lost with the daemon or the worker. *)
ExportSettles ==
    \A e \in Export :
        e \in DOMAIN exports ~>
            \/ e \notin DOMAIN exports
            \/ exports[e].status \in {"finished", "error"}
            \/ task[e] = "lost"
=============================================================================
