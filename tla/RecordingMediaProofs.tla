------------------------- MODULE RecordingMediaProofs -------------------------
(***************************************************************************)
(* Proofs about RecordingMedia: available recordings have their files,     *)
(* files have a path, archives are whole and purges respect the days to    *)
(* keep, for any tenants, call logs and requests.                          *)
(***************************************************************************)
EXTENDS RecordingMedia, RetentionSettingsProofs, FiniteSetTheorems, SequenceTheorems

-----------------------------------------------------------------------------
(***************************************************************************)
(* The inductive invariant.  Rows, files and requests come first.          *)
(***************************************************************************)
RowsShape ==
    /\ SettingsInv
    /\ IsFiniteSet(tenants)
    /\ today \in 0..LastDay
    /\ callLogs \subseteq born /\ born \subseteq CallLog
    /\ \A c \in born : Date[c] <= today
    /\ \A c \in callLogs : TenantOf[c] \in tenants
    /\ path \subseteq RecordingsOf(callLogs)
    /\ wav \subseteq RecordingsOf(born)

DeleteRequest ==
    [todo : SUBSET Recording, seen : SUBSET Recording, outdated : SUBSET Recording,
     removing : SUBSET Recording]

(* What a request is about to remove has no path any more, and what was    *)
(* not there when it began has none since, unless the call log was created *)
(* again: then its file is known to be lost.                               *)
DeletesSound ==
    /\ deletes \in [Delete -> DeleteRequest]
    /\ \A d \in Delete :
           /\ deletes[d].todo \cup deletes[d].removing \subseteq RecordingsOf(born)
           /\ deletes[d].removing \cap path \subseteq revived
           /\ (deletes[d].todo \ deletes[d].seen) \cap path \subseteq deletes[d].outdated
           /\ deletes[d].todo \cap deletes[d].seen \cap deletes[d].outdated \subseteq revived

ExportRow == [tenant : Tenant, requested : Nat, status : Status, path : BOOLEAN]

ExportsShape ==
    /\ DOMAIN exports \subseteq Export
    /\ \A e \in DOMAIN exports : exports[e] \in ExportRow /\ exports[e].tenant \in tenants
    /\ DOMAIN archive \subseteq Export
    /\ task \in [Export -> TaskState]
    /\ asked \in [Export -> SUBSET Recording]
    /\ left \in [Export -> SUBSET Recording]

(* A running task has written all but what is left, and only a finished    *)
(* one has an archive to show.                                             *)
ArchivesWhole ==
    \A e \in DOMAIN exports :
        /\ exports[e].path => task[e] = "done"
        /\ exports[e].status = "finished" => task[e] = "done"
        /\ task[e] = "running" =>
               e \in DOMAIN archive /\ archive[e] \cup left[e] = asked[e]
        /\ exports[e].status = "finished" /\ e \in DOMAIN archive => archive[e] = asked[e]
        /\ exports[e].status = "finished" =>
               \/ e \in DOMAIN archive \cup broken
               \/ \E p \in Purger : e \in purge[p].removed

FilesServed ==
    path \subseteq wav \cup broken \cup revived \cup UNION {purge[p].removed : p \in Purger}

(***************************************************************************)
(* A purge that runs.                                                      *)
(***************************************************************************)
PurgeTask == [kind : Kind, tenant : Tenant]

Deletable == CallLog \cup Recording \cup Export

PurgeJob ==
    [phase : {"load", "read", "remove", "commit"}, steps : Seq(PurgeTask), days : Nat,
     gone : SUBSET Tenant, started : Nat, own : [Tenant -> Nat \cup {Unset}],
     defaults : [Kind -> Nat], keep : Nat, files : SUBSET (Recording \cup Export),
     removed : SUBSET (Recording \cup Export), dead : SUBSET Deletable,
     spared : SUBSET PurgeTask]

Remaining(job) == {job.steps[i] : i \in DOMAIN job.steps}

(* What the purger at work deletes, of call logs and of exports.           *)
OldCall(job, c) ==
    /\ Head(job.steps).kind # "export"
    /\ TenantOf[c] = Head(job.steps).tenant
    /\ Date[c] + job.keep <= job.started

OldExport(job, e) ==
    /\ Head(job.steps).kind = "export"
    /\ exports[e].tenant = Head(job.steps).tenant
    /\ exports[e].requested + job.keep <= job.started

(* Its file has gone, its path has, or it is known to stay behind.         *)
Settled(r) == r \notin wav \/ r \notin path \/ r \in stray

PurgeShape(p) ==
    LET job == purge[p] IN
    /\ job \in PurgeJob
    /\ job.started <= today
    /\ job.gone # {} => job.days = 0
    /\ job.phase = "commit" <=> job.steps = <<>>
    /\ job.dead \cap CallLog \subseteq born
    /\ \A r \in job.dead \cap Recording : CallOf[r] \in born
    /\ \A c \in callLogs : Date[c] <= job.started \/ RecordingsOf({c}) \subseteq stray

FilesAreOld(p) ==
    LET job == purge[p] IN
    \A x \in job.files :
        /\ job.phase = "remove"
        /\ x \in Recording => CallOf[x] \in born /\ OldCall(job, CallOf[x])
        /\ x \in Export => task[x] = "done" /\ (x \in DOMAIN exports => OldExport(job, x))

(* Whatever a purge has removed, its commit deletes, but for what was      *)
(* created again.                                                          *)
RemovedIsDeleted(p) ==
    LET job == purge[p] IN
    \A x \in job.removed :
        /\ x \in Recording =>
               /\ CallOf[x] \in born /\ x \notin wav
               /\ \/ x \in Locked(p) \cup revived
                  \/ CallOf[x] \notin callLogs
                  \/ job.phase = "remove" /\ OldCall(job, CallOf[x])
        /\ x \in Export =>
               /\ task[x] = "done"
               /\ \/ x \in job.dead
                  \/ x \notin DOMAIN exports
                  \/ job.phase = "remove" /\ OldExport(job, x)

(* Whatever a commit deletes has no file left, or a path no more.          *)
DeletedIsSettled(p) ==
    LET job == purge[p] IN
    /\ \A r \in Recording \cap Locked(p) : Settled(r)
    /\ job.phase = "remove" =>
           \A r \in RecordingsOf(callLogs) :
               OldCall(job, CallOf[r]) =>
                   r \in job.files \/ Settled(r) \/ CallOf[r] \in job.dead

(* So has what a tenant leaves, but for what its days to keep spared.      *)
GoneIsSettled(p) ==
    LET job == purge[p] IN
    /\ job.phase = "remove" /\ Head(job.steps) \notin job.spared => job.keep <= job.days
    /\ \A t \in job.gone, k \in {"cdr", "recording"} :
           LET step == [kind |-> k, tenant |-> t] IN
           \/ step \in job.spared \cup Remaining(job)
           \/ \A r \in RecordingsOf(callLogs) : TenantOf[CallOf[r]] = t => Settled(r)

(* The days a purger has read are still those of the tenant.               *)
DaysAreKept(p) ==
    LET job == purge[p]
        step == Head(job.steps)
    IN  /\ job.phase \in {"read", "remove"} =>
               \A t \in Tenant \ changed :
                   job.own[t] = OwnDays(t)[step.kind] /\ job.defaults = config
        /\ job.phase = "remove" =>
               job.keep = DaysToKeep(job.own[step.tenant], job.defaults[step.kind],
                                     job.days, FactoryDays[step.kind])

PurgeSound(p) ==
    /\ PurgeShape(p)
    /\ FilesAreOld(p)
    /\ RemovedIsDeleted(p)
    /\ DeletedIsSettled(p)
    /\ GoneIsSettled(p)
    /\ DaysAreKept(p)

PurgesSound ==
    /\ DOMAIN purge = Purger
    /\ \A p \in Purger : purge[p] = NoPurge \/ PurgeSound(p)

MediaInv ==
    /\ RowsShape
    /\ DeletesSound
    /\ ExportsShape
    /\ ArchivesWhole
    /\ FilesServed
    /\ NoOrphanFile
    /\ PurgesSound

-----------------------------------------------------------------------------
(***************************************************************************)
(* What a step of the others may do to a purge in progress: whatever is    *)
(* new stays behind, and the days it has read are as they were or known to *)
(* have changed.                                                           *)
(***************************************************************************)
SameJob(job, now) ==
    /\ job \in PurgeJob => now \in PurgeJob
    /\ now.phase = job.phase /\ now.steps = job.steps /\ now.days = job.days
    /\ now.gone = job.gone /\ now.started = job.started /\ now.own = job.own
    /\ now.defaults = job.defaults /\ now.keep = job.keep /\ now.removed = job.removed
    /\ now.dead = job.dead /\ now.spared = job.spared
    /\ now.files \subseteq job.files

Undisturbed(p) ==
    /\ SameJob(purge[p], purge'[p])
    /\ \A x \in purge[p].files \ purge'[p].files : x \in stray'
    /\ today <= today'
    /\ born \subseteq born' /\ stray \subseteq stray' /\ revived \subseteq revived'
    /\ \A r \in Recording : r \in wav' => r \in wav \cup stray'
    /\ \A r \in Recording : CallOf[r] \in born /\ r \in wav' => r \in wav
    /\ \A r \in Recording : r \in path' => r \in path \cup stray'
    /\ \A r \in RecordingsOf(callLogs' \ callLogs) : r \in stray' /\ r \in wav' \cup revived'
    /\ \A e \in Export : task[e] = "done" =>
           /\ task'[e] = "done"
           /\ e \in DOMAIN exports' =>
                  /\ e \in DOMAIN exports
                  /\ exports'[e].tenant = exports[e].tenant
                  /\ exports'[e].requested = exports[e].requested
    /\ \A t \in Tenant \ changed' :
           t \notin changed /\ OwnDays(t)' = OwnDays(t) /\ config' = config

LEMMA UndisturbedStaysSound ==
    ASSUME MediaInv, NEW p \in Purger, PurgeSound(p), Undisturbed(p), today' \in Nat,
           callLogs' \subseteq CallLog
    PROVE  PurgeSound(p)'
<1> DEFINE job == purge[p]
           now == purge'[p]
<1>1. /\ today \in Nat /\ today <= today'
      /\ born \subseteq born' /\ stray \subseteq stray' /\ revived \subseteq revived'
      /\ \A r \in Recording : CallOf[r] \in born /\ r \in wav' => r \in wav
      /\ \A r \in RecordingsOf(callLogs' \ callLogs) : r \in stray' /\ r \in wav' \cup revived'
      /\ callLogs \subseteq born
  <2>1. today \in Nat
    BY MediaAssumption DEF MediaInv, RowsShape
  <2> QED BY <2>1 DEF Undisturbed, MediaInv, RowsShape
<1>2. \A r \in Recording : Settled(r) => Settled(r)'
  BY DEF Undisturbed, Settled
<1>3. ASSUME NEW r \in Recording, CallOf[r] \in callLogs'
      PROVE  CallOf[r] \in callLogs \/ (Settled(r)' /\ r \in wav' \cup revived')
  BY <1>1, <1>3 DEF RecordingsOf, Settled
<1>4. /\ now \in PurgeJob
      /\ now.phase = job.phase /\ now.steps = job.steps /\ now.days = job.days
      /\ now.gone = job.gone /\ now.started = job.started /\ now.own = job.own
      /\ now.defaults = job.defaults /\ now.keep = job.keep /\ now.removed = job.removed
      /\ now.dead = job.dead /\ now.spared = job.spared
      /\ now.files \subseteq job.files
      /\ \A x \in job.files \ now.files : x \in stray'
  BY DEF Undisturbed, SameJob, PurgeSound, PurgeShape
<1>5. \A c : OldCall(job, c)' <=> OldCall(job, c)
  BY <1>4 DEF OldCall
<1>6. ASSUME NEW e \in Export, task[e] = "done"
      PROVE  /\ task'[e] = "done"
             /\ e \in DOMAIN exports' =>
                    e \in DOMAIN exports /\ (OldExport(job, e)' <=> OldExport(job, e))
  BY <1>4, <1>6 DEF Undisturbed, OldExport
<1>7. Locked(p)' = Locked(p)
  BY <1>4 DEF Locked, RecordingsOf
<1>8. PurgeShape(p)'
  <2>1. \A c \in callLogs' : Date[c] <= job.started \/ RecordingsOf({c}) \subseteq stray'
    BY <1>1 DEF PurgeSound, PurgeShape, RecordingsOf
  <2>2. job.started \in Nat /\ job.started <= today'
    BY <1>1 DEF PurgeSound, PurgeShape, PurgeJob
  <2> QED BY <1>1, <1>4, <2>1, <2>2 DEF PurgeSound, PurgeShape
<1>9. FilesAreOld(p)'
  BY <1>1, <1>4, <1>5, <1>6 DEF PurgeSound, FilesAreOld
<1>10. RemovedIsDeleted(p)'
  <2> SUFFICES ASSUME NEW x \in job.removed
               PROVE  /\ x \in Recording =>
                             /\ CallOf[x] \in born' /\ x \notin wav'
                             /\ \/ x \in Locked(p)' \cup revived'
                                \/ CallOf[x] \notin callLogs'
                                \/ now.phase = "remove" /\ OldCall(job, CallOf[x])'
                      /\ x \in Export =>
                             /\ task'[x] = "done"
                             /\ \/ x \in now.dead
                                \/ x \notin DOMAIN exports'
                                \/ now.phase = "remove" /\ OldExport(job, x)'
    BY <1>4 DEF RemovedIsDeleted
  <2>1. CASE x \in Recording
    <3>1. CallOf[x] \in born' /\ x \notin wav'
      BY <1>1, <2>1 DEF PurgeSound, RemovedIsDeleted
    <3>2. CallOf[x] \in callLogs' /\ CallOf[x] \notin callLogs => x \in revived'
      BY <1>3, <2>1, <3>1
    <3>3. \/ x \in Locked(p) \cup revived
          \/ CallOf[x] \notin callLogs
          \/ job.phase = "remove" /\ OldCall(job, CallOf[x])
      BY <2>1 DEF PurgeSound, RemovedIsDeleted
    <3>4. x \notin Export
      BY <2>1, MediaAssumption
    <3> QED BY <1>1, <1>4, <1>5, <1>7, <3>1, <3>2, <3>3, <3>4
  <2>2. CASE x \in Export
    <3>1. x \notin Recording
      BY <2>2, MediaAssumption
    <3> QED BY <1>4, <1>6, <2>2, <3>1 DEF PurgeSound, RemovedIsDeleted
  <2> QED BY <2>1, <2>2
<1>11. DeletedIsSettled(p)'
  BY <1>1, <1>2, <1>3, <1>4, <1>5, <1>7
     DEF PurgeSound, DeletedIsSettled, RecordingsOf, Settled
<1>12. GoneIsSettled(p)'
  BY <1>1, <1>2, <1>3, <1>4 DEF PurgeSound, GoneIsSettled, RecordingsOf, Remaining
<1>13. DaysAreKept(p)'
  BY <1>4 DEF PurgeSound, DaysAreKept, Undisturbed
<1> QED BY <1>8, <1>9, <1>10, <1>11, <1>12, <1>13 DEF PurgeSound

LEMMA PurgesStaySound ==
    ASSUME MediaInv, purge' = purge, RowsShape',
           \A p \in Purger : purge[p] # NoPurge => Undisturbed(p)
    PROVE  PurgesSound'
<1>1. today' \in Nat /\ callLogs' \subseteq CallLog
  BY MediaAssumption DEF RowsShape
<1>2. ASSUME NEW p \in Purger, purge[p] # NoPurge PROVE PurgeSound(p)'
  BY <1>1, <1>2, UndisturbedStaysSound DEF MediaInv, PurgesSound
<1> QED BY <1>2 DEF MediaInv, PurgesSound

(* Rows and files that a step leaves alone.                                *)
LEMMA ExportsFrame ==
    ASSUME MediaInv, UNCHANGED exporting, tenants \subseteq tenants', broken \subseteq broken',
           \A p \in Purger : purge[p].removed \subseteq purge'[p].removed \cup broken'
    PROVE  ExportsShape' /\ ArchivesWhole'
<1>1. ExportsShape'
  BY DEF MediaInv, ExportsShape, exporting
<1>2. ArchivesWhole'
  <2> SUFFICES ASSUME NEW e \in DOMAIN exports, exports[e].status = "finished"
               PROVE  \/ e \in DOMAIN archive \cup broken'
                      \/ \E p \in Purger : e \in purge'[p].removed
    BY DEF MediaInv, ArchivesWhole, exporting
  <2> QED BY DEF MediaInv, ArchivesWhole
<1> QED BY <1>1, <1>2

LEMMA MidnightKeeps == ASSUME MediaInv, Midnight PROVE MediaInv'
<1>1. today \in Nat /\ today' \in 0..LastDay /\ today <= today'
  BY MediaAssumption DEF MediaInv, RowsShape, Midnight
<1>2. UNCHANGED <<settings, wav, born, callLogs, path, exports, archive, task, asked, left,
                  deletes, purge, stray, revived, broken, changed>>
  BY DEF Midnight, rows, exporting, history
<1>3. RowsShape'
  <2>1. SettingsInv'
    BY <1>2, NoChangeKeeps DEF MediaInv, RowsShape
  <2>2. \A c \in born : Date[c] <= today'
    BY <1>1, MediaAssumption DEF MediaInv, RowsShape
  <2> QED BY <1>1, <1>2, <2>1, <2>2 DEF MediaInv, RowsShape, settings, RecordingsOf
<1>4. DeletesSound'
  BY <1>2 DEF MediaInv, DeletesSound, RecordingsOf
<1>5. ExportsShape' /\ ArchivesWhole'
  BY <1>2, ExportsFrame DEF exporting, settings
<1>6. FilesServed' /\ NoOrphanFile'
  BY <1>2 DEF MediaInv, FilesServed, NoOrphanFile
<1>7. PurgesSound'
  BY <1>1, <1>2, <1>3, PurgesStaySound DEF Undisturbed, SameJob, RecordingsOf, OwnDays, settings
<1> QED BY <1>3, <1>4, <1>5, <1>6, <1>7 DEF MediaInv

(* A change of settings tells the purges that run which tenants it changed. *)
LEMMA ChangeSettingsKeeps == ASSUME MediaInv, ChangeSettings PROVE MediaInv'
<1>1. UNCHANGED <<today, wav, born, callLogs, path, exports, archive, task, asked, left,
                  deletes, purge, stray, revived, broken>>
  BY DEF ChangeSettings, rows, exporting
<1>2. SettingsInv' /\ tenants \subseteq tenants' /\ (IsFiniteSet(tenants'))
  <2>1. SettingsInv /\ IsFiniteSet(tenants)
    BY DEF MediaInv, RowsShape
  <2>2. ASSUME NEW p \in Put, NEW t \in Tenant, NEW want \in Request,
               PutFindsOrCreates(p, t, want)
        PROVE  SettingsInv' /\ tenants \subseteq tenants' /\ IsFiniteSet(tenants')
    BY <2>1, <2>2, FindsOrCreatesKeeps, FS_AddElement DEF PutFindsOrCreates
  <2>3. ASSUME NEW file \in FileDays, UpdateDbFromConfigFile(file)
        PROVE  SettingsInv' /\ tenants' = tenants
    BY <2>1, <2>3, RestartKeeps DEF UpdateDbFromConfigFile
  <2>4. ASSUME NEW p \in Put, PutUpdates(p)
        PROVE  SettingsInv' /\ tenants' = tenants
    BY <2>1, <2>4, UpdateKeeps DEF PutUpdates
  <2> QED BY <2>1, <2>2, <2>3, <2>4 DEF ChangeSettings
<1>3. RowsShape'
  BY <1>1, <1>2 DEF MediaInv, RowsShape, RecordingsOf
<1>4. DeletesSound'
  BY <1>1 DEF MediaInv, DeletesSound, RecordingsOf
<1>5. ExportsShape' /\ ArchivesWhole'
  BY <1>1, <1>2, ExportsFrame DEF exporting
<1>6. FilesServed' /\ NoOrphanFile'
  BY <1>1 DEF MediaInv, FilesServed, NoOrphanFile
<1>7. PurgesSound'
  <2>1. ASSUME NEW p \in Purger, purge[p] # NoPurge, NEW t \in Tenant \ changed'
        PROVE  t \notin changed /\ OwnDays(t)' = OwnDays(t) /\ config' = config
    BY <2>1 DEF ChangeSettings, Purging
  <2>2. today <= today'
    BY <1>1, MediaAssumption DEF MediaInv, RowsShape
  <2> QED BY <1>1, <1>3, <2>1, <2>2, PurgesStaySound DEF Undisturbed, SameJob, RecordingsOf
<1> QED BY <1>3, <1>4, <1>5, <1>6, <1>7 DEF MediaInv

LEMMA CreateKeeps == ASSUME MediaInv, NEW c \in CallLog, CreateCallLog(c) PROVE MediaInv'
<1> DEFINE new == RecordingsOf({c})
<1>1. /\ c \notin callLogs /\ Date[c] <= today
      /\ born' = born \cup {c} /\ callLogs' = callLogs \cup {c}
      /\ path' = path \cup new
      /\ wav \subseteq wav' /\ wav' \subseteq wav \cup new /\ (c \in born => wav' = wav)
      /\ tenants' = tenants \cup {TenantOf[c]}
      /\ stray' = IF Purging THEN stray \cup new ELSE stray \ new
      /\ UNCHANGED <<retention, config, puts, overtaken, promised, today, exports, archive,
                     task, asked, left, broken, changed>>
  BY DEF CreateCallLog, exporting
<1>2. new \subseteq RecordingsOf(born') /\ RecordingsOf(born) \subseteq RecordingsOf(born')
      /\ new \subseteq Recording
  BY <1>1 DEF RecordingsOf
<1>3. RowsShape'
  <2>1. SettingsInv' /\ IsFiniteSet(tenants')
    <3>1. TenantOf[c] \in Tenant
      BY MediaAssumption
    <3>2. SettingsInv /\ IsFiniteSet(tenants)
      BY DEF MediaInv, RowsShape
    <3>3. IsFiniteSet(tenants')
      BY <1>1, <3>2, FS_AddElement
    <3> QED BY <1>1, <3>1, <3>2, <3>3 DEF SettingsInv, SettingsShape, PutsSeeTheirRow,
                PromisedSettingsInForce
  <2>2. path' \subseteq RecordingsOf(callLogs') /\ wav' \subseteq RecordingsOf(born')
    BY <1>1 DEF MediaInv, RowsShape, RecordingsOf
  <2> QED BY <1>1, <2>1, <2>2 DEF MediaInv, RowsShape
<1>4. deletes \in [Delete -> DeleteRequest]
  BY DEF MediaInv, DeletesSound
<1>5. /\ deletes' \in [Delete -> DeleteRequest]
      /\ \A d \in Delete : /\ deletes'[d].todo = deletes[d].todo
                           /\ deletes'[d].seen = deletes[d].seen
                           /\ deletes'[d].removing = deletes[d].removing
                           /\ deletes'[d].outdated = deletes[d].outdated
                                                         \cup (deletes[d].todo \cap new)
  <2> DEFINE request(d) == [deletes[d] EXCEPT !.outdated = @ \cup (deletes[d].todo \cap new)]
  <2>1. deletes' = [d \in Delete |-> request(d)]
    BY DEF CreateCallLog
  <2>2. ASSUME NEW d \in Delete
        PROVE  /\ request(d) \in DeleteRequest
               /\ request(d).todo = deletes[d].todo /\ request(d).seen = deletes[d].seen
               /\ request(d).removing = deletes[d].removing
               /\ request(d).outdated = deletes[d].outdated \cup (deletes[d].todo \cap new)
    <3>1. deletes[d] \in DeleteRequest
      BY <1>4
    <3> QED BY <1>2, <3>1 DEF DeleteRequest
  <2> HIDE DEF request
  <2> QED BY <2>1, <2>2
<1>6. /\ revived \subseteq revived'
      /\ \A r \in new : r \in wav' \cup revived'
      /\ \A r \in new, d \in Delete :
             r \in deletes[d].removing \cup (deletes[d].todo \cap deletes[d].seen) =>
                 r \in revived'
  BY DEF CreateCallLog, ToRemove
<1>7. DeletesSound'
  <2> SUFFICES ASSUME NEW d \in Delete
               PROVE  /\ deletes'[d].todo \cup deletes'[d].removing \subseteq RecordingsOf(born')
                      /\ deletes'[d].removing \cap path' \subseteq revived'
                      /\ (deletes'[d].todo \ deletes'[d].seen) \cap path'
                             \subseteq deletes'[d].outdated
                      /\ deletes'[d].todo \cap deletes'[d].seen \cap deletes'[d].outdated
                             \subseteq revived'
    BY <1>5 DEF DeletesSound
  <2>1. /\ deletes[d].todo \cup deletes[d].removing \subseteq RecordingsOf(born)
        /\ deletes[d].removing \cap path \subseteq revived
        /\ (deletes[d].todo \ deletes[d].seen) \cap path \subseteq deletes[d].outdated
        /\ deletes[d].todo \cap deletes[d].seen \cap deletes[d].outdated \subseteq revived
    BY DEF MediaInv, DeletesSound
  <2> HIDE DEF new
  <2> QED BY <1>1, <1>2, <1>5, <1>6, <2>1
<1>8. \A p \in Purger :
          purge[p] # NoPurge => /\ SameJob(purge[p], purge'[p])
                                /\ purge[p].files \ purge'[p].files \subseteq new
  <2> SUFFICES ASSUME NEW p \in Purger, purge[p] # NoPurge
               PROVE  /\ SameJob(purge[p], purge'[p])
                      /\ purge[p].files \ purge'[p].files \subseteq new
    OBVIOUS
  <2> DEFINE job == purge[p]
             now == [job EXCEPT !.files = @ \ new]
  <2>1. purge'[p] = IF job.phase = "remove" THEN now ELSE job
    BY DEF CreateCallLog
  <2>2. job \in PurgeJob
    BY DEF MediaInv, PurgesSound, PurgeSound, PurgeShape
  <2>3. SameJob(job, now) /\ job.files \ now.files \subseteq new
    BY <2>2 DEF SameJob, PurgeJob
  <2>4. SameJob(job, job)
    BY DEF SameJob
  <2> QED BY <2>1, <2>3, <2>4
<1>9. /\ DOMAIN purge' = Purger
      /\ \A p \in Purger : purge[p] = NoPurge => purge'[p] = NoPurge
  BY DEF CreateCallLog, NoPurge
<1>10. \A p \in Purger : purge'[p].removed = purge[p].removed
  BY <1>8, <1>9 DEF SameJob
<1>11. ExportsShape' /\ ArchivesWhole'
  BY <1>1, <1>10, ExportsFrame DEF exporting
<1>12. FilesServed' /\ NoOrphanFile'
  <2> HIDE DEF new
  <2>1. FilesServed'
    BY <1>1, <1>6, <1>10 DEF MediaInv, FilesServed
  <2> SUFFICES ASSUME NEW r \in wav', r \notin path', r \notin stray'
               PROVE  \E d \in Delete : r \in deletes'[d].removing
    BY <2>1 DEF NoOrphanFile
  <2>2. r \in wav /\ r \notin path /\ r \notin stray
    BY <1>1
  <2> QED BY <1>5, <2>2 DEF MediaInv, NoOrphanFile
<1>13. PurgesSound'
  <2> SUFFICES ASSUME NEW p \in Purger, purge[p] # NoPurge PROVE PurgeSound(p)'
    BY <1>9 DEF PurgesSound
  <2>1. stray' = stray \cup new
    BY <1>1 DEF Purging
  <2>2. today <= today' /\ today' \in Nat /\ callLogs' \subseteq CallLog
    BY <1>1, MediaAssumption DEF MediaInv, RowsShape
  <2>3. callLogs' \ callLogs = {c} /\ \A r \in new : r \in stray' /\ r \in wav' \cup revived'
    BY <1>1, <1>6, <2>1
  <2>4. \A r \in Recording : CallOf[r] \in born /\ r \in wav' => r \in wav
    BY <1>1 DEF RecordingsOf
  <2>5. \A t : OwnDays(t)' = OwnDays(t)
    BY <1>1 DEF OwnDays
  <2>6. \A r \in RecordingsOf(callLogs' \ callLogs) : r \in stray' /\ r \in wav' \cup revived'
    BY <2>3
  <2>7. Undisturbed(p)
    <3> HIDE DEF new
    <3> QED BY <1>1, <1>6, <1>8, <2>1, <2>2, <2>4, <2>5, <2>6 DEF Undisturbed
  <2>8. PurgeSound(p)
    BY DEF MediaInv, PurgesSound
  <2> QED BY <2>2, <2>7, <2>8, UndisturbedStaysSound
<1> QED BY <1>3, <1>7, <1>11, <1>12, <1>13 DEF MediaInv

(* A generation that starts again and the command that deletes leave the   *)
(* files behind, and the requests and purges with what they have read.     *)
LEMMA DropCallLogsKeeps ==
    ASSUME MediaInv, NEW C \in SUBSET CallLog, DropCallLogs(C)
    PROVE  MediaInv'
<1>1. /\ callLogs' = callLogs \ C
      /\ path' = path \ RecordingsOf(C)
      /\ stray' = stray \cup (RecordingsOf(C) \cap wav)
      /\ UNCHANGED <<settings, today, wav, born, exports, archive, task, asked, left,
                     deletes, purge, revived, broken, changed>>
  BY DEF DropCallLogs, exporting
<1>2. callLogs' \subseteq callLogs /\ path' \subseteq path /\ stray \subseteq stray'
  BY <1>1
<1>3. RowsShape'
  <2>1. SettingsInv'
    BY <1>1, NoChangeKeeps DEF MediaInv, RowsShape
  <2>2. path' \subseteq RecordingsOf(callLogs')
    BY <1>1 DEF MediaInv, RowsShape, RecordingsOf
  <2> QED BY <1>1, <1>2, <2>1, <2>2 DEF MediaInv, RowsShape, settings, RecordingsOf
<1>4. DeletesSound'
  BY <1>1, <1>2 DEF MediaInv, DeletesSound, RecordingsOf
<1>5. ExportsShape' /\ ArchivesWhole'
  BY <1>1, ExportsFrame DEF exporting, settings
<1>6. FilesServed' /\ NoOrphanFile'
  BY <1>1 DEF MediaInv, FilesServed, NoOrphanFile
<1>7. PurgesSound'
  <2>1. today <= today'
    BY <1>1, MediaAssumption DEF MediaInv, RowsShape
  <2> QED BY <1>1, <1>2, <1>3, <2>1, PurgesStaySound
          DEF Undisturbed, SameJob, RecordingsOf, OwnDays, settings
<1> QED BY <1>3, <1>4, <1>5, <1>6, <1>7 DEF MediaInv

(***************************************************************************)
(* The steps of DELETE requests.                                           *)
(***************************************************************************)
LEMMA RequestDeleteKeeps ==
    ASSUME MediaInv, NEW d \in Delete, NEW R \in SUBSET Recording, RequestDelete(d, R)
    PROVE  MediaInv'
<1> DEFINE request == [NoDelete EXCEPT !.todo = R, !.seen = R \cap path]
<1>1. /\ deletes[d] = NoDelete
      /\ {CallOf[r] : r \in R} \subseteq callLogs
      /\ deletes' = [deletes EXCEPT ![d] = request]
      /\ UNCHANGED <<settings, today, wav, born, callLogs, path, exports, archive, task,
                     asked, left, purge, stray, revived, broken, changed>>
  BY DEF RequestDelete, rows, exporting, history
<1>2. RowsShape'
  <2>1. SettingsInv'
    BY <1>1, NoChangeKeeps DEF MediaInv, RowsShape
  <2> QED BY <1>1, <2>1 DEF MediaInv, RowsShape, settings, RecordingsOf
<1>3. DeletesSound'
  <2>1. R \subseteq RecordingsOf(born)
    BY <1>1 DEF MediaInv, RowsShape, RecordingsOf
  <2>2. /\ request \in DeleteRequest
        /\ request.todo = R /\ request.seen = R \cap path /\ request.removing = {}
        /\ request.outdated = {}
    BY DEF NoDelete, DeleteRequest
  <2> HIDE DEF request
  <2>3. /\ deletes' \in [Delete -> DeleteRequest]
        /\ \A f \in Delete : deletes'[f] = IF f = d THEN request ELSE deletes[f]
    BY <1>1, <2>2 DEF MediaInv, DeletesSound
  <2> QED BY <1>1, <2>1, <2>2, <2>3 DEF MediaInv, DeletesSound, RecordingsOf
<1>4. ExportsShape' /\ ArchivesWhole'
  BY <1>1, ExportsFrame DEF exporting, settings
<1>5. FilesServed' /\ NoOrphanFile'
  <2>1. \A f \in Delete : deletes[f].removing \subseteq deletes'[f].removing
    BY <1>1 DEF NoDelete, MediaInv, DeletesSound
  <2> QED BY <1>1, <2>1 DEF MediaInv, FilesServed, NoOrphanFile
<1>6. PurgesSound'
  <2>1. today <= today'
    BY <1>1, MediaAssumption DEF MediaInv, RowsShape
  <2> QED BY <1>1, <1>2, <2>1, PurgesStaySound
          DEF Undisturbed, SameJob, RecordingsOf, OwnDays, settings
<1> QED BY <1>2, <1>3, <1>4, <1>5, <1>6 DEF MediaInv

(* What a DELETE does to rows and files: paths go, or files that have none. *)
LEMMA DeleteFrame ==
    ASSUME MediaInv, DeletesSound', NoOrphanFile', path' \subseteq path, wav' \subseteq wav,
           wav \cap path' \subseteq wav' \cup revived, stray \subseteq stray',
           UNCHANGED <<settings, today, born, callLogs, exports, archive, task, asked, left,
                       purge, revived, broken, changed>>
    PROVE  MediaInv'
<1>1. RowsShape'
  <2>1. SettingsInv'
    BY NoChangeKeeps DEF MediaInv, RowsShape
  <2> QED BY <2>1 DEF MediaInv, RowsShape, settings, RecordingsOf
<1>2. ExportsShape' /\ ArchivesWhole'
  BY ExportsFrame DEF exporting, settings
<1>3. FilesServed'
  BY DEF MediaInv, FilesServed
<1>4. PurgesSound'
  <2>1. today <= today'
    BY MediaAssumption DEF MediaInv, RowsShape
  <2> QED BY <1>1, <2>1, PurgesStaySound DEF Undisturbed, SameJob, RecordingsOf, OwnDays, settings
<1> QED BY <1>1, <1>2, <1>3, <1>4 DEF MediaInv

LEMMA DeleteMediaPathKeeps ==
    ASSUME MediaInv, NEW d \in Delete, NEW r \in Recording, DeleteMediaPath(d, r)
    PROVE  MediaInv'
<1>1. /\ deletes[d].removing = {} /\ r \in deletes[d].todo
      /\ path' = path \ ({r} \ deletes[d].outdated)
      /\ deletes' = [deletes EXCEPT ![d].todo = @ \ {r},
                                    ![d].removing = {r} \cap deletes[d].seen]
      /\ UNCHANGED <<settings, today, wav, born, callLogs, exports, archive, task,
                     asked, left, purge, stray, revived, broken, changed>>
  BY DEF DeleteMediaPath, exporting, history
<1>2. deletes \in [Delete -> DeleteRequest]
  BY DEF MediaInv, DeletesSound
<1>3. /\ deletes' \in [Delete -> DeleteRequest]
      /\ \A f \in Delete \ {d} : deletes'[f] = deletes[f]
      /\ deletes'[d].todo = deletes[d].todo \ {r}
      /\ deletes'[d].seen = deletes[d].seen
      /\ deletes'[d].outdated = deletes[d].outdated
      /\ deletes'[d].removing = {r} \cap deletes[d].seen
  <2> DEFINE request == [deletes[d] EXCEPT !.todo = @ \ {r},
                                           !.removing = {r} \cap deletes[d].seen]
  <2>1. deletes[d] \in DeleteRequest
    BY <1>2
  <2>2. /\ request \in DeleteRequest
        /\ request.todo = deletes[d].todo \ {r} /\ request.seen = deletes[d].seen
        /\ request.removing = {r} \cap deletes[d].seen
        /\ request.outdated = deletes[d].outdated
    BY <2>1 DEF DeleteRequest
  <2>3. deletes' = [deletes EXCEPT ![d] = request]
    BY <1>1, <1>2 DEF DeleteRequest
  <2> HIDE DEF request
  <2> QED BY <1>2, <2>2, <2>3
<1>4. DeletesSound'
  BY <1>1, <1>3 DEF MediaInv, DeletesSound, RecordingsOf
<1>5. NoOrphanFile'
  <2>1. r \in path => r \in deletes'[d].removing \cup path'
    BY <1>1, <1>3 DEF MediaInv, DeletesSound
  <2>2. \A f \in Delete : deletes[f].removing \subseteq deletes'[f].removing
    BY <1>1, <1>3
  <2> SUFFICES ASSUME NEW x \in wav, x \notin path', x \notin stray
               PROVE  \E f \in Delete : x \in deletes'[f].removing
    BY <1>1 DEF NoOrphanFile
  <2>3. CASE x = r /\ x \in path
    BY <2>1, <2>3
  <2>4. CASE x \notin path
    BY <2>2, <2>4 DEF MediaInv, NoOrphanFile
  <2> QED BY <1>1, <2>3, <2>4
<1>6. path' \subseteq path /\ wav' \subseteq wav /\ wav \cap path' \subseteq wav' \cup revived
      /\ stray \subseteq stray'
  BY <1>1
<1> QED BY <1>1, <1>4, <1>5, <1>6, DeleteFrame

LEMMA DeleteMediaFileKeeps ==
    ASSUME MediaInv, NEW d \in Delete, DeleteMediaFile(d)
    PROVE  MediaInv'
<1>1. /\ wav' = wav \ deletes[d].removing
      /\ deletes' = [deletes EXCEPT ![d].removing = {}]
      /\ UNCHANGED <<settings, today, born, callLogs, path, exports, archive, task,
                     asked, left, purge, stray, revived, broken, changed>>
  BY DEF DeleteMediaFile, rows, exporting, history
<1>2. deletes \in [Delete -> DeleteRequest]
  BY DEF MediaInv, DeletesSound
<1>3. /\ deletes' \in [Delete -> DeleteRequest]
      /\ \A f \in Delete \ {d} : deletes'[f] = deletes[f]
      /\ deletes'[d].todo = deletes[d].todo
      /\ deletes'[d].seen = deletes[d].seen
      /\ deletes'[d].outdated = deletes[d].outdated
      /\ deletes'[d].removing = {}
  BY <1>1, <1>2 DEF DeleteRequest
<1>4. DeletesSound'
  BY <1>1, <1>3 DEF MediaInv, DeletesSound, RecordingsOf
<1>5. NoOrphanFile'
  BY <1>1, <1>3 DEF MediaInv, NoOrphanFile
<1>6. wav \cap path' \subseteq wav' \cup revived
  BY <1>1 DEF MediaInv, DeletesSound
<1> QED BY <1>1, <1>4, <1>5, <1>6, DeleteFrame

LEMMA DeleteMediaFailsKeeps ==
    ASSUME MediaInv, NEW d \in Delete, DeleteMediaFails(d)
    PROVE  MediaInv'
<1>1. /\ stray' = stray \cup (deletes[d].removing \cap wav)
      /\ deletes' = [deletes EXCEPT ![d] = NoDelete]
      /\ UNCHANGED <<settings, today, wav, born, callLogs, path, exports, archive, task,
                     asked, left, purge, revived, broken, changed>>
  BY DEF DeleteMediaFails, rows, exporting
<1>2. DeletesSound'
  BY <1>1 DEF MediaInv, DeletesSound, DeleteRequest, NoDelete, RecordingsOf
<1>3. NoOrphanFile'
  BY <1>1 DEF MediaInv, NoOrphanFile, DeletesSound
<1> QED BY <1>1, <1>2, <1>3, DeleteFrame

(***************************************************************************)
(* The steps of exports.  What is done stays done.                         *)
(***************************************************************************)
LEMMA ExportFrame ==
    ASSUME MediaInv, ExportsShape', ArchivesWhole',
           UNCHANGED <<settings, today, wav, born, callLogs, path, deletes, purge, stray,
                       revived, broken, changed>>,
           \A e \in Export : task[e] = "done" =>
               /\ task'[e] = "done"
               /\ e \in DOMAIN exports' =>
                      /\ e \in DOMAIN exports
                      /\ exports'[e].tenant = exports[e].tenant
                      /\ exports'[e].requested = exports[e].requested
    PROVE  MediaInv'
<1>1. RowsShape'
  <2>1. SettingsInv'
    BY NoChangeKeeps DEF MediaInv, RowsShape
  <2> QED BY <2>1 DEF MediaInv, RowsShape, settings, RecordingsOf
<1>2. DeletesSound' /\ FilesServed' /\ NoOrphanFile'
  BY DEF MediaInv, DeletesSound, FilesServed, NoOrphanFile, RecordingsOf
<1>3. PurgesSound'
  <2>1. today <= today'
    BY MediaAssumption DEF MediaInv, RowsShape
  <2> QED BY <1>1, <2>1, PurgesStaySound
          DEF Undisturbed, SameJob, RecordingsOf, OwnDays, settings
<1> QED BY <1>1, <1>2, <1>3 DEF MediaInv

LEMMA StatusSet ==
    ASSUME ExportsShape, NEW e \in Export, NEW status \in Status, SetStatus(e, status)
    PROVE  /\ DOMAIN exports' = DOMAIN exports
           /\ \A f \in DOMAIN exports :
                  /\ exports'[f] \in ExportRow
                  /\ exports'[f].tenant = exports[f].tenant
                  /\ exports'[f].requested = exports[f].requested
                  /\ f # e => exports'[f] = exports[f]
           /\ e \in DOMAIN exports =>
                  /\ exports'[e].status = status
                  /\ exports'[e].path => exports[e].path \/ status = "finished"
<1>1. DOMAIN exports' = DOMAIN exports
  BY DEF SetStatus
<1>2. ASSUME NEW f \in DOMAIN exports, f # e
      PROVE  exports'[f] = exports[f] /\ exports'[f] \in ExportRow
  BY <1>2 DEF SetStatus, ExportsShape
<1>3. ASSUME e \in DOMAIN exports
      PROVE  /\ exports'[e] \in ExportRow
             /\ exports'[e].tenant = exports[e].tenant
             /\ exports'[e].requested = exports[e].requested
             /\ exports'[e].status = status
             /\ exports'[e].path => exports[e].path \/ status = "finished"
  <2> DEFINE was == exports[e]
             row == [was EXCEPT !.status = status, !.path = @ \/ status = "finished"]
  <2>1. exports'[e] = row /\ was \in ExportRow
    BY <1>3 DEF SetStatus, ExportsShape
  <2> HIDE DEF was
  <2>2. row \in ExportRow
    BY <2>1 DEF ExportRow
  <2>3. row.tenant = was.tenant /\ row.requested = was.requested /\ row.status = status
    BY <2>1 DEF ExportRow
  <2>4. row.path = (was.path \/ status = "finished")
    BY <2>1 DEF ExportRow
  <2> QED BY <2>1, <2>2, <2>3, <2>4 DEF was
<1> QED BY <1>1, <1>2, <1>3

LEMMA RequestExportKeeps ==
    ASSUME MediaInv, NEW e \in Export, NEW t \in Tenant, NEW C \in SUBSET CallLog,
           RequestExport(e, t, C)
    PROVE  MediaInv'
<1> DEFINE row == [tenant |-> t, requested |-> today, status |-> "pending", path |-> FALSE]
<1>1. /\ task[e] = "none" /\ t \in tenants
      /\ asked' = [asked EXCEPT ![e] = RecordingsOf(C) \cap path]
      /\ task' = [task EXCEPT ![e] = "posted"]
      /\ UNCHANGED <<settings, today, wav, born, callLogs, path, archive, left, deletes,
                     purge, stray, revived, broken, changed>>
  BY DEF RequestExport, rows, history
<1>2. /\ DOMAIN exports' = DOMAIN exports \cup {e}
      /\ exports'[e] = row
      /\ \A f \in DOMAIN exports \ {e} : exports'[f] = exports[f]
  BY DEF RequestExport
<1>3. row \in ExportRow
  BY MediaAssumption DEF ExportRow, Status, MediaInv, RowsShape
<1>4. ExportsShape'
  <2>1. asked' \in [Export -> SUBSET Recording]
    BY <1>1 DEF MediaInv, ExportsShape, RecordingsOf
  <2>2. task' \in [Export -> TaskState]
    BY <1>1 DEF MediaInv, ExportsShape, TaskState
  <2>3. row.tenant = t
    OBVIOUS
  <2> HIDE DEF row
  <2>4. \A f \in DOMAIN exports' : exports'[f] \in ExportRow /\ exports'[f].tenant \in tenants
    BY <1>1, <1>2, <1>3, <2>3 DEF MediaInv, ExportsShape
  <2> QED BY <1>1, <1>2, <2>1, <2>2, <2>4 DEF MediaInv, ExportsShape, settings
<1>5. ASSUME NEW f \in Export, f # e
      PROVE  task'[f] = task[f] /\ asked'[f] = asked[f]
  BY <1>1, <1>5 DEF MediaInv, ExportsShape
<1>6. task'[e] = "posted"
  BY <1>1 DEF MediaInv, ExportsShape
<1>7. ArchivesWhole'
  <2> SUFFICES ASSUME NEW f \in DOMAIN exports', f # e
               PROVE  /\ exports[f].path => task[f] = "done"
                      /\ exports[f].status = "finished" => task[f] = "done"
                      /\ task[f] = "running" =>
                             f \in DOMAIN archive /\ archive[f] \cup left[f] = asked[f]
                      /\ exports[f].status = "finished" /\ f \in DOMAIN archive =>
                             archive[f] = asked[f]
                      /\ exports[f].status = "finished" =>
                             \/ f \in DOMAIN archive \cup broken
                             \/ \E p \in Purger : f \in purge[p].removed
    <3>1. DOMAIN exports' \subseteq Export
      BY <1>4 DEF ExportsShape
    <3> QED BY <1>1, <1>2, <1>5, <1>6, <3>1 DEF ArchivesWhole
  <2> QED BY <1>2 DEF MediaInv, ArchivesWhole
<1> QED BY <1>1, <1>2, <1>4, <1>5, <1>7, ExportFrame

LEMMA TaskMovesKeeps ==
    ASSUME MediaInv, NEW e \in Export, SendTask(e) \/ LoseTask(e)
    PROVE  MediaInv'
<1> PICK state \in {"queued", "lost"} : task' = [task EXCEPT ![e] = state]
  BY DEF SendTask, LoseTask
<1>1. /\ task[e] \in {"posted", "queued", "running"}
      /\ UNCHANGED <<settings, today, wav, born, callLogs, path, exports, archive, asked,
                     left, deletes, purge, stray, revived, broken, changed>>
  BY DEF SendTask, LoseTask, rows, history
<1>2. ExportsShape'
  <2>1. task' \in [Export -> TaskState]
    BY DEF MediaInv, ExportsShape, TaskState
  <2> QED BY <1>1, <2>1 DEF MediaInv, ExportsShape, settings
<1>3. \A f \in Export : /\ task[f] = "done" => task'[f] = "done"
                        /\ task'[f] = "running" => task[f] = "running"
  BY <1>1 DEF MediaInv, ExportsShape
<1>4. ArchivesWhole'
  BY <1>1, <1>3 DEF MediaInv, ExportsShape, ArchivesWhole
<1> QED BY <1>1, <1>2, <1>3, <1>4, ExportFrame

LEMMA StartTaskKeeps ==
    ASSUME MediaInv, NEW e \in Export, StartTask(e)
    PROVE  MediaInv'
<1>1. /\ task[e] = "queued" /\ SetStatus(e, "processing")
      /\ UNCHANGED <<settings, today, wav, born, callLogs, path, asked, deletes,
                     purge, stray, revived, broken, changed>>
  BY DEF StartTask, rows, history
<1>2. /\ DOMAIN exports' = DOMAIN exports
      /\ \A f \in DOMAIN exports :
             /\ exports'[f] \in ExportRow
             /\ exports'[f].tenant = exports[f].tenant
             /\ exports'[f].requested = exports[f].requested
             /\ f # e => exports'[f] = exports[f]
      /\ e \in DOMAIN exports =>
             /\ exports'[e].status = "processing"
             /\ exports'[e].path => exports[e].path
  BY <1>1, StatusSet DEF MediaInv, Status
<1>3. /\ task' \in [Export -> TaskState]
      /\ left' \in [Export -> SUBSET Recording]
      /\ DOMAIN archive' \subseteq Export
      /\ \A f \in Export \ {e} :
             /\ task'[f] = task[f] /\ left'[f] = left[f]
             /\ f \in DOMAIN archive' <=> f \in DOMAIN archive
             /\ f \in DOMAIN archive => archive'[f] = archive[f]
  <2>1. CASE e \in DOMAIN exports
    <3>1. /\ task' = [task EXCEPT ![e] = "running"]
          /\ left' = [left EXCEPT ![e] = asked[e]]
          /\ archive' = [f \in DOMAIN archive \cup {e} |->
                              IF f = e THEN {} ELSE archive[f]]
      BY <2>1 DEF StartTask
    <3>2. task' \in [Export -> TaskState] /\ left' \in [Export -> SUBSET Recording]
      BY <3>1 DEF MediaInv, ExportsShape, TaskState
    <3> QED BY <3>1, <3>2 DEF MediaInv, ExportsShape
  <2>2. CASE e \notin DOMAIN exports
    BY <2>2 DEF StartTask, MediaInv, ExportsShape, TaskState
  <2> QED BY <2>1, <2>2
<1>4. e \in DOMAIN exports =>
          task'[e] = "running" /\ e \in DOMAIN archive' /\ archive'[e] = {} /\ left'[e] = asked[e]
  BY DEF StartTask, MediaInv, ExportsShape
<1>5. ExportsShape'
  BY <1>1, <1>2, <1>3 DEF MediaInv, ExportsShape, settings
<1>6. ArchivesWhole'
  <2> SUFFICES ASSUME NEW f \in DOMAIN exports
               PROVE  /\ exports'[f].path => task'[f] = "done"
                      /\ exports'[f].status = "finished" => task'[f] = "done"
                      /\ task'[f] = "running" =>
                             f \in DOMAIN archive' /\ archive'[f] \cup left'[f] = asked'[f]
                      /\ exports'[f].status = "finished" /\ f \in DOMAIN archive' =>
                             archive'[f] = asked'[f]
                      /\ exports'[f].status = "finished" =>
                             \/ f \in DOMAIN archive' \cup broken'
                             \/ \E p \in Purger : f \in purge'[p].removed
    BY <1>2 DEF ArchivesWhole
  <2>1. CASE f = e
    <3>1. ~exports'[e].path
      BY <1>1, <1>2, <2>1 DEF MediaInv, ArchivesWhole
    <3> QED BY <1>1, <1>2, <1>4, <2>1, <3>1
  <2>2. CASE f # e
    BY <1>1, <1>2, <1>3, <2>2 DEF MediaInv, ArchivesWhole, ExportsShape
  <2> QED BY <2>1, <2>2
<1>7. \A f \in Export : task[f] = "done" => task'[f] = "done"
  BY <1>1, <1>3
<1> QED BY <1>1, <1>2, <1>5, <1>6, <1>7, ExportFrame

LEMMA WriteRecordingKeeps ==
    ASSUME MediaInv, NEW e \in Export, NEW r \in Recording, WriteRecording(e, r)
    PROVE  MediaInv'
<1>1. /\ task[e] = "running" /\ r \in left[e]
      /\ left' = [left EXCEPT ![e] = @ \ {r}]
      /\ UNCHANGED <<settings, today, wav, born, callLogs, path, exports, task, asked,
                     deletes, purge, stray, revived, broken, changed>>
  BY DEF WriteRecording, rows, history
<1>2. /\ DOMAIN archive' = DOMAIN archive
      /\ \A f \in DOMAIN archive :
             archive'[f] = IF f = e THEN archive[f] \cup {r} ELSE archive[f]
  BY DEF WriteRecording
<1>3. ExportsShape'
  <2>1. left' \in [Export -> SUBSET Recording]
    BY <1>1 DEF MediaInv, ExportsShape
  <2> QED BY <1>1, <1>2, <2>1 DEF MediaInv, ExportsShape, settings
<1>4. ArchivesWhole'
  <2>1. ASSUME NEW f \in DOMAIN exports, task[f] = "running"
        PROVE  f \in DOMAIN archive /\ archive'[f] \cup left'[f] = asked[f]
    <3>1. f \in DOMAIN archive /\ archive[f] \cup left[f] = asked[f]
      BY <2>1 DEF MediaInv, ArchivesWhole
    <3>2. f \in Export /\ left \in [Export -> SUBSET Recording]
      BY DEF MediaInv, ExportsShape
    <3>3. CASE f = e
      BY <1>1, <1>2, <3>1, <3>2, <3>3
    <3>4. CASE f # e
      BY <1>1, <1>2, <3>1, <3>2, <3>4
    <3> QED BY <3>3, <3>4
  <2>2. ASSUME NEW f \in DOMAIN exports, exports[f].status = "finished", f \in DOMAIN archive
        PROVE  archive'[f] = asked[f]
    <3>1. f # e
      BY <1>1, <2>2 DEF MediaInv, ArchivesWhole
    <3> QED BY <1>2, <2>2, <3>1 DEF MediaInv, ArchivesWhole
  <2> QED BY <1>1, <1>2, <2>1, <2>2 DEF MediaInv, ArchivesWhole
<1> QED BY <1>1, <1>3, <1>4, ExportFrame

(* A task that ends: in error, or finished with nothing left to write.     *)
LEMMA TaskEndsKeeps ==
    ASSUME MediaInv, NEW e \in Export,
           FinishTask(e) \/ \E r \in Recording : WriteFails(e, r)
    PROVE  MediaInv'
<1> PICK status \in {"finished", "error"} :
         SetStatus(e, status) /\ (status = "finished" => left[e] = {})
  BY DEF FinishTask, WriteFails
<1>1. /\ task[e] = "running" /\ task' = [task EXCEPT ![e] = "done"]
      /\ left' = left \/ left' = [left EXCEPT ![e] = {}]
      /\ UNCHANGED <<settings, today, wav, born, callLogs, path, archive, asked, deletes,
                     purge, stray, revived, broken, changed>>
  BY DEF FinishTask, WriteFails, rows, history
<1>2. /\ DOMAIN exports' = DOMAIN exports
      /\ \A f \in DOMAIN exports :
             /\ exports'[f] \in ExportRow
             /\ exports'[f].tenant = exports[f].tenant
             /\ exports'[f].requested = exports[f].requested
             /\ f # e => exports'[f] = exports[f]
      /\ e \in DOMAIN exports => exports'[e].status = status
  BY StatusSet DEF MediaInv, Status
<1>3. /\ task' \in [Export -> TaskState] /\ left' \in [Export -> SUBSET Recording]
      /\ task'[e] = "done"
      /\ \A f \in Export \ {e} : task'[f] = task[f] /\ left'[f] = left[f]
  BY <1>1 DEF MediaInv, ExportsShape, TaskState
<1>4. ExportsShape'
  BY <1>1, <1>2, <1>3 DEF MediaInv, ExportsShape, settings
<1>5. ArchivesWhole'
  <2> SUFFICES ASSUME NEW f \in DOMAIN exports
               PROVE  /\ exports'[f].path => task'[f] = "done"
                      /\ exports'[f].status = "finished" => task'[f] = "done"
                      /\ task'[f] = "running" =>
                             f \in DOMAIN archive /\ archive[f] \cup left'[f] = asked[f]
                      /\ exports'[f].status = "finished" /\ f \in DOMAIN archive =>
                             archive[f] = asked[f]
                      /\ exports'[f].status = "finished" =>
                             \/ f \in DOMAIN archive \cup broken
                             \/ \E p \in Purger : f \in purge[p].removed
    BY <1>1, <1>2 DEF ArchivesWhole
  <2>1. CASE f = e
    <3>1. e \in DOMAIN archive /\ archive[e] \cup left[e] = asked[e]
      BY <1>1, <2>1 DEF MediaInv, ArchivesWhole
    <3> QED BY <1>2, <1>3, <2>1, <3>1
  <2>2. CASE f # e
    BY <1>2, <1>3, <2>2 DEF MediaInv, ArchivesWhole, ExportsShape
  <2> QED BY <2>1, <2>2
<1>6. \A f \in Export : task[f] = "done" => task'[f] = "done"
  BY <1>1, <1>3
<1> QED BY <1>1, <1>2, <1>4, <1>5, <1>6, ExportFrame

LEMMA ExportStepKeeps ==
    ASSUME MediaInv, NEW e \in Export, WorkerStep(e)
    PROVE  MediaInv'
BY StartTaskKeeps, WriteRecordingKeeps, TaskEndsKeeps DEF WorkerStep

-----------------------------------------------------------------------------
(***************************************************************************)
(* The steps of purges and of the removal of tenants.  Each leaves the     *)
(* other purges undisturbed.                                               *)
(***************************************************************************)
LEMMA OnePurgeSteps ==
    ASSUME MediaInv, RowsShape', NEW p \in Purger, DOMAIN purge' = Purger,
           purge'[p] = NoPurge \/ PurgeSound(p)',
           \A q \in Purger \ {p} :
               purge'[q] = purge[q] /\ (purge[q] # NoPurge => Undisturbed(q))
    PROVE  PurgesSound'
<1>2. today' \in Nat /\ callLogs' \subseteq CallLog
  BY MediaAssumption DEF RowsShape
<1>3. ASSUME NEW q \in Purger \ {p}, purge[q] # NoPurge PROVE PurgeSound(q)'
  BY <1>2, <1>3, UndisturbedStaysSound DEF MediaInv, PurgesSound
<1> QED BY <1>3 DEF PurgesSound

(* What purges do to the rest when they do not commit.                     *)
LEMMA PurgeFrame ==
    ASSUME MediaInv, PurgesSound', wav' \subseteq wav,
           UNCHANGED <<settings, today, born, callLogs, path, exports, task, asked, left,
                       deletes, stray, revived>>,
           DOMAIN archive' \subseteq DOMAIN archive,
           \A e \in DOMAIN archive' : archive'[e] = archive[e],
           \A e \in DOMAIN archive \ DOMAIN archive' : e \in DOMAIN exports =>
               task[e] = "done" /\ \E p \in Purger : e \in purge'[p].removed,
           \A r \in path \cap wav : r \in wav' \/ \E p \in Purger : r \in purge'[p].removed,
           broken \subseteq broken',
           \A p \in Purger : purge[p].removed \subseteq purge'[p].removed \cup broken'
    PROVE  MediaInv'
<1>1. RowsShape'
  <2>1. SettingsInv'
    BY NoChangeKeeps DEF MediaInv, RowsShape
  <2> QED BY <2>1 DEF MediaInv, RowsShape, settings, RecordingsOf
<1>2. DeletesSound' /\ NoOrphanFile'
  BY DEF MediaInv, DeletesSound, NoOrphanFile, RecordingsOf
<1>3. FilesServed'
  BY DEF MediaInv, FilesServed
<1>4. ExportsShape'
  BY DEF MediaInv, ExportsShape, settings
<1>5. ArchivesWhole'
  <2>1. ASSUME NEW e \in DOMAIN exports, exports[e].status = "finished"
        PROVE  \/ e \in DOMAIN archive' \cup broken'
               \/ \E p \in Purger : e \in purge'[p].removed
    BY <2>1 DEF MediaInv, ArchivesWhole
  <2>2. \A e \in DOMAIN exports :
            task[e] = "running" /\ e \in DOMAIN archive => e \in DOMAIN archive'
    OBVIOUS
  <2> QED BY <2>1, <2>2 DEF MediaInv, ArchivesWhole
<1> QED BY <1>1, <1>2, <1>3, <1>4, <1>5 DEF MediaInv

LEMMA BeginKeeps ==
    ASSUME MediaInv, NEW p \in Purger, NEW steps \in Seq(PurgeTask), steps # <<>>,
           NEW days \in Nat, NEW gone \in SUBSET Tenant, gone # {} => days = 0,
           \A t \in gone, k \in {"cdr", "recording"} :
               [kind |-> k, tenant |-> t] \in {steps[i] : i \in DOMAIN steps},
           Begin(p, steps, days, gone)
    PROVE  MediaInv'
<1> DEFINE job == [phase |-> "load", steps |-> steps, days |-> days, gone |-> gone,
                   started |-> today, own |-> [t \in Tenant |-> Unset], defaults |-> config,
                   keep |-> 0, files |-> {}, removed |-> {}, dead |-> {}, spared |-> {}]
<1>1. /\ purge[p] = NoPurge
      /\ purge' = [purge EXCEPT ![p] = job]
      /\ changed' = IF Purging THEN changed ELSE {}
      /\ UNCHANGED <<settings, today, wav, born, callLogs, path, exports, archive, task,
                     asked, left, deletes, stray, revived, broken>>
  BY DEF Begin, rows, exporting
<1>2. /\ purge'[p] = job /\ DOMAIN purge = Purger
      /\ \A q \in Purger \ {p} : purge'[q] = purge[q]
  BY <1>1 DEF MediaInv, PurgesSound
<1>3. today \in Nat /\ config \in [Kind -> Nat]
  BY MediaAssumption DEF MediaInv, RowsShape, SettingsInv, SettingsShape
<1>4. RowsShape'
  <2>1. SettingsInv'
    BY <1>1, NoChangeKeeps DEF MediaInv, RowsShape
  <2> QED BY <1>1, <2>1 DEF MediaInv, RowsShape, settings, RecordingsOf
<1>5. job \in PurgeJob
  <2>1. [t \in Tenant |-> Unset] \in [Tenant -> Nat \cup {Unset}]
    OBVIOUS
  <2> QED BY <1>3, <2>1 DEF PurgeJob
<1>6. PurgeSound(p)'
  <2>1. PurgeShape(p)'
    BY <1>1, <1>2, <1>3, <1>5 DEF PurgeShape, MediaInv, RowsShape
  <2>2. FilesAreOld(p)' /\ RemovedIsDeleted(p)' /\ DeletedIsSettled(p)' /\ DaysAreKept(p)'
    BY <1>2 DEF FilesAreOld, RemovedIsDeleted, DeletedIsSettled, DaysAreKept, Locked,
                RecordingsOf
  <2>3. GoneIsSettled(p)'
    BY <1>2 DEF GoneIsSettled, Remaining
  <2> QED BY <2>1, <2>2, <2>3 DEF PurgeSound
<1>7. PurgesSound'
  <2>1. today <= today'
    BY <1>1, <1>3
  <2>2. ASSUME NEW q \in Purger \ {p}, purge[q] # NoPurge PROVE Undisturbed(q)
    BY <1>1, <1>2, <2>1, <2>2 DEF Undisturbed, SameJob, RecordingsOf, OwnDays, settings, Purging
  <2>3. DOMAIN purge' = Purger
    BY <1>1, <1>2
  <2> QED BY <1>2, <1>4, <1>6, <2>2, <2>3, OnePurgeSteps
<1>8. \A q \in Purger : purge[q].removed \subseteq purge'[q].removed
  BY <1>1, <1>2 DEF NoPurge
<1> QED BY <1>1, <1>7, <1>8, PurgeFrame

LEMMA PurgeKindKeeps ==
    ASSUME MediaInv, "cron" \in Purger, NEW kind \in Kind, NEW days \in PurgeDays,
           PurgeKind(kind, days)
    PROVE  MediaInv'
<1>1. PICK order \in SetToSeqs(tenants) :
          Begin("cron", [i \in DOMAIN order |-> [kind |-> kind, tenant |-> order[i]]], days, {})
  BY DEF PurgeKind
<1>2. IsFiniteSet(tenants) /\ tenants \subseteq Tenant /\ tenants # {}
  BY DEF PurgeKind, MediaInv, RowsShape, SettingsInv, SettingsShape
<1>3. Cardinality(tenants) \in Nat /\ Cardinality(tenants) # 0
  BY <1>2, FS_CardinalityType, FS_EmptySet
<1>4. order \in [1..Cardinality(tenants) -> tenants]
  BY DEF SetToSeqs
<1> DEFINE steps == [i \in DOMAIN order |-> [kind |-> kind, tenant |-> order[i]]]
<1>5. steps \in [1..Cardinality(tenants) -> PurgeTask]
  BY <1>2, <1>4 DEF PurgeTask
<1>6. Begin("cron", steps, days, {})
  BY <1>1
<1> HIDE DEF steps
<1>7. steps \in Seq(PurgeTask) /\ steps # <<>>
  BY <1>3, <1>5
<1>8. days \in Nat
  BY MediaAssumption
<1> QED BY <1>6, <1>7, <1>8, BeginKeeps

LEMMA RemoveTenantKeeps ==
    ASSUME MediaInv, NEW p \in Purger, NEW t \in Tenant, RemoveTenant(p, t)
    PROVE  MediaInv'
<1> DEFINE steps == <<[kind |-> "cdr", tenant |-> t], [kind |-> "export", tenant |-> t],
                      [kind |-> "recording", tenant |-> t]>>
<1>1. steps \in Seq(PurgeTask) /\ steps # <<>>
  BY DEF PurgeTask, Kind
<1>2. \A k \in {"cdr", "recording"} :
          [kind |-> k, tenant |-> t] \in {steps[i] : i \in DOMAIN steps}
  <2>1. 1 \in DOMAIN steps /\ 3 \in DOMAIN steps
    OBVIOUS
  <2>2. steps[1] = [kind |-> "cdr", tenant |-> t] /\ steps[3] = [kind |-> "recording", tenant |-> t]
    OBVIOUS
  <2> QED BY <2>1, <2>2
<1>3. Begin(p, steps, 0, {t})
  BY DEF RemoveTenant
<1> HIDE DEF steps
<1> QED BY <1>1, <1>2, <1>3, BeginKeeps

(* A step of a purge that leaves rows, exports and history alone.          *)
LEMMA OthersUndisturbed ==
    ASSUME MediaInv, NEW q \in Purger, purge'[q] = purge[q], wav' \subseteq wav,
           UNCHANGED <<settings, today, born, callLogs, path, exports, task, stray, revived,
                       changed>>
    PROVE  Undisturbed(q)
<1>1. today <= today'
  BY MediaAssumption DEF MediaInv, RowsShape
<1> QED BY <1>1 DEF Undisturbed, SameJob, RecordingsOf, OwnDays, settings

LEMMA RowsFrame ==
    ASSUME MediaInv, UNCHANGED <<settings, today, born, callLogs, path>>, wav' \subseteq wav
    PROVE  RowsShape'
<1>1. SettingsInv'
  BY NoChangeKeeps DEF MediaInv, RowsShape
<1> QED BY <1>1 DEF MediaInv, RowsShape, settings, RecordingsOf

LEMMA HeadAndTail ==
    ASSUME NEW steps \in Seq(PurgeTask), steps # <<>>
    PROVE  /\ Head(steps) \in PurgeTask
           /\ Tail(steps) \in Seq(PurgeTask)
           /\ {steps[i] : i \in DOMAIN steps}
                  \subseteq {Head(steps)} \cup {Tail(steps)[i] : i \in DOMAIN Tail(steps)}
<1>1. Head(steps) = steps[1] /\ Tail(steps) \in Seq(PurgeTask) /\ Head(steps) \in PurgeTask
      /\ Len(Tail(steps)) = Len(steps) - 1
      /\ \A i \in 1..Len(Tail(steps)) : Tail(steps)[i] = steps[i + 1]
  BY HeadTailProperties
<1>2. DOMAIN steps = 1..Len(steps) /\ DOMAIN Tail(steps) = 1..Len(Tail(steps))
      /\ Len(steps) \in Nat
  BY <1>1
<1>3. ASSUME NEW i \in DOMAIN steps, i # 1
      PROVE  i - 1 \in DOMAIN Tail(steps) /\ Tail(steps)[i - 1] = steps[i]
  BY <1>1, <1>2, <1>3
<1> SUFFICES ASSUME NEW i \in DOMAIN steps
             PROVE  \/ steps[i] = Head(steps)
                    \/ \E j \in DOMAIN Tail(steps) : steps[i] = Tail(steps)[j]
  BY <1>1
<1> QED BY <1>1, <1>3

LEMMA DaysToKeepTyped ==
    ASSUME NEW own \in Nat \cup {Unset}, NEW default \in Nat, NEW days \in Nat, NEW factory
    PROVE  DaysToKeep(own, default, days, factory) \in Nat
BY DEF DaysToKeep, Unset

LEMMA PurgeReadsKeeps ==
    ASSUME MediaInv, NEW p \in Purger, PurgeReads(p)
    PROVE  MediaInv'
<1> DEFINE job == purge[p]
           step == Head(job.steps)
           fresh == job.phase = "load"
           own == IF fresh THEN [t \in Tenant |-> OwnDays(t)[step.kind]] ELSE job.own
           default == IF fresh THEN config ELSE job.defaults
           keep == DaysToKeep(own[step.tenant], default[step.kind], job.days,
                              FactoryDays[step.kind])
           old == Old(job, step, keep) \ job.dead
           spared == IF keep > job.days THEN job.spared \cup {step} ELSE job.spared
           now == purge'[p]
<1>1. /\ UNCHANGED <<settings, today, wav, born, callLogs, path, exports, archive, task,
                     asked, left, deletes, stray, revived, broken, changed>>
      /\ DOMAIN purge = Purger
  BY DEF PurgeReads, rows, exporting, history, MediaInv, PurgesSound
<1>2. job.phase \in {"load", "read"} /\ PurgeSound(p) /\ job \in PurgeJob
  <2>1. job.phase \in {"load", "read"}
    BY DEF PurgeReads
  <2>2. PurgeSound(p)
    BY <2>1 DEF MediaInv, PurgesSound, NoPurge
  <2> QED BY <2>1, <2>2 DEF PurgeSound, PurgeShape
<1>3. step \in PurgeTask /\ step.kind \in Kind /\ step.tenant \in Tenant
      /\ job.steps # <<>> /\ job.steps \in Seq(PurgeTask)
  BY <1>2, HeadAndTail DEF PurgeSound, PurgeShape, PurgeTask, PurgeJob
<1>4. /\ own \in [Tenant -> Nat \cup {Unset}]
      /\ default \in [Kind -> Nat]
      /\ keep \in Nat
  <2>1. \A t \in Tenant : OwnDays(t)[step.kind] \in Nat \cup {Unset}
    BY <1>3, OwnDaysTyped DEF MediaInv, RowsShape, SettingsInv, Settings
  <2>2. own \in [Tenant -> Nat \cup {Unset}]
    BY <1>2, <2>1 DEF PurgeJob
  <2>3. default \in [Kind -> Nat]
    BY <1>2 DEF PurgeJob, MediaInv, RowsShape, SettingsInv, SettingsShape
  <2>4. job.days \in Nat
    BY <1>2 DEF PurgeJob
  <2> HIDE DEF own, default
  <2> QED BY <1>3, <2>2, <2>3, <2>4, DaysToKeepTyped
<1>5. /\ FilesOf(step, old) \subseteq Recording \cup Export
      /\ \A x \in FilesOf(step, old) :
             /\ x \in Recording => /\ step.kind # "export" /\ CallOf[x] \in callLogs
                                   /\ TenantOf[CallOf[x]] = step.tenant
                                   /\ Date[CallOf[x]] + keep <= job.started
             /\ x \in Export => /\ step.kind = "export" /\ task[x] = "done"
                                /\ exports[x].tenant = step.tenant
                                /\ exports[x].requested + keep <= job.started
      /\ step.kind # "export" => \A r \in RecordingsOf(callLogs) :
             /\ TenantOf[CallOf[r]] = step.tenant
             /\ Date[CallOf[r]] + keep <= job.started
             => r \in FilesOf(step, old) \/ CallOf[r] \in job.dead
  <2> HIDE DEF step, keep
  <2>1. CASE step.kind = "export"
    <3>1. ASSUME NEW x \in FilesOf(step, old)
          PROVE  /\ x \in Export /\ task[x] = "done" /\ exports[x].tenant = step.tenant
                 /\ exports[x].requested + keep <= job.started
      BY <2>1, <3>1 DEF FilesOf, Old, MediaInv, ExportsShape, ArchivesWhole
    <3> QED BY <2>1, <3>1, MediaAssumption
  <2>2. CASE step.kind # "export"
    <3>1. FilesOf(step, old) = RecordingsOf(old)
      BY <2>2 DEF FilesOf
    <3>2. old = {c \in callLogs : TenantOf[c] = step.tenant
                                  /\ Date[c] + keep <= job.started} \ job.dead
      BY <2>2 DEF Old
    <3> QED BY <2>2, <3>1, <3>2, MediaAssumption DEF RecordingsOf
  <2> QED BY <2>1, <2>2
<1>6. /\ job.phase = "load" => own = [t \in Tenant |-> OwnDays(t)[step.kind]] /\ default = config
      /\ job.phase = "read" => own = job.own /\ default = job.defaults
      /\ spared \subseteq PurgeTask /\ job.spared \subseteq spared
      /\ step \notin spared => keep <= job.days
  <2>1. job.days \in Nat
    BY <1>2 DEF PurgeJob
  <2>2. step \notin spared => ~(keep > job.days)
    OBVIOUS
  <2>3. step \notin spared => keep <= job.days
    <3> HIDE DEF keep, spared
    <3> QED BY <1>4, <2>1, <2>2
  <2> QED BY <1>2, <1>3, <2>3 DEF PurgeJob
<1> DEFINE files == FilesOf(step, old)
<1>7. purge' = [purge EXCEPT ![p].phase = "remove", ![p].own = own, ![p].defaults = default,
                             ![p].keep = keep, ![p].files = files, ![p].spared = spared]
  BY DEF PurgeReads
<1>8. keep = DaysToKeep(own[step.tenant], default[step.kind], job.days, FactoryDays[step.kind])
  OBVIOUS
<1> HIDE DEF own, default, keep, spared, files
<1>9. /\ DOMAIN purge' = Purger /\ \A q \in Purger \ {p} : purge'[q] = purge[q]
      /\ now \in PurgeJob
      /\ now.phase = "remove" /\ now.own = own /\ now.defaults = default /\ now.keep = keep
      /\ now.files = files /\ now.spared = spared
      /\ now.steps = job.steps /\ now.days = job.days /\ now.gone = job.gone
      /\ now.started = job.started /\ now.removed = job.removed /\ now.dead = job.dead
  <2> DEFINE new == [job EXCEPT !.phase = "remove", !.own = own, !.defaults = default,
                                !.keep = keep, !.files = files, !.spared = spared]
  <2>1. files \in SUBSET (Recording \cup Export)
    BY <1>5 DEF files
  <2>2. now = new /\ DOMAIN purge' = Purger /\ \A q \in Purger \ {p} : purge'[q] = purge[q]
    BY <1>1, <1>7
  <2>3. new \in PurgeJob
    BY <1>2, <1>4, <1>6, <2>1 DEF PurgeJob
  <2>4. /\ new.phase = "remove" /\ new.own = own /\ new.defaults = default /\ new.keep = keep
        /\ new.files = files /\ new.spared = spared
        /\ new.steps = job.steps /\ new.days = job.days /\ new.gone = job.gone
        /\ new.started = job.started /\ new.removed = job.removed /\ new.dead = job.dead
    BY <1>2 DEF PurgeJob
  <2> QED BY <2>2, <2>3, <2>4
<1>10. /\ \A x \in files :
             /\ x \in Recording => /\ step.kind # "export" /\ CallOf[x] \in callLogs
                                   /\ TenantOf[CallOf[x]] = step.tenant
                                   /\ Date[CallOf[x]] + keep <= job.started
             /\ x \in Export => /\ step.kind = "export" /\ task[x] = "done"
                                /\ exports[x].tenant = step.tenant
                                /\ exports[x].requested + keep <= job.started
       /\ step.kind # "export" => \A r \in RecordingsOf(callLogs) :
              /\ TenantOf[CallOf[r]] = step.tenant
              /\ Date[CallOf[r]] + keep <= job.started
              => r \in files \/ CallOf[r] \in job.dead
  BY <1>5 DEF files
<1>11. RowsShape'
  BY <1>1, RowsFrame
<1>12. PurgeShape(p)'
  BY <1>1, <1>2, <1>3, <1>9 DEF PurgeSound, PurgeShape
<1>13. FilesAreOld(p)'
  BY <1>1, <1>9, <1>10 DEF FilesAreOld, OldCall, OldExport, MediaInv, RowsShape
<1>14. RemovedIsDeleted(p)'
  BY <1>1, <1>2, <1>9 DEF PurgeSound, RemovedIsDeleted, Locked, RecordingsOf
<1>15. DeletedIsSettled(p)'
  BY <1>1, <1>2, <1>9, <1>10
     DEF PurgeSound, DeletedIsSettled, Locked, RecordingsOf, Settled, OldCall
<1>16. GoneIsSettled(p)'
  BY <1>1, <1>2, <1>6, <1>9 DEF PurgeSound, GoneIsSettled, Remaining, Settled, RecordingsOf
<1>17. DaysAreKept(p)'
  BY <1>1, <1>2, <1>6, <1>8, <1>9 DEF PurgeSound, DaysAreKept, OwnDays, settings
<1>18. PurgesSound'
  <2>1. PurgeSound(p)'
    BY <1>12, <1>13, <1>14, <1>15, <1>16, <1>17 DEF PurgeSound
  <2>2. ASSUME NEW q \in Purger \ {p} PROVE Undisturbed(q)
    BY <1>1, <1>9, OthersUndisturbed
  <2> QED BY <1>9, <1>11, <2>1, <2>2, OnePurgeSteps
<1>19. \A q \in Purger : purge[q].removed \subseteq purge'[q].removed
  BY <1>9
<1> QED BY <1>1, <1>18, <1>19, PurgeFrame

LEMMA PurgeRemovesFileKeeps ==
    ASSUME MediaInv, NEW p \in Purger, NEW x \in Recording \cup Export, PurgeRemovesFile(p, x)
    PROVE  MediaInv'
<1> DEFINE job == purge[p]
           now == purge'[p]
           gone == {x} \cap (path \cup Export)
<1>1. /\ UNCHANGED <<settings, today, born, callLogs, path, exports, task, asked, left,
                     deletes, stray, revived, broken, changed>>
      /\ wav' = wav \ ({x} \cap path)
      /\ DOMAIN archive' = DOMAIN archive \ {x}
      /\ \A e \in DOMAIN archive' : archive'[e] = archive[e]
      /\ job.phase = "remove" /\ x \in job.files
  BY DEF PurgeRemovesFile, rows, exporting, history
<1>2. PurgeSound(p) /\ job \in PurgeJob /\ DOMAIN purge = Purger
  <2>1. PurgeSound(p) /\ DOMAIN purge = Purger
    BY <1>1 DEF MediaInv, PurgesSound, NoPurge
  <2> QED BY <2>1 DEF PurgeSound, PurgeShape
<1>3. path \subseteq Recording /\ Recording \cap Export = {}
  BY MediaAssumption DEF MediaInv, RowsShape, RecordingsOf
<1>4. gone \subseteq Recording \cup Export
  BY <1>3
<1>5. purge' = [purge EXCEPT ![p].files = @ \ {x}, ![p].removed = @ \cup gone]
  BY DEF PurgeRemovesFile
<1>6. x \in path => x \in gone
  OBVIOUS
<1>7. x \in Export => x \in gone
  OBVIOUS
<1>8. \A y \in gone : y = x /\ (y \in Recording => y \in path)
  BY <1>3
<1> HIDE DEF gone
<1>9. /\ DOMAIN purge' = Purger /\ \A q \in Purger \ {p} : purge'[q] = purge[q]
      /\ now \in PurgeJob
      /\ now.files = job.files \ {x} /\ now.removed = job.removed \cup gone
      /\ now.phase = job.phase /\ now.own = job.own /\ now.defaults = job.defaults
      /\ now.keep = job.keep /\ now.spared = job.spared
      /\ now.steps = job.steps /\ now.days = job.days /\ now.gone = job.gone
      /\ now.started = job.started /\ now.dead = job.dead
  <2> DEFINE new == [job EXCEPT !.files = @ \ {x}, !.removed = @ \cup gone]
  <2>1. now = new /\ DOMAIN purge' = Purger /\ \A q \in Purger \ {p} : purge'[q] = purge[q]
    BY <1>2, <1>5
  <2>2. new \in PurgeJob
    BY <1>2, <1>4 DEF PurgeJob
  <2>3. /\ new.files = job.files \ {x} /\ new.removed = job.removed \cup gone
        /\ new.phase = job.phase /\ new.own = job.own /\ new.defaults = job.defaults
        /\ new.keep = job.keep /\ new.spared = job.spared
        /\ new.steps = job.steps /\ new.days = job.days /\ new.gone = job.gone
        /\ new.started = job.started /\ new.dead = job.dead
    BY <1>2 DEF PurgeJob
  <2> QED BY <2>1, <2>2, <2>3
<1>10. RowsShape'
  BY <1>1, RowsFrame
<1>11. /\ \A c : OldCall(job, c)' <=> OldCall(job, c)
       /\ \A e : OldExport(job, e)' <=> OldExport(job, e)
       /\ \A r : Settled(r) => Settled(r)'
       /\ x \in Recording => Settled(x)'
       /\ Locked(p)' = Locked(p)
  BY <1>1, <1>9 DEF OldCall, OldExport, Settled, Locked, RecordingsOf
<1>12. PurgeShape(p)'
  BY <1>1, <1>2, <1>9 DEF PurgeSound, PurgeShape
<1>13. FilesAreOld(p)'
  BY <1>1, <1>2, <1>9, <1>11 DEF PurgeSound, FilesAreOld
<1>14. RemovedIsDeleted(p)'
  <2>1. /\ x \in Recording => CallOf[x] \in born /\ OldCall(job, CallOf[x])
        /\ x \in Export => task[x] = "done" /\ (x \in DOMAIN exports => OldExport(job, x))
    BY <1>1, <1>2 DEF PurgeSound, FilesAreOld
  <2> QED BY <1>1, <1>2, <1>8, <1>9, <1>11, <2>1 DEF PurgeSound, RemovedIsDeleted
<1>15. DeletedIsSettled(p)'
  BY <1>1, <1>2, <1>9, <1>11 DEF PurgeSound, DeletedIsSettled, RecordingsOf
<1>16. GoneIsSettled(p)'
  BY <1>1, <1>2, <1>9, <1>11 DEF PurgeSound, GoneIsSettled, Remaining, RecordingsOf
<1>17. DaysAreKept(p)'
  BY <1>1, <1>2, <1>9 DEF PurgeSound, DaysAreKept, OwnDays, settings
<1>18. PurgesSound'
  <2>1. PurgeSound(p)'
    BY <1>12, <1>13, <1>14, <1>15, <1>16, <1>17 DEF PurgeSound
  <2>2. ASSUME NEW q \in Purger \ {p} PROVE Undisturbed(q)
    <3>1. wav' \subseteq wav
      BY <1>1
    <3> QED BY <1>1, <1>9, <3>1, OthersUndisturbed
  <2> QED BY <1>9, <1>10, <2>1, <2>2, OnePurgeSteps
<1>19. \A q \in Purger : purge[q].removed \subseteq purge'[q].removed
  BY <1>9
<1>20. \A e \in DOMAIN archive \ DOMAIN archive' : task[e] = "done" /\ e \in now.removed
  <2>1. DOMAIN archive \subseteq Export
    BY DEF MediaInv, ExportsShape
  <2> QED BY <1>1, <1>2, <1>7, <1>9, <2>1 DEF PurgeSound, FilesAreOld
<1>21. \A r \in path \cap wav : r \in wav' \/ r \in now.removed
  BY <1>1, <1>6, <1>9
<1>22. wav' \subseteq wav /\ DOMAIN archive' \subseteq DOMAIN archive
  BY <1>1
<1> QED BY <1>1, <1>18, <1>19, <1>20, <1>21, <1>22, PurgeFrame

LEMMA PurgeFailsKeeps ==
    ASSUME MediaInv, NEW p \in Purger, PurgeFails(p)
    PROVE  MediaInv'
<1>1. /\ UNCHANGED <<settings, today, wav, born, callLogs, path, exports, archive, task,
                     asked, left, deletes, stray, revived, changed>>
      /\ broken' = broken \cup purge[p].removed
      /\ purge' = [purge EXCEPT ![p] = NoPurge]
  BY DEF PurgeFails, rows, exporting
<1>2. /\ DOMAIN purge' = Purger /\ purge'[p] = NoPurge
      /\ \A q \in Purger \ {p} : purge'[q] = purge[q]
  BY <1>1 DEF MediaInv, PurgesSound
<1>3. RowsShape'
  BY <1>1, RowsFrame
<1>4. PurgesSound'
  <2>1. ASSUME NEW q \in Purger \ {p} PROVE Undisturbed(q)
    BY <1>1, <1>2, OthersUndisturbed
  <2> QED BY <1>2, <1>3, <2>1, OnePurgeSteps
<1>5. \A q \in Purger : purge[q].removed \subseteq purge'[q].removed \cup broken'
  BY <1>1, <1>2
<1> QED BY <1>1, <1>4, <1>5, PurgeFrame

(* The rows a purger deletes are those whose files it has removed.         *)
LEMMA PurgeDeletesRowsKeeps ==
    ASSUME MediaInv, NEW p \in Purger, PurgeDeletesRows(p)
    PROVE  MediaInv'
<1> DEFINE job == purge[p]
           now == purge'[p]
           step == Head(job.steps)
           rest == Tail(job.steps)
           out == RowsOf(step, Old(job, step, job.keep))
           next == CASE rest = <<>> -> "commit"
                     [] rest # <<>> /\ Head(rest).kind = step.kind -> "read"
                     [] OTHER -> "load"
<1>1. /\ UNCHANGED <<settings, today, wav, born, callLogs, path, exports, archive, task,
                     asked, left, deletes, stray, revived, broken, changed>>
      /\ job.phase = "remove" /\ job.files = {}
      /\ purge' = [purge EXCEPT ![p].dead = @ \cup out, ![p].steps = rest, ![p].phase = next]
  BY DEF PurgeDeletesRows, rows, exporting, history
<1>2. PurgeSound(p) /\ job \in PurgeJob /\ DOMAIN purge = Purger
  <2>1. PurgeSound(p) /\ DOMAIN purge = Purger
    BY <1>1 DEF MediaInv, PurgesSound, NoPurge
  <2> QED BY <2>1 DEF PurgeSound, PurgeShape
<1>3. /\ step \in PurgeTask /\ rest \in Seq(PurgeTask)
      /\ Remaining(job) \subseteq {step} \cup {rest[i] : i \in DOMAIN rest}
  <2>1. job.steps \in Seq(PurgeTask) /\ job.steps # <<>>
    BY <1>1, <1>2 DEF PurgeJob, PurgeSound, PurgeShape
  <2> QED BY <2>1, HeadAndTail DEF Remaining
<1>4. /\ next \in {"commit", "read", "load"}
      /\ next = "commit" <=> rest = <<>>
      /\ next = "read" => Head(rest).kind = step.kind
  OBVIOUS
<1>5. /\ out \subseteq Deletable
      /\ \A c \in out \cap CallLog : c \in callLogs /\ OldCall(job, c)
      /\ \A r \in out \cap Recording : CallOf[r] \in callLogs /\ OldCall(job, CallOf[r])
      /\ \A r \in Recording : CallOf[r] \in callLogs /\ OldCall(job, CallOf[r]) =>
             r \in out \/ CallOf[r] \in out
      /\ \A e \in DOMAIN exports : OldExport(job, e) => e \in out
  <2>1. callLogs \subseteq CallLog /\ DOMAIN exports \subseteq Export
    BY DEF MediaInv, RowsShape, ExportsShape
  <2>2. CASE step.kind = "export"
    <3>1. out = {e \in DOMAIN exports : OldExport(job, e)}
      BY <2>2 DEF RowsOf, Old, OldExport
    <3>2. \A c : ~OldCall(job, c)
      BY <2>2 DEF OldCall
    <3> HIDE DEF out
    <3> QED BY <2>1, <3>1, <3>2, MediaAssumption DEF Deletable
  <2>3. CASE step.kind = "recording"
    <3>1. out = RecordingsOf({c \in callLogs : OldCall(job, c)})
      BY <2>3 DEF RowsOf, Old, OldCall
    <3>2. \A e : ~OldExport(job, e)
      BY <2>3 DEF OldExport
    <3> HIDE DEF out
    <3> QED BY <2>1, <3>1, <3>2, MediaAssumption DEF Deletable, RecordingsOf
  <2>4. CASE step.kind = "cdr"
    <3>1. out = {c \in callLogs : OldCall(job, c)}
      BY <2>4 DEF RowsOf, Old, OldCall
    <3>2. \A e : ~OldExport(job, e)
      BY <2>4 DEF OldExport
    <3> HIDE DEF out
    <3> QED BY <2>1, <3>1, <3>2, MediaAssumption DEF Deletable
  <2> QED BY <1>3, <2>2, <2>3, <2>4 DEF PurgeTask, Kind
<1> HIDE DEF out, next
<1>6. /\ DOMAIN purge' = Purger /\ \A q \in Purger \ {p} : purge'[q] = purge[q]
      /\ now \in PurgeJob
      /\ now.dead = job.dead \cup out /\ now.steps = rest /\ now.phase = next
      /\ now.files = {} /\ now.removed = job.removed
      /\ now.own = job.own /\ now.defaults = job.defaults
      /\ now.keep = job.keep /\ now.spared = job.spared
      /\ now.days = job.days /\ now.gone = job.gone /\ now.started = job.started
  <2> DEFINE new == [job EXCEPT !.dead = @ \cup out, !.steps = rest, !.phase = next]
  <2>1. now = new /\ DOMAIN purge' = Purger /\ \A q \in Purger \ {p} : purge'[q] = purge[q]
    BY <1>1, <1>2
  <2> HIDE DEF rest
  <2>2. new \in PurgeJob
    BY <1>2, <1>3, <1>4, <1>5 DEF PurgeJob
  <2>3. /\ new.dead = job.dead \cup out /\ new.steps = rest /\ new.phase = next
        /\ new.files = job.files /\ new.removed = job.removed
        /\ new.own = job.own /\ new.defaults = job.defaults
        /\ new.keep = job.keep /\ new.spared = job.spared
        /\ new.days = job.days /\ new.gone = job.gone /\ new.started = job.started
    BY <1>2 DEF PurgeJob
  <2> QED BY <1>1, <2>1, <2>2, <2>3
<1>7. RowsShape'
  BY <1>1, RowsFrame
<1>8. ASSUME NEW r \in Recording, CallOf[r] \in callLogs, OldCall(job, CallOf[r])
      PROVE  Settled(r)
  <2>1. Settled(r) \/ CallOf[r] \in job.dead
    BY <1>1, <1>2, <1>8 DEF PurgeSound, DeletedIsSettled, RecordingsOf
  <2>2. CallOf[r] \in job.dead => r \in Recording \cap Locked(p)
    BY DEF Locked, RecordingsOf
  <2> QED BY <1>2, <2>1, <2>2 DEF PurgeSound, DeletedIsSettled
<1>9. \A r : Settled(r)' <=> Settled(r)
  BY <1>1 DEF Settled
<1>10. Locked(p)' = Locked(p) \cup out \cup RecordingsOf(out)
  BY <1>6 DEF Locked, RecordingsOf
<1>11. PurgeShape(p)'
  <2>1. /\ \A c \in out \cap CallLog : c \in born
        /\ \A r \in out \cap Recording : CallOf[r] \in born
    BY <1>5 DEF MediaInv, RowsShape
  <2> QED BY <1>1, <1>2, <1>4, <1>6, <2>1 DEF PurgeSound, PurgeShape
<1>12. FilesAreOld(p)'
  BY <1>6 DEF FilesAreOld
<1>13. RemovedIsDeleted(p)'
  <2>1. ASSUME NEW x \in job.removed \cap Recording
        PROVE  CallOf[x] \in born /\ x \notin wav
               /\ (x \in Locked(p)' \cup revived \/ CallOf[x] \notin callLogs)
    <3>1. \/ x \in Locked(p) \cup revived \/ CallOf[x] \notin callLogs
          \/ x \in out \/ CallOf[x] \in out
      BY <1>2, <1>5 DEF PurgeSound, RemovedIsDeleted
    <3> QED BY <1>2, <1>10, <3>1 DEF PurgeSound, RemovedIsDeleted, RecordingsOf
  <2>2. ASSUME NEW x \in job.removed \cap Export
        PROVE  task[x] = "done" /\ (x \in now.dead \/ x \notin DOMAIN exports)
    BY <1>2, <1>5, <1>6 DEF PurgeSound, RemovedIsDeleted
  <2> QED BY <1>1, <1>6, <2>1, <2>2 DEF RemovedIsDeleted
<1>14. DeletedIsSettled(p)'
  <2>1. ASSUME NEW r \in Recording, r \in Locked(p)' PROVE Settled(r)
    <3>1. CASE r \in Locked(p)
      BY <1>2, <3>1 DEF PurgeSound, DeletedIsSettled
    <3>2. CASE r \in out
      BY <1>5, <1>8, <3>2
    <3>3. CASE CallOf[r] \in out
      BY <1>5, <1>8, <3>3, MediaAssumption
    <3> QED BY <1>10, <2>1, <3>1, <3>2, <3>3 DEF RecordingsOf
  <2> QED BY <1>4, <1>6, <1>9, <2>1 DEF DeletedIsSettled
<1>15. GoneIsSettled(p)'
  <2> SUFFICES ASSUME NEW t \in job.gone, NEW k \in {"cdr", "recording"},
                      [kind |-> k, tenant |-> t] \notin job.spared \cup Remaining(now),
                      NEW r \in RecordingsOf(callLogs), TenantOf[CallOf[r]] = t
               PROVE  Settled(r)
    BY <1>1, <1>4, <1>6, <1>9 DEF GoneIsSettled, Remaining
  <2>1. r \in Recording /\ CallOf[r] \in callLogs /\ CallOf[r] \in CallLog
    BY MediaAssumption DEF RecordingsOf
  <2>2. CASE [kind |-> k, tenant |-> t] \notin Remaining(job)
    BY <1>2, <2>2 DEF PurgeSound, GoneIsSettled
  <2>3. CASE [kind |-> k, tenant |-> t] \in Remaining(job)
    <3>1. step = [kind |-> k, tenant |-> t]
      <4>1. Remaining(now) = {rest[i] : i \in DOMAIN rest}
        BY <1>6 DEF Remaining
      <4> HIDE DEF step, rest
      <4> QED BY <1>3, <2>3, <4>1
    <3>2. job.keep <= job.days /\ job.days = 0 /\ job.keep \in Nat
      BY <1>1, <1>2, <3>1 DEF PurgeSound, PurgeShape, GoneIsSettled, PurgeJob
    <3>3. CASE Date[CallOf[r]] <= job.started
      <4>1. Date[CallOf[r]] \in Nat /\ job.keep = 0
        BY <2>1, <3>2, MediaAssumption
      <4>2. OldCall(job, CallOf[r])
        BY <3>1, <3>3, <4>1 DEF OldCall
      <4> QED BY <1>8, <2>1, <4>2
    <3>4. CASE ~(Date[CallOf[r]] <= job.started)
      <4>1. RecordingsOf({CallOf[r]}) \subseteq stray
        BY <1>2, <2>1, <3>4 DEF PurgeSound, PurgeShape
      <4> QED BY <2>1, <4>1 DEF RecordingsOf, Settled
    <3> QED BY <3>3, <3>4
  <2> QED BY <2>2, <2>3
<1>16. DaysAreKept(p)'
  <2>1. \A t \in Tenant \ changed :
            job.own[t] = OwnDays(t)[step.kind] /\ job.defaults = config
    BY <1>1, <1>2 DEF PurgeSound, DaysAreKept
  <2>2. \A t : OwnDays(t)' = OwnDays(t)
    BY <1>1 DEF OwnDays, settings
  <2>3. now.phase # "remove" /\ (now.phase = "read" => Head(now.steps).kind = step.kind)
    BY <1>4, <1>6
  <2>4. config' = config /\ changed' = changed
    BY <1>1 DEF settings
  <2> HIDE DEF step
  <2> QED BY <1>6, <2>1, <2>2, <2>3, <2>4 DEF DaysAreKept
<1>17. PurgesSound'
  <2>1. PurgeSound(p)'
    BY <1>11, <1>12, <1>13, <1>14, <1>15, <1>16 DEF PurgeSound
  <2>2. ASSUME NEW q \in Purger \ {p} PROVE Undisturbed(q)
    BY <1>1, <1>6, OthersUndisturbed
  <2> QED BY <1>6, <1>7, <2>1, <2>2, OnePurgeSteps
<1>18. \A q \in Purger : purge[q].removed \subseteq purge'[q].removed
  BY <1>6
<1> QED BY <1>1, <1>17, <1>18, PurgeFrame

(* What the commit deletes is settled, and what the purge had removed is   *)
(* deleted.                                                                *)
LEMMA PurgeCommitsKeeps ==
    ASSUME MediaInv, NEW p \in Purger, PurgeCommits(p)
    PROVE  MediaInv'
<1> DEFINE job == purge[p]
           lost == {c \in callLogs : c \in job.dead \/ TenantOf[c] \in job.gone}
           out == {e \in DOMAIN exports : e \in job.dead \/ exports[e].tenant \in job.gone}
           spared == {t \in job.gone : \A k \in {"cdr", "recording"} :
                          [kind |-> k, tenant |-> t] \in job.spared}
<1>1. /\ job.phase = "commit"
      /\ callLogs' = callLogs \ lost
      /\ path' = path \ (job.dead \cup RecordingsOf(lost))
      /\ DOMAIN exports' = DOMAIN exports \ out
      /\ \A e \in DOMAIN exports' : exports'[e] = exports[e]
      /\ stray' = stray \cup RecordingsOf({c \in lost : TenantOf[c] \in spared})
      /\ DropTenants(job.gone)
      /\ changed' = changed \cup job.gone
      /\ purge' = [purge EXCEPT ![p] = NoPurge]
      /\ UNCHANGED <<today, wav, born, archive, task, asked, left, deletes, revived, broken>>
  BY DEF PurgeCommits
<1>2. PurgeSound(p) /\ DOMAIN purge = Purger
  BY <1>1 DEF MediaInv, PurgesSound, NoPurge
<1>3. /\ DOMAIN purge' = Purger /\ purge'[p] = NoPurge
      /\ \A q \in Purger \ {p} : purge'[q] = purge[q]
  BY <1>1, <1>2
<1>4. /\ lost \subseteq callLogs
      /\ \A c \in callLogs \ lost : c \notin job.dead /\ TenantOf[c] \notin job.gone
      /\ \A e \in DOMAIN exports \ out : e \notin job.dead /\ exports[e].tenant \notin job.gone
  OBVIOUS
<1>5. ASSUME NEW r \in path, r \in job.dead \/ CallOf[r] \in lost, r \in wav
      PROVE  r \in stray'
  <2>1. r \in Recording
    BY DEF MediaInv, RowsShape, RecordingsOf
  <2>2. CASE r \in Locked(p)
    <3>1. Settled(r)
      BY <1>2, <2>1, <2>2 DEF PurgeSound, DeletedIsSettled
    <3> QED BY <1>1, <1>5, <3>1 DEF Settled
  <2>3. CASE CallOf[r] \in lost /\ TenantOf[CallOf[r]] \in job.gone
    <3> DEFINE t == TenantOf[CallOf[r]]
    <3>1. CASE t \in spared
      BY <1>1, <2>1, <2>3, <3>1 DEF RecordingsOf
    <3>2. CASE t \notin spared
      <4>1. PICK k \in {"cdr", "recording"} : [kind |-> k, tenant |-> t] \notin job.spared
        BY <2>3, <3>2
      <4>2. Remaining(job) = {}
        BY <1>1, <1>2 DEF PurgeSound, PurgeShape, Remaining
      <4>3. r \in RecordingsOf(callLogs)
        BY DEF MediaInv, RowsShape
      <4>4. Settled(r)
        BY <1>2, <2>3, <4>1, <4>2, <4>3 DEF PurgeSound, GoneIsSettled
      <4> QED BY <1>1, <1>5, <4>4 DEF Settled
    <3> QED BY <3>1, <3>2
  <2> QED BY <1>5, <2>1, <2>2, <2>3 DEF Locked, RecordingsOf
<1> HIDE DEF lost, out, spared
<1>6. /\ tenants' = tenants \ job.gone
      /\ config' = config
      /\ \A t : t \notin job.gone => OwnDays(t)' = OwnDays(t)
  BY <1>1 DEF DropTenants, OwnDays
<1>7. RowsShape'
  <2>1. SettingsInv'
    BY <1>1, DropKeeps DEF MediaInv, RowsShape
  <2>2. IsFiniteSet(tenants')
    BY <1>6, FS_Subset DEF MediaInv, RowsShape
  <2>3. path' \subseteq RecordingsOf(callLogs')
    BY <1>1 DEF MediaInv, RowsShape, RecordingsOf
  <2>4. \A c \in callLogs' : TenantOf[c] \in tenants'
    BY <1>1, <1>4, <1>6 DEF MediaInv, RowsShape
  <2> QED BY <1>1, <2>1, <2>2, <2>3, <2>4 DEF MediaInv, RowsShape, RecordingsOf
<1>8. DeletesSound'
  <2>1. path' \subseteq path
    BY <1>1
  <2> QED BY <1>1, <2>1 DEF MediaInv, DeletesSound, RecordingsOf
<1>9. ExportsShape'
  BY <1>1, <1>4, <1>6 DEF MediaInv, ExportsShape
<1>10. ArchivesWhole'
  <2>1. ASSUME NEW e \in DOMAIN exports', exports'[e].status = "finished"
        PROVE  \/ e \in DOMAIN archive' \cup broken'
               \/ \E q \in Purger : e \in purge'[q].removed
    <3>1. e \in DOMAIN exports /\ e \notin job.dead /\ e \in Export
      BY <1>1, <1>4 DEF MediaInv, ExportsShape
    <3>2. e \notin job.removed
      BY <1>1, <1>2, <3>1 DEF PurgeSound, RemovedIsDeleted
    <3>3. \/ e \in DOMAIN archive \cup broken
          \/ \E q \in Purger : e \in purge[q].removed
      BY <1>1, <2>1, <3>1 DEF MediaInv, ArchivesWhole
    <3> QED BY <1>1, <1>3, <3>2, <3>3
  <2>2. DOMAIN exports' \subseteq DOMAIN exports
    BY <1>1
  <2> QED BY <1>1, <2>1, <2>2 DEF MediaInv, ArchivesWhole
<1>11. FilesServed'
  <2> SUFFICES ASSUME NEW r \in path'
               PROVE  r \in wav \cup broken \cup revived
                      \/ \E q \in Purger : r \in purge'[q].removed
    BY <1>1 DEF FilesServed
  <2>1. /\ r \in path /\ r \in Recording /\ CallOf[r] \in callLogs
        /\ r \notin job.dead /\ CallOf[r] \notin lost
    BY <1>1 DEF MediaInv, RowsShape, RecordingsOf
  <2>2. r \notin Locked(p)
    BY <1>4, <2>1 DEF Locked, RecordingsOf
  <2>3. r \in job.removed => r \in revived
    BY <1>1, <1>2, <2>1, <2>2 DEF PurgeSound, RemovedIsDeleted
  <2> QED BY <1>3, <2>1, <2>3 DEF MediaInv, FilesServed
<1>12. NoOrphanFile'
  <2>1. \A r \in path \cap wav : r \in path' \cup stray'
    BY <1>1, <1>5 DEF RecordingsOf
  <2>2. stray \subseteq stray'
    BY <1>1
  <2> QED BY <1>1, <2>1, <2>2 DEF MediaInv, NoOrphanFile
<1>13. PurgesSound'
  <2>1. ASSUME NEW q \in Purger \ {p} PROVE Undisturbed(q)
    <3>1. today <= today'
      BY <1>1, MediaAssumption DEF MediaInv, RowsShape
    <3>2. \A t \in Tenant \ changed' :
              t \notin changed /\ OwnDays(t)' = OwnDays(t) /\ config' = config
      BY <1>1, <1>6
    <3>3. callLogs' \subseteq callLogs /\ path' \subseteq path /\ stray \subseteq stray'
      BY <1>1
    <3>4. \A e \in DOMAIN exports' : e \in DOMAIN exports /\ exports'[e] = exports[e]
      BY <1>1
    <3> QED BY <1>1, <1>3, <3>1, <3>2, <3>3, <3>4 DEF Undisturbed, SameJob, RecordingsOf
  <2> QED BY <1>3, <1>7, <2>1, OnePurgeSteps
<1> QED BY <1>7, <1>8, <1>9, <1>10, <1>11, <1>12, <1>13 DEF MediaInv

-----------------------------------------------------------------------------
LEMMA MediaStarts == MediaInit => MediaInv
<1> SUFFICES ASSUME MediaInit PROVE MediaInv
  OBVIOUS
<1>1. RowsShape
  BY SettingsStart, FS_EmptySet, MediaAssumption
     DEF MediaInit, SettingsInit, RowsShape, RecordingsOf
<1>2. DeletesSound /\ NoOrphanFile /\ FilesServed
  BY DEF MediaInit, DeletesSound, NoOrphanFile, FilesServed, DeleteRequest, NoDelete
<1>3. ExportsShape /\ ArchivesWhole
  BY DEF MediaInit, ExportsShape, ArchivesWhole, TaskState
<1>4. PurgesSound
  BY DEF MediaInit, PurgesSound
<1> QED BY <1>1, <1>2, <1>3, <1>4 DEF MediaInv

LEMMA StutterKeeps == MediaInv /\ UNCHANGED mediaVars => MediaInv'
<1> SUFFICES ASSUME MediaInv, UNCHANGED mediaVars PROVE MediaInv'
  OBVIOUS
<1>1. /\ UNCHANGED <<settings, today, wav, born, callLogs, path, exports, archive, task, asked,
                     left, deletes, purge, stray, revived, broken, changed>>
  BY DEF mediaVars, rows, exporting, history
<1>2. ExportsShape' /\ ArchivesWhole'
  BY <1>1, ExportsFrame DEF exporting, settings
<1> QED BY <1>1, <1>2, ExportFrame

LEMMA MediaStep == MediaInv /\ [MediaNext]_mediaVars => MediaInv'
<1> SUFFICES ASSUME MediaInv, [MediaNext]_mediaVars PROVE MediaInv'
  OBVIOUS
<1>1. CASE UNCHANGED mediaVars
  BY <1>1, StutterKeeps
<1>2. CASE Midnight
  BY <1>2, MidnightKeeps
<1>3. CASE ChangeSettings
  BY <1>3, ChangeSettingsKeeps
<1>4. CASE \/ \E c \in CallLog : CreateCallLog(c)
           \/ \E C \in SUBSET CallLog : Regenerate(C)
           \/ \E since \in 0..LastDay : DeleteCallLogs(since)
  <2>1. callLogs \subseteq CallLog
    BY DEF MediaInv, RowsShape
  <2>2. ASSUME NEW since, DeleteCallLogs(since) PROVE MediaInv'
    BY <2>1, <2>2, DropCallLogsKeeps DEF DeleteCallLogs
  <2> QED BY <1>4, <2>2, CreateKeeps, DropCallLogsKeeps DEF Regenerate
<1>5. ASSUME NEW d \in Delete,
             \/ \E R \in SUBSET Recording : RequestDelete(d, R)
             \/ \E r \in Recording : DeleteMediaPath(d, r)
             \/ DeleteMediaFile(d)
             \/ DeleteMediaFails(d)
      PROVE  MediaInv'
  BY <1>5, RequestDeleteKeeps, DeleteMediaPathKeeps, DeleteMediaFileKeeps,
     DeleteMediaFailsKeeps
<1>6. ASSUME NEW e \in Export,
             \/ \E t \in Tenant, C \in SUBSET CallLog : RequestExport(e, t, C)
             \/ SendTask(e) \/ LoseTask(e) \/ WorkerStep(e)
      PROVE  MediaInv'
  BY <1>6, RequestExportKeeps, TaskMovesKeeps, ExportStepKeeps
<1>7. CASE \E kind \in Kind, days \in PurgeDays : "cron" \in Purger /\ PurgeKind(kind, days)
  BY <1>7, PurgeKindKeeps
<1>8. ASSUME NEW p \in Purger,
             (\E t \in Tenant : RemoveTenant(p, t)) \/ PurgeStep(p) \/ PurgeFails(p)
      PROVE  MediaInv'
  BY <1>8, RemoveTenantKeeps, PurgeReadsKeeps, PurgeRemovesFileKeeps, PurgeDeletesRowsKeeps,
     PurgeCommitsKeeps, PurgeFailsKeeps DEF PurgeStep
<1> QED BY <1>1, <1>2, <1>3, <1>4, <1>5, <1>6, <1>7, <1>8 DEF MediaNext

LEMMA MediaInvariant == MediaSpec => []MediaInv
BY MediaStarts, MediaStep, PTL DEF MediaSpec

-----------------------------------------------------------------------------
(* A call log belongs to a tenant, an export too, and each purge and each  *)
(* task is somewhere it can be.                                            *)
THEOREM MediaStaysTyped == MediaSpec => []MediaTypeOK
<1>1. MediaInv => MediaTypeOK
  <2> SUFFICES ASSUME MediaInv PROVE MediaTypeOK
    OBVIOUS
  <2>1. SettingsTypeOK
    BY SettingsTyped DEF MediaInv, RowsShape
  <2>2. \A e \in DOMAIN exports : exports[e].status \in Status /\ exports[e].tenant \in tenants
    BY DEF MediaInv, ExportsShape, ExportRow
  <2>3. \A p \in Purger : purge[p].phase \in {"none", "load", "read", "remove", "commit"}
    BY DEF MediaInv, PurgesSound, PurgeSound, PurgeShape, PurgeJob, NoPurge
  <2> QED BY <2>1, <2>2, <2>3 DEF MediaTypeOK, MediaInv, RowsShape, ExportsShape
<1> QED BY <1>1, MediaInvariant, PTL

(* A recording listed as available is served: whatever deletions, purges   *)
(* and removals of tenants run side by side, its file goes before its path *)
(* only while a purge that took it has not committed, or never will.       *)
THEOREM RecordingsStayServed == MediaSpec => []AvailableMediaIsServed
<1>1. MediaInv => AvailableMediaIsServed
  <2> SUFFICES ASSUME MediaInv, NEW r \in path
               PROVE  \/ MediaAnswer(r) = "served"
                      \/ r \in broken \cup revived
                      \/ \E p \in Purger : r \in purge[p].removed
    BY DEF AvailableMediaIsServed
  <2>1. CallOf[r] \in callLogs
    BY DEF MediaInv, RowsShape, RecordingsOf
  <2> QED BY <2>1 DEF MediaInv, FilesServed, MediaAnswer
<1> QED BY <1>1, MediaInvariant, PTL

(* No order of deletions, purges and removals of tenants leaves a file     *)
(* that nothing points to, but those known to stay behind.                 *)
THEOREM FilesStayListed == MediaSpec => []NoOrphanFile
<1>1. MediaInv => NoOrphanFile
  BY DEF MediaInv
<1> QED BY <1>1, MediaInvariant, PTL

(* What is downloaded is everything that was asked for, and an export that *)
(* finished is there until a purge takes it, however many workers and      *)
(* purges run.                                                             *)
THEOREM ArchivesStayWhole == MediaSpec => []DownloadServesWholeArchive
<1>1. MediaInv => DownloadServesWholeArchive
  <2> SUFFICES ASSUME MediaInv, NEW e \in DOMAIN exports
               PROVE  /\ DownloadAnswer(e) = "served" => archive[e] = asked[e]
                      /\ exports[e].status = "finished" =>
                             \/ DownloadAnswer(e) = "served"
                             \/ e \in broken
                             \/ \E p \in Purger : e \in purge[p].removed
    BY DEF DownloadServesWholeArchive
  <2>1. exports[e].status \in Status
    BY DEF MediaInv, ExportsShape, ExportRow
  <2>2. DownloadAnswer(e) = "served" <=>
            exports[e].status = "finished" /\ e \in DOMAIN archive
    <3>1. CASE exports[e].status = "finished"
      BY <3>1 DEF DownloadAnswer
    <3>2. CASE exports[e].status = "error"
      BY <3>2 DEF DownloadAnswer
    <3>3. CASE exports[e].status \in {"pending", "processing"}
      BY <3>3 DEF DownloadAnswer
    <3> QED BY <2>1, <3>1, <3>2, <3>3 DEF Status
  <2> QED BY <2>2 DEF MediaInv, ArchivesWhole
<1> QED BY <1>1, MediaInvariant, PTL

(* While purges run and tenants go, what a PUT was told is in force.       *)
THEOREM MediaSettingsStayPromised == MediaSpec => []PromisedSettingsInForce
<1>1. MediaInv => PromisedSettingsInForce
  BY DEF MediaInv, RowsShape, SettingsInv
<1> QED BY <1>1, MediaInvariant, PTL

(* A purge removes a recording in one step only.                           *)
LEMMA OnlyOneStepRemoves ==
    ASSUME MediaInv, MediaNext, NEW p \in Purger, purge[p] # NoPurge, purge'[p] # NoPurge
    PROVE  \/ purge'[p].removed = purge[p].removed
           \/ \E x \in Recording \cup Export : PurgeRemovesFile(p, x)
<1>1. purge[p] \in PurgeJob /\ DOMAIN purge = Purger
  BY DEF MediaInv, PurgesSound, PurgeSound, PurgeShape
<1>2. CASE \/ Midnight \/ ChangeSettings
           \/ \E C \in SUBSET CallLog : Regenerate(C)
           \/ \E since \in 0..LastDay : DeleteCallLogs(since)
  BY <1>2 DEF Midnight, ChangeSettings, Regenerate, DeleteCallLogs, DropCallLogs
<1>11. ASSUME NEW c \in CallLog, CreateCallLog(c)
       PROVE  purge'[p].removed = purge[p].removed
  <2>1. purge'[p] = IF purge[p].phase = "remove"
                    THEN [purge[p] EXCEPT !.files = @ \ RecordingsOf({c})] ELSE purge[p]
    BY <1>11 DEF CreateCallLog
  <2> QED BY <1>1, <2>1 DEF PurgeJob
<1>3. ASSUME NEW d \in Delete,
             \/ \E R \in SUBSET Recording : RequestDelete(d, R)
             \/ \E r \in Recording : DeleteMediaPath(d, r)
             \/ DeleteMediaFile(d)
             \/ DeleteMediaFails(d)
      PROVE  purge' = purge
  BY <1>3 DEF RequestDelete, DeleteMediaPath, DeleteMediaFile, DeleteMediaFails
<1>4. ASSUME NEW e \in Export,
             \/ \E t \in Tenant, C \in SUBSET CallLog : RequestExport(e, t, C)
             \/ SendTask(e) \/ LoseTask(e) \/ WorkerStep(e)
      PROVE  purge' = purge
  BY <1>4 DEF RequestExport, SendTask, LoseTask, WorkerStep, StartTask, WriteRecording,
              WriteFails, FinishTask
<1>5. ASSUME NEW q \in Purger, NEW steps, NEW days, NEW gone, Begin(q, steps, days, gone)
      PROVE  purge'[p] = purge[p]
  BY <1>1, <1>5 DEF Begin
<1>6. CASE \E kind \in Kind, days \in PurgeDays : "cron" \in Purger /\ PurgeKind(kind, days)
  BY <1>5, <1>6 DEF PurgeKind
<1>7. ASSUME NEW q \in Purger, NEW t \in Tenant, RemoveTenant(q, t)
      PROVE  purge'[p] = purge[p]
  BY <1>5, <1>7 DEF RemoveTenant
<1>8. ASSUME NEW q \in Purger, PurgeReads(q) \/ PurgeDeletesRows(q)
      PROVE  purge'[p].removed = purge[p].removed
  <2>1. CASE q # p
    BY <1>1, <1>8, <2>1 DEF PurgeReads, PurgeDeletesRows
  <2>2. CASE q = p /\ PurgeReads(p)
    <3>1. PICK own, default, keep, files, spared :
              purge' = [purge EXCEPT ![p].phase = "remove", ![p].own = own,
                                     ![p].defaults = default, ![p].keep = keep,
                                     ![p].files = files, ![p].spared = spared]
      BY <2>2 DEF PurgeReads
    <3> QED BY <1>1, <3>1 DEF PurgeJob
  <2>3. CASE q = p /\ PurgeDeletesRows(p)
    <3>1. PICK out, rest, next :
              purge' = [purge EXCEPT ![p].dead = @ \cup out, ![p].steps = rest,
                                     ![p].phase = next]
      BY <2>3 DEF PurgeDeletesRows
    <3> QED BY <1>1, <3>1 DEF PurgeJob
  <2> QED BY <1>8, <2>1, <2>2, <2>3
<1>9. ASSUME NEW q \in Purger, PurgeCommits(q) \/ PurgeFails(q)
      PROVE  purge'[p] = purge[p]
  BY <1>1, <1>9 DEF PurgeCommits, PurgeFails
<1>10. ASSUME NEW q \in Purger, q # p, NEW x, PurgeRemovesFile(q, x)
       PROVE  purge'[p] = purge[p]
  BY <1>1, <1>10 DEF PurgeRemovesFile
<1> QED BY <1>2, <1>3, <1>4, <1>6, <1>7, <1>8, <1>9, <1>10, <1>11 DEF MediaNext, PurgeStep

LEMMA KeptLongEnough ==
    ASSUME NEW own \in Nat \cup {Unset}, NEW default \in Nat, NEW days \in Nat, NEW factory
    PROVE  \/ own # Unset /\ DaysToKeep(own, default, days, factory) = own
           \/ own = Unset /\ DaysToKeep(own, default, days, factory) \in {default, days}
BY DEF DaysToKeep

(* Whatever changes of settings come between, a purge removes no recording *)
(* that its tenant still keeps, unless the days changed while it ran.      *)
THEOREM RetentionIsRespected == MediaSpec => TenantRetentionRespected
<1> DEFINE Respected(p) ==
        purge[p] # NoPurge /\ purge'[p] # NoPurge =>
            \A r \in Recording \cap (purge'[p].removed \ purge[p].removed) :
                LET t == TenantOf[CallOf[r]]
                    age == today - Date[CallOf[r]]
                IN \/ t \in changed
                   \/ \E kind \in {"cdr", "recording"} : age >= KeptDays(p, t, kind)
<1>1. ASSUME MediaInv, MediaNext, NEW p \in Purger PROVE Respected(p)
  <2> DEFINE job == purge[p]
             step == Head(job.steps)
  <2> SUFFICES ASSUME purge[p] # NoPurge, purge'[p] # NoPurge,
                      NEW r \in Recording, r \in purge'[p].removed, r \notin purge[p].removed,
                      TenantOf[CallOf[r]] \notin changed
               PROVE  \E kind \in {"cdr", "recording"} :
                          today - Date[CallOf[r]] >= KeptDays(p, TenantOf[CallOf[r]], kind)
    OBVIOUS
  <2> DEFINE c == CallOf[r]
             t == TenantOf[c]
  <2>1. PurgeSound(p) /\ job \in PurgeJob /\ DOMAIN purge = Purger
    BY <1>1 DEF MediaInv, PurgesSound, PurgeSound, PurgeShape
  <2>2. PICK x \in Recording \cup Export : PurgeRemovesFile(p, x)
    BY <1>1, OnlyOneStepRemoves
  <2>3. job.phase = "remove" /\ r \in job.files
    <3>1. purge'[p].removed = job.removed \cup ({x} \cap (path \cup Export))
      BY <2>1, <2>2 DEF PurgeRemovesFile, PurgeJob
    <3> QED BY <2>2, <3>1 DEF PurgeRemovesFile
  <2>4. /\ c \in CallLog /\ t \in Tenant
        /\ step.kind # "export" /\ t = step.tenant
        /\ Date[c] + job.keep <= job.started /\ job.started <= today
    BY <2>1, <2>3, MediaAssumption DEF PurgeSound, FilesAreOld, OldCall, PurgeShape
  <2>5. step.kind \in {"cdr", "recording"}
    <3>1. step \in PurgeTask
      BY <2>1, <2>3, HeadAndTail DEF PurgeSound, PurgeShape, PurgeJob
    <3> QED BY <2>4, <3>1 DEF PurgeTask, Kind
  <2> DEFINE own == OwnDays(t)[step.kind]
             default == config[step.kind]
  <2>6. job.keep = DaysToKeep(own, default, job.days, FactoryDays[step.kind])
    BY <2>1, <2>3, <2>4 DEF PurgeSound, DaysAreKept
  <2>7. own \in Nat \cup {Unset} /\ default \in Nat /\ job.days \in Nat
    <3>1. job.days \in Nat
      BY <2>1 DEF PurgeJob
    <3>2. OwnDays(t) \in Settings /\ config \in [Kind -> Nat]
      BY <1>1, OwnDaysTyped DEF MediaInv, RowsShape, SettingsInv, SettingsShape
    <3> QED BY <2>5, <3>1, <3>2 DEF Settings, Kind
  <2>8. KeptDays(p, t, step.kind) <= job.keep
    <3> HIDE DEF step
    <3>1. own # Unset => KeptDays(p, t, step.kind) = own
      BY DEF KeptDays
    <3>2. own = Unset => KeptDays(p, t, step.kind) \in {default, job.days}
                         /\ KeptDays(p, t, step.kind) <= default
                         /\ KeptDays(p, t, step.kind) <= job.days
      BY <2>7 DEF KeptDays
    <3> HIDE DEF own, default
    <3> QED BY <2>6, <2>7, <3>1, <3>2, KeptLongEnough
  <2>9. today - Date[c] >= KeptDays(p, t, step.kind)
    <3>1. /\ Date[c] \in Nat /\ today \in Nat /\ job.keep \in Nat /\ job.started \in Nat
          /\ KeptDays(p, t, step.kind) \in Int
      <4>1. Date[c] \in Nat /\ today \in Nat
        BY <1>1, <2>4, MediaAssumption DEF MediaInv, RowsShape
      <4>2. job.keep \in Nat /\ job.started \in Nat
        BY <2>1 DEF PurgeJob
      <4>3. KeptDays(p, t, step.kind) \in {own, default, job.days}
        BY DEF KeptDays
      <4> QED BY <2>7, <4>1, <4>2, <4>3 DEF Unset
    <3> HIDE DEF step, job
    <3> QED BY <2>4, <2>8, <3>1
  <2> QED BY <2>5, <2>9
<1>2. MediaInv /\ [MediaNext]_mediaVars => [\A p \in Purger : Respected(p)]_mediaVars
  <2> HIDE DEF Respected
  <2> QED BY <1>1
<1>3. MediaSpec => [][\A p \in Purger : Respected(p)]_mediaVars
  <2> HIDE DEF Respected
  <2> QED BY <1>2, MediaInvariant, PTL DEF MediaSpec
<1> QED BY <1>3 DEF TenantRetentionRespected
=============================================================================
