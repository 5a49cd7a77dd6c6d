# Formal model of wazo-call-logd

wazo-call-logd turns the channel event log (CEL) of Asterisk into call logs,
keeps recordings, their exports and the transcriptions of voicemail messages, and
computes call center statistics. This directory holds TLA+ modules that model it,
the TLC configurations that check them on small instances, and theorems proved
with TLAPS. `PROJECT.json`
maps every definition to the lines it models and lists the runs, the hazards
and the theorems.

Paths below are relative to `src/wazo_call_logd/`.

## The system

| Part | State | Operations | Talks to |
|---|---|---|---|
| Grouping of CELs (`generator.py:163-201`) | list of groups during one call of the function | one turn of the loop per linkedid | called by the generator |
| Call log generation (`manager.py`, `generator.py`, `writer.py`, `database/queries/`) | CELs and their `call_log_id` (CEL database, shared with Asterisk and xivo-dao); call logs and tenants (call-logd database) | generate from a linkedid, from a number of CELs, from days; delete all, delete from days | read and written by the daemon's bus thread and by `wazo-call-logs`, one transaction per DAO method |
| Daemon (`controller.py`, `bus.py`, `http_server.py`) | bus queue, HTTP threads, celery workers | handles `LINKEDID_END`, `auth_tenant_deleted`, voicemail events one at a time; start, stop | RabbitMQ, wazo-auth, wazo-confd |
| Command (`main_sweep.py`, nightly by cron) | pid file | the generations and deletions above | same databases as the daemon, no lock in common |
| Retention (`purger.py`, `plugins/retention/`, `controller.py:123-144`) | retention per tenant, default from the configuration file | purge of call logs, recordings, exports; change of the periods | run by wazo-purge-db in a process of its own |
| Tenants (`sync_db.py`, `plugins/tenant/`, `database/queries/tenant.py`) | tenants | created on demand by the writer; removed on the event or by wazo-call-logd-sync-db | cascades to call logs |
| CEL interpretation (`cel_interpretor.py`, `raw_call_log.py`, rest of `generator.py`) | the raw call log while the CELs of one call are read | some twenty-five event handlers, then the completion of participants, voicemails and recordings | wazo-confd |
| Recordings and exports (`plugins/cdr/`, `plugins/export/`, `celery.py`) | rows in the database, files on disk | delete media, request an export, run it, download it | celery worker, purge |
| Voicemail transcriptions (`plugins/voicemail_transcription/`) | one row per message | create or update, delete, and tell subscribers | bus events, HTTP |
| Statistics (`plugins/support_center/`) | none of its own; the tables xivo-stat fills | cut a period into intervals, aggregate each | one transaction per question |
| Search and status of calls (`plugins/cdr/`, `database/queries/call_log.py`) | none | filters, order, pages, counts; the status in Python and in SQL | two transactions per page |
| REST API, schema, configuration | none of their own | | |

### What is hard about it

- A call log is made by six transactions in two databases
  (`writer.py:9-16`): delete the old call logs, release their CELs, create
  tenants, create call logs, associate the CELs, publish. Any of them may be the
  last.
- The daemon and the command run this pipeline at the same time and nothing
  holds them apart; retention and the removal of tenants join in.
- A linkedid that has ended may turn out to belong to a call that has not,
  when its channel is transferred. The call log made of it has to be replaced.
- Messages are lost while the daemon is down. The command makes up for it, but it
  only finds CELs without a `call_log_id`.
- The fields of a call log are the sum of some twenty-five handlers, each of which may
  come before or after any other and touches fields the others touch too.
- Files and rows cannot change together: a deletion by request removes the path, then the
  file; a purge removes the files, then commits the rows; an export reads files whose rows may
  have gone since it was asked for.
- What is answered over HTTP is put together from several transactions, and the same
  rule (the status of a call, its destination, the calls of a queue) is often written
  twice, in Python and in SQL, or over two tables.

`PROJECT.json` lists these hazards one by one, with their lines, and the
properties that cover them.

## Modules

| Module | Models |
|---|---|
| `CelCorrelation` | the pure part: which rows belong together (one hop of shared channels in SQL, groups in Python), when a group has ended, which rows the command takes; and a reference definition of a call as a connected component |
| `CelGrouping` | the grouping loop as a state machine, one step per linkedid, from any table |
| `CallLogGeneration` | Asterisk, the daemon, the command, retention and tenant removal over the two databases |
| `CallBook` | the abstract specification of the generation: calls entered whole, once over, never overlapping |
| `CelInterpretation` | what becomes of the CELs of one call: the handlers of callers and callees, originated calls, and the completion of the call log |
| `RetentionSettings` | how long each tenant keeps what: PUT requests, the defaults of the configuration file, removal of tenants |
| `RecordingMedia` | extends it: files and rows of recordings and exports, under requests, the worker, the nightly purge, the removal of tenants and generation |
| `VoicemailTranscription` | extends it too: the consumer of transcription events |
| `Statistics` | intervals, and the figures of queues and agents, while xivo-stat fills the tables |
| `CdrSearch` | listings of call logs while call logs are stored and deleted |
| `MCCelGrouping`, `MCCallLogGeneration`, `MCCelInterpretation`, `MCRecordingMedia`, `MCServices` | instances for TLC |
| `NatLemmas` | facts about natural numbers that the proofs share |
| `CelGroupingProofs`, `CallLogGenerationProofs`, `CelInterpretationProofs` | proofs about calls |
| `RetentionSettingsProofs`, `RecordingMediaProofs`, `VoicemailTranscriptionProofs` | proofs about the settings, and about the two modules that extend them |
| `ServicesProofs` | proofs about searches and statistics |

`CelGrouping` and `CallLogGeneration` share `CelCorrelation`. `RetentionSettings` has no
behaviour of its own in a run: it is composed with the files it decides about in
`RecordingMedia` and with the tenants' rows in `VoicemailTranscription`. `MCServices` puts
`CdrSearch`, `Statistics` and `VoicemailTranscription` in one run: they share no
table, so its next-state relation lets only one of them leave its initial state and the
run explores the sum of the three.

### State and actions of CallLogGeneration

| Model | Code |
|---|---|
| `cels`, `callLogIdOf` | table `cel` and its column `call_log_id` |
| `callLogs` | table `call_logd_call_log`; a call log is its id and the CELs it was made from (`cel_ids`) |
| `nextId` | the sequence of its ids |
| `tenants`, `authTenants` | table `call_logd_tenant`; the tenants wazo-auth knows |
| `events` | the daemon's queue |
| `pc[p]` | the transaction process `p` does next |
| `channels`, `links`, `toDelete`, `new`, `since` | the local variables a job carries from one transaction to the next |
| `HandleLinkedIdEnd`, `GenerateFromCount`, `GenerateFromDays` | the first query of `find_from_linked_id` and `find_last_unprocessed` |
| `Correlate`, `Read` | the second and third query, then the generator |
| `Delete`, `Unassociate`, `CreateTenants`, `Create`, `Associate`, `Publish` | `writer.py:10-16`, `manager.py:55` |
| `StartDelete`, `Wipe`, `WipeUnassociate`, `WipeUnassociateAll` | `delete_from_days` and `delete_all`; the SELECT and the DELETE of `call_log.delete` are two steps |
| `Abort`, `Restart`, `CreateFails` | a transaction that is rolled back, with the exception ending the job; the loss of the queue; the foreign key to the tenant |
| `PurgeCallLogs`, `HandleTenantDeleted`, `SyncDb` | the transactions of `purger.py` and `sync_db.py` on call logs and tenants |

A step of a job is one transaction, or one statement where the next statement of the
same transaction may see rows committed since: SQLAlchemy's sessions run at
PostgreSQL's default, read committed. The second generation query and the third
are in one transaction and still two steps for that reason.

In `CallLogGeneration`, five variables are history, read by no action. `purged`, `stranded` and `halted` name the call
logs whose CELs may rightly be left dangling, or which were left unassociated. `shared` names the processes whose job
has run beside another (`Begin` and `End` keep it), and `tangled` the CELs that `Create` lists for such a job, or
twice in one batch (`Tangles`).

### State and actions of CelInterpretation

| Model | Code |
|---|---|
| `call` | the `RawCallLog`; `raw` stands for `raw_participants`, `infos` for `participants_info`, `hidden` for the extension filter |
| `ChanStart` ... `WazoCallLogDestination`, `RequestedInternal` | the handlers of `CallerCELInterpretor` and its base, by event type |
| `CalleeChanStart`, `CalleeBridgeEnter`, `CalleeChanEnd` | those of `CalleeCELInterpretor` |
| `Originated` | `LocalOriginateCELInterpretor`, in one operator as its result depends on the set of CELs only; it has up to `MaxRecordings` recordings, none with an uuid |
| `Stranger` | a peer that is no channel of the call, which `CalleeBridgeEnter` tells from having no peer |
| `phase` | first every CEL of the caller's channel, then those of all others: `now` starts over between them |
| `RemoveDuplicateParticipants` ... `CompleteRecordings` | `generator.py:294-504`, applied by `Complete` |
| `log` | the `CallLog` that results |

Each handler is an operator from the call so far to the next one. `CallerNext` and
`CalleeNext` apply them in any order to the numbers and users of the `scenario`, an
element of a small set that says which types of CEL the call may have.

The completion is written over sets: a loop that pops duplicates or drops recordings is the
set of those it keeps, and the two lists the code walks side by side are joined by the `Place`
of their elements. `Empty` is the text of what is not known; it has a name of its own because
the provers take no empty string literal.

### State and actions of RecordingMedia and RetentionSettings

| Model | Code |
|---|---|
| `retention`, `config`, `tenants` | the tables of `database/queries/retention.py`, `config.py`, `tenant.py` |
| `PutFindsOrCreates`, `PutUpdates` | the two transactions of `PUT /retention` |
| `UpdateDbFromConfigFile` | a start of the daemon |
| `wav`, `path`, `callLogs`, `born` | files of recordings; rows with a path; call logs; those generated before, whose files are not made again |
| `CreateCallLog`, `Regenerate`, `DeleteCallLogs` | `create_from_list`, for the first time or again, with the paths the CELs give; `delete_from_list`; `wazo-call-logs delete` |
| `RequestDelete`, `DeleteMediaPath`, `DeleteMediaFile`, `DeleteMediaFails` | `RecordingService.delete_media` and its handlers in `plugins/cdr/http.py`: a request, then path and file of each recording |
| `RequestExport`, `SendTask`, `StartTask`, `WriteRecording`, `WriteFails`, `FinishTask` | `POST .../export` and `celery_tasks.py` |
| `LoseTask` | the daemon dies before the task is sent, the broker loses it, or the worker dies with it |
| `DownloadAnswer`, `MediaAnswer` | what the two GETs of files answer, in the order of their tests |
| `PurgeKind`, `RemoveTenant` | `wazo-purge-db` for one kind of data; the removal of a tenant, which purges all kinds with 0 days |
| `PurgeReads`, `PurgeRemovesFile`, `PurgeDeletesRows`, `PurgeCommits`, `PurgeFails` | `purger.py`, one transaction whose files go as it runs |
| `DaysToKeep` | `_extract_days_to_keep` |

`overtaken`, `promised`, `stray`, `revived`, `broken` and `changed` are history. `promised` is what the tenant's last
PUT was told it had set, with what the requests it overtook (`overtaken`) were told; the others
name what the code itself cannot put right, so that the properties can say that nothing else goes wrong.

### State and actions of VoicemailTranscription, Statistics and CdrSearch

| Model | Code |
|---|---|
| `transcripts`, `queued`, `handling` | the table, the bus queue, the event in the consumer and the handler's next transaction |
| `Create`, `Fetch`, `Update`, `NotifyCreated`; `Find`, `Delete_`, `NotifyDeleted` | `plugins/voicemail_transcription/service.py`, one step per transaction or message |
| `FillHour` | xivo-stat, as the queries of `queue_stat.py` and `agent_stat.py` read its tables |
| `Begin`, `BeginList`, `AnswerQueue` ... `AnswerBucket`, `Respond` | the services of `plugins/support_center/services.py`; an answer is one transaction |
| `Subintervals`, `Kept`, `Frames`, `Buckets` | the generators of intervals and of quality-of-service buckets |
| `QueueItem`, `AgentItem`, `AgentQueues`, `InBucket` | the aggregations |
| `CallStatus`, `ShownEnds`, `DestinationParticipant` | `plugins/cdr/schemas.py` and the relationships of `database/models.py` |
| `HasStatus`, `HasEnd`, `FirstDestinationUser`, `Matches`, `Visible`, `Orderings`, `Page` | the SQL of `database/queries/call_log.py`; NULL is a value of its own |
| `Search`, `CountInPeriod`, `FindAllInPeriod`, `NextPage` | a listing, its two transactions, and the request for the next page |

### Abstractions

Generation:

- A CEL is its linkedid, uniqueid, time, and whether it is a `CHAN_START`, a
  `LINKEDID_END`, or another event. Times are distinct and also stand for the row's id.
- A group yields a call log when all its linkedids have ended and it has a
  `CHAN_START` (the date of a call log comes from it; without one `to_call_log`
  refuses). What the interpretation puts in it is not modelled here. It may fail,
  as when wazo-confd does not answer: `Read` then keeps any subset of the batch.
- Asterisk writes CELs in the order of their times and nothing of a linkedid after
  its `LINKEDID_END` (`LinkedIdEndIsLast`). The message is queued when the row is
  written.
- A job reserves as many ids as a batch may hold; ids with gaps are what a sequence
  gives. Ids are never reused.
- A run of the command that finds no CEL is left out. `since = 0` stands for
  `delete --all`.
- `Publish` is one step: nothing depends on the order of messages.
- The command's pid file is `MayStart`: process `"cli"` is one run at a time.

Interpretation:

- Numbers are members of a small set; names are reduced to which handler set them last
  (`name`), identities of lines to the line. The user field and tags are left out.
- The caller's number, the number called and the extension of a CEL are inputs, chosen again
  for each CEL: no relation between the CELs of a channel is assumed, save that a recording
  is stopped once and resumed by the side that paused it.
- An originated call whose interpretation stops half-way is left out. The recordings of one start before the
  end of its source's channel, in the order of their CELs.

Media and settings:

- Time is whole days, and a purge runs later in the day than what has already happened
  (`Date + days <= started`). A call may be recorded days after it was made, and recorded again at any time.
- A call log that is generated again is a new row with new recordings. What a request or a purge has read of
  the older one it does not find any more (`outdated`); the files have the same names.
- A purge loads the settings and the first tenant's rows in one step. It holds its row locks
  until it commits (`Unlocked`), its reads see what others commit meanwhile.
- The rows of an export and the list of its recordings are one step. `StartTask` is the task's
  reading of the row, its status, and the opening of the archive.
- A task is acknowledged before it runs (`celery.py`), so one that is cut is not run again.
- `"cron"` stands for `wazo-purge-db` and for `wazo-call-logd-sync-db`, one at a time;
  `"daemon"` for the handler of the tenant's removal.

Transcriptions: the consumer takes one event at a time; any event may come again, and the
one a restart cut may or may not.

Statistics: time is counted in half hours, which is what the boundaries of intervals need. Months
have equal lengths and days 24 hours (scaled down to two): time zones and summer time are
left out. A sum is the number of places its terms take up (`Total`), which is what `SUM` gives and what
can be reasoned about without recursion. Calls that waited (`Waited`) are the answered, the abandoned and those
that left, as `_get_extra_stats` adds them up; a call that finds a queue full is counted nowhere among them.

Search: a filter on one column is as good as another, so the direction of a call stands for
the conversation, the internal extensions and the other columns compared for equality.

## Runs

Bounds are constants of the modules, set in each `.cfg`.

| Run | Question | Instance |
|---|---|---|
| `grouping` | Does the grouping merge only what is related, whatever the table? | every table of 4 linkedids and 3 channels: 4 is the least that gives two groups that two further linkedids may join |
| `grouping_transitive` | Is the correlation transitive, as the comment says? **No** | 3 linkedids, 2 channels |
| `generation` | Do associations and contents stay right with two jobs, a deletion, and a fault at any step, and is a call recorded once where jobs do not run side by side? | a call of two linkedids, the second of which ends and is then transferred into the first |
| `two_calls` | The same for batches of two call logs, retention and tenant removal | two unrelated calls |
| `meeting_calls` | When the groups of a batch overlap, which call logs list a CEL twice, and does a job that follows add to them, with cut jobs, retention and the removal of the tenant? | the daemon alone, two calls that a third linkedid connects, a chat row and a linkedid without a start, two faults |
| `eventually` | Is every call recorded in the end? | the transferred call, and the start of a call that never ends; the command takes one row at a time; a restart, a failed interpretation, or a job cut before it creates what it has deleted |
| `skipped_group` | Does a job record again what it releases? **No** | the transferred call, no fault, a job with no other beside it |
| `duplicates` | Is a call in one call log once everything is at rest? **No** | the transferred call, no fault |
| `interpretation` | Are the fields of a call log sound in whatever order the CELs come? | four mixes of CEL types, up to three channels, a line dialed twice or two lines of one user, up to four CELs between the first and the last of the channels; originated calls of up to two recordings |
| `media` | Do files and rows stay together, and do exports end? | two tenants over three days, two call logs with three recordings, each generated any number of times, one export, two deletions and one PUT at a time, two requests, deletions of call logs, purges or removals in all (`MaxJobs`), one fault at any step |
| `services` | Do searches, statistics and transcriptions say what is stored? | three stored call logs out of five; four hours in two days, with calls of two queues, one of them turned away by a full queue; two tenants, one message with two texts |
| `intervals` | Do intervals end with their period, as the unit test says? **No** | the statistics of `services` |

One fault and one deletion bound the runs, not the properties: the theorems below cover any
number. One fault at any step already meets every step of the other job, and one deletion
every step of the daemon's. Two processes are all there are: the bus thread is one thread
and the pid file admits one command.

`OneCallLogPerCall` and `ImplementsCallBook` say of which CELs two call logs may list the same one: those of a
cut job (`halted`), those recorded by a job that ran beside another, and a linkedid that joins several groups of
one batch (`tangled`). `generation` checks both where the first two happen, on calls of two linkedids, and
`meeting_calls` the first property where the first and the third do. The command is left out of `meeting_calls`: while one
of the calls lasts its runs delete and record the others without end, with ever new ids. The theorems
cover the command too.

`eventually` has a `VIEW`, the state without the history its property does not speak of: no action
reads that history, so two states that differ in nothing else have the same behaviours.

In the newer runs: an order of two handlers is met with two CELs, and what a third makes of
them with three; recordings have four because a pause takes two and a second pause two more. Three
channels are the least for a line that is dialed twice. In `media`, two jobs meet in
every order of their steps, and the second tenant's recording is a day younger, so that a
purge with the wrong days or the wrong tenant shows. In `services`, three rows are needed for
the first page to lose or repeat one, and two days for a window of hours to come again.
`MCServices` lets settings change freely only while no event was sent; the transcriptions
depend on the tenants and not on their days.

The runs check for deadlock nowhere: calls may be over and everything recorded, or the
requests the bounds allow may be spent.

### Fairness

`eventually` assumes that a job that has started goes on (weak fairness of the
steps of each process), that the daemon takes its messages, and that cron starts the
command again and again, each by weak fairness. Nothing
is assumed of Asterisk, of faults, of retention or of anyone's requests: the property
says what holds once all rows are written. It also needs the command's limit to reach the
rows in question: rows that can never be recorded count against `--cel-count`, and if they were
the newest and as many as the limit, the older rows would wait for ever. In the instance the
one such row is the oldest.

`media` assumes that a request that made an export's row sends its task, that the worker goes on
with a task it has, and that a purge goes on (weak fairness of each). No request, fault or day
is assumed to come. A purge holds locks the worker waits for, so the purge's fairness is
needed for `ExportSettles`; a task that is lost stays lost, which is a fact of the
acknowledgement and not an assumption.

`interpretation` and `services` check safety only and state no fairness.

### What the runs found

1. **The correlation is not transitive** (`generator.py:172-175` says it is). A linkedid that
   shares channels with two groups joins both, the groups stay apart, and one
   call gives two call logs.
2. **A skipped group loses its call log.** `from_cel` marks for deletion every call log the rows
   refer to, and only then skips groups with an open linkedid.
3. **The daemon and the command can both record a call.** The call log that loses the race
   for the CELs stays, and nothing leads to it any more.
4. **The first interval may end after its period** (`plugins/support_center/services.py:29`):
   its end is not brought back to that of the period, as the unit test
   `test_that_intervals_stays_within_limits` expects of all.

### What the properties except

What the properties had to except says as much about the code.

- A file is left for good when its removal fails after its path was cleared, when its call log is
  deleted by `wazo-call-logs delete` (or by a generation that then does not create it again), when the call log is
  generated while a purge of the same tenant deletes rows, and when a tenant is removed whose own days, or
  a default that was changed, go before the 0 days of the removal (`stray`).
- A recording is listed with a path and has no file once its call log is generated again after the file
  was deleted or purged, or while a DELETE that read the older row is about to remove it (`revived`). A purge that fails
  on one file keeps the rows of all it has removed (`broken`).
- The ids that a cut job, a deletion or the removal of a tenant leaves in CELs, for good, and the
  call logs that overlap, are named as said above. A removal of the tenant between two transactions also
  loses the call logs that the job has deleted to replace them; no property forbids it.
- Two overlapping PUT requests can leave days that neither asked for as a whole and that the schema would
  refuse; `PromisedSettingsInForce` bounds them to what was asked for column by column. Nothing is said of the relation between
  the days of call logs and of recordings beyond that: the schema compares what one request
  gives, and where a column is unset the default applies, so that recordings may be kept longer than
  their call logs without any overlap.
- The files of an originated call have no uuid and the merging of pauses makes them one, of which the first is listed.
- An answer of the statistics need not add up when xivo-stat fills an hour while it is computed, nor a listing
  agree with its counts, or its pages with each other, when call logs change between the transactions; the properties of both
  are about answers that nothing ran into. A period shorter than its interval is in the run that fails.
- `AnnouncedDestinationKept` is about callees. Some handlers of the caller write the destination anew.
- An export that failed is answered as not found, for the path is tested before the status
  (`plugins/export/http.py:84`): no property tells the two refusals apart. An export whose task is lost stays as it is.

The message of that check (`plugins/retention/schemas.py:29`) says that
`recording_days` must be higher or equal than `cdr_days`; the code refuses them when they are
higher, as the model does.

## Proofs

TLAPS proves the following for every value of the constants: any set of CELs and
tenants, any number of faults and deletions; any recordings, exports,
requests and purges; any channels, files and scenarios, and so any number of CELs; any rows, searches, pages,
calls, queues and periods. The assumptions, which TLC evaluates in the runs of those modules, are

- `CelAssumption`, `LinkedIdEndIsLast` and `ParameterAssumption` (`CallLogGeneration`) and
  `CelRowAssumption` (`CelGrouping`);
- `RetentionAssumption` (`RetentionSettings`), and `MediaAssumption` (`RecordingMedia`): types, and
  that a call log, a recording and an export are different things. Paths on disk and the
  primary keys of three tables are;
- `InterpretationAssumption` (`CelInterpretation`): the channels of a call are finitely many, the
  first of them the caller's, and `"none"`, which stands for a recording without uuid, is no
  file's;
- `SearchAssumption` (`CdrSearch`): the types of rows and of searches, as the schemas let them through, and that a client
  begins with the first page;
- `StatAssumption` (`Statistics`): hours and days have a positive length, the calls xivo-stat may find are finitely many, a
  request has at most one beginning and one end, lists are not cut, and thresholds come sorted, which is what the
  schemas and their defaults see to.

| Theorem | Says |
|---|---|
| `CelGroupingProofs!TypeCorrect`, `GroupsKeepTheirChannels` | the groups partition-with-overlap the linkedids visited, and record exactly their channels |
| `CelGroupingProofs!UnrelatedCallsStayApart` | the linkedids of a group are connected by shared channels |
| `CelGroupingProofs!OverlapsAreShared` | groups overlap only through a linkedid that is in both |
| `CallLogGenerationProofs!TypeCorrect` | types |
| `CallLogGenerationProofs!UnfinishedCallLogsAreUntouched` | a generation never deletes a call log another job has not yet associated |
| `CallLogGenerationProofs!AssociationsAreAccountedFor` | a CEL's reference dangles only where retention, a cut job or a deletion accounts for it |
| `CallLogGenerationProofs!AssociatedCelsAreListed` | a CEL refers only to a call log made from it |
| `CallLogGenerationProofs!CallLogsAreWholeCalls` | a call log holds its linkedids whole |
| `CallLogGenerationProofs!CallsAreRecordedOnce` | no CEL is in two call logs, save those of a job that was cut or ran beside another, and a linkedid that joins several groups of a batch |
| `CallLogGenerationProofs!GenerationImplementsCallBook` | the call logs, without the same, are a book of calls, whatever jobs run |
| `CelInterpretationProofs!InterpretationStaysTyped` | types |
| `CelInterpretationProofs!AnsweredUsersAreListed` | who answered is a participant that did, and the number of a destination that answered is shown |
| `CelInterpretationProofs!OneParticipantIsRequested` | at most one participant is the requested one |
| `CelInterpretationProofs!RecordingsStaySound` | each file is listed once, whole, and only of answered calls, also of an originated call with several recordings |
| `CelInterpretationProofs!CallerFieldsStaySound` | the answer lies within the call, and no hidden extension is left, whether the call had callees or the caller's channel alone |
| `CelInterpretationProofs!AnnouncedDestinationStays` | no callee's CEL overwrites an announced destination |
| `RetentionSettingsProofs!SettingsStayInForce` | what the last PUT of a tenant was told it had set stays in force |
| `RecordingMediaProofs!MediaSettingsStayPromised`, `VoicemailTranscriptionProofs!SettingsStayPromised` | the same where the settings are composed with media and with transcriptions |
| `RecordingMediaProofs!MediaStaysTyped` | types |
| `RecordingMediaProofs!RecordingsStayServed` | a recording with a path has its file, but for the exceptions above |
| `RecordingMediaProofs!FilesStayListed` | a file has a row with its path, but for the exceptions above |
| `RecordingMediaProofs!ArchivesStayWhole` | a finished export's archive is served whole |
| `RecordingMediaProofs!RetentionIsRespected` | a purge removes only what is as old as its tenant's days say |
| `VoicemailTranscriptionProofs!TypeCorrect` | transcriptions belong to tenants that exist |
| `VoicemailTranscriptionProofs!AnnouncementsAreTrue` | subscribers know what is stored |
| `VoicemailTranscriptionProofs!TranscriptsKeepTheirTenant` | no event moves a transcription to another tenant |
| `ServicesProofs!SearchStaysTyped`, `StatisticsStayTyped` | types |
| `ServicesProofs!CountsStayAgreed` | the counts of a listing agree with its page |
| `ServicesProofs!PagesCompleteTheList` | pages repeat nothing and leave nothing out |
| `ServicesProofs!StatusFiltersStayAgreed` | the status filtered and ordered by is the status shown |
| `ServicesProofs!ListedCallLogsShowTheirUser` | the filter's subquery and the relationship choose the same destination: what is listed for a user is what shows the user at an end |
| `ServicesProofs!IntervalsKeepTiling` | intervals make up their period |
| `ServicesProofs!IntervalsKeepAccounting` | intervals answer no more than their period, and those of a queue as much |
| `ServicesProofs!BreakdownKeepsAddingUp` | what an agent answered is the sum over its queues |
| `ServicesProofs!QualityKeepsAccounting` | each answered call is in one bucket, and rates compare the same calls |

How they go:

- *Types.* `TypeOK` is not inductive: the tenant of a call log is looked up by its smallest
  linkedid, so the call logs being made must not be empty (`NewNotEmpty`), and the id given
  by `Associate` is a maximum, which needs a bound (`NewNumbered`). `TypeInv` adds both.
- *Step cases.* `StepCases` sorts the disjuncts of `Next` by what they do to ids:
  `Rest` (no job moves), `Shift` (a job moves and touches no id), `Selects`, and the nine
  steps that matter. Each later invariant has one step per case.
- *Ids.* `IdInv`: ids in use are below the sequence, so those of a new batch are in nobody
  else's hands. No CEL refers to an unfinished call log, so no generation, which only knows
  ids that CELs refer to, can have one in its list. This is why two overlapping jobs do
  not destroy each other's work, although they may duplicate it.
- *Associations.* `AccountInv` adds that an unfinished call log exists or was taken by
  retention, a tenant's removal or the command's deletion. `Delete` then removes only
  call logs whose ids are in `toDelete[p]`, and the CELs that refer to them are being released.
- *Listed.* `UnfinishedMatch`: the job's plan and the table agree on what an id stands for from
  `Create` to `Associate`, because nobody else gets the id.
- *Whole calls.* `WholeInv`: what was read of an ended linkedid is all of it, and no row of an
  ended linkedid is written later. This needs `LinkedIdEndIsLast`, and the proof uses
  it in one place (`WholeKept`).
- *The book of calls.* Neither theorem has a hypothesis beyond the assumptions: what may overlap is named by
  history that the actions keep. `OverlapsShared`: of two jobs at work, both are `shared`. Once a call log is
  made nothing changes what it says of its CELs, so what matters is that a job which is alone finds the older call log of a
  call before it makes another. `KeptReferredTo` says that a call log which is not `halted` is
  referred to by all its CELs that are not `tangled`, and `Generating(p)` that whatever a job that has run
  alone read of a recorded call leads it to that call log, which it deletes before it creates. `Meet`, two call logs have in
  common only tangled CELs, then holds of the new ones and the old (`CreatedMeet`), and `KeptApart` of all.
  `Releasing(p)`: the command's deletion takes exactly the ids it has selected, and a job beside `delete --all` finds
  its CELs tangled. `CallBook` follows from `BookInv`, `IdInv` and `WholeInv`: a job beside another enters
  nothing in the book (`SharedCreateEntersNothing`), one alone enters what is whole and apart (`CreateEnters`), and
  history only grows, so nothing that was struck out comes back (`HistoryGrows`).
- *Interpretation.* The properties speak of a completed call log, so `InterpretationInv` says of each
  phase what `Complete` will need. `FilesOrdered` (the entries of a file are of one side and in the
  order of their start) is why the end taken from the last entry is not before the start of
  the first; it holds because a file is recorded by one side and time only grows while that
  side's CELs are read. `RequestedOnce` (at most one of the users that CELs told of is the
  requested one, and then `requestedType` is set, so that no handler marks another) gives
  `AtMostOneRequested` through the counting of places: `Place` numbers a set without gaps or
  repetition, so one user told of is one leg. `OfCaller` bounds the answer by the last CEL, and
  the end of the caller's channel turns that into `CallerFieldsSound`, which `OfCallee` keeps.
  Each handler has one lemma per phase it runs in.
- *Media.* No property of files is inductive: a file's row and path are changed by a request, by
  a purge and by generation, each in several steps. `DeletesSound` says of a request that what
  it is about to remove has no path any more, unless a generation has brought it back since (`outdated`, `revived`). `PurgesSound` says of a purge that what it has
  removed it will delete when it commits (`RemovedIsDeleted`), that what it will delete has no file, no path
  or is known to stay behind (`DeletedIsSettled`), the same of all that a removed tenant leaves but what its days
  spare (`GoneIsSettled`), and that the days it works with are still the tenant's. `ArchivesWhole`: what a running task
  has written and what is left make up what was asked for.
- *Settings.* `PutsSeeTheirRow`: the row is as a PUT has read it unless the PUT is `overtaken`. Writing the
  columns that differ from what it read then makes the row what it asks for. A PUT that is overtaken changes a column to
  what it asks for or leaves what one before it was promised.
- *Transcriptions.* `UpdatesItsTenant`: only an event whose tenant holds the row reaches the
  update. `ToldOrAbout`: between a change of a row and its announcement the row is what
  will be said. The proofs are of `TranscriptNext`, without the restrictions of `MCServices`.
- *Search.* The properties speak of an answer; `SearchInv` says of each step of a listing what its
  answer will need. What holds whatever happens to the table (`ItemsFit`, `ItemsSorted`): ids are given once, so an id still
  stored has the row that was listed. What holds of a listing that nothing has disturbed (`Undisturbed`): its counts are those
  of the table, its page is a slice of some ordering, and, where rows differ in the field ordered by, the
  pages before hold the rows whose rank is below the offset (`EarlierFit`). Ranks make every ordering the same list
  (`PlaceIsRank`), so it does not matter that the database may order each page anew. The status is a case
  distinction (`StatusesAgree`) over the three columns and their NULLs.
- *Statistics.* `StatInv`: what is answered and what is left of a request make up the frames it was cut into
  (`MakeUp`), whatever xivo-stat does meanwhile. `SubintervalsTile` is arithmetic: the number of pieces is a division
  rounded up, so the last one reaches the end and the one before does not. `AnswersInv` adds what is true unless the
  batch ran: each item, and each half of one, is what the tables say (`Right`, `HalfRight`), and there is a row for an hour
  of a queue exactly where there is a call (`RowsTell`). The figures are sums of cardinalities. `FibresAddUp` turns such a sum
  into one cardinality, by a bijection from the places of the sum to the things counted, and
  `PartsAddUp` does so for parts of a set, which then count no more than it and, if they cover it, as much.
  It remains to name the parts: the queues of an agent, the buckets of a list of thresholds
  (`OneBucketEach`), and the intervals of a period, which have no time in common (`PiecesNest`) and, when no hour is left
  out, cover it (`TilesCover`). A queue is counted from rows of hours and a call has a time within its hour:
  in frames of whole hours the two agree (`WholeHoursHold`), and elsewhere the row decides for all its calls (`Telling`).
  Both proofs are of `SearchNext` and `StatNext` alone.

Every invariant and action property of the passing runs is stated by a theorem. `GroupsRecordTheirChannels`, the bookkeeping of
the groups, is only proved: it is what the other two invariants of the grouping rest on. Only model-checked:
`EventuallyRecorded` and `ExportSettles`, liveness under fairness being out of the prover's reach. `AnswersInv` and `StatInv`,
like the other inductive invariants, held in TLC on the instance of their run before they were proved. That the fold in `GroupCelsBySharedChannels` computes what the loop of `CelGrouping` does is
by reading: both apply `AbsorbSequence` in ascending order of linkedids.

## Not modelled

- **REST API**: routing, authorisation, serialisation. It keeps no state; what its handlers
  do to the tables is in the modules above. CSV output, `LIKE` patterns and tags of
  searches are left out with it.
- **Life cycle of the daemon**: the order in which threads start and stop. What a
  restart does to each part is an action of that part's module.
- **Database schema and setup**: declarations. The foreign keys, cascades and unique columns that
  decide an outcome are in the actions. Migrations run once, with nothing else running.
- **Configuration, utilities, e-mail**: pure functions, and a message sent after the state of an
  export is final.
- **Time zones in statistics**: intervals in local time over a change of the clock, and months counted
  from the 31st. They need a calendar, which no property here is about otherwise.
- **Text of call logs**: names of participants, the user field, and the parsing of CELs' `extra`, of which only
  failure is modelled.

## What is left

1. Generation: a run with a chain of three linkedids for the one-hop query
   (`database/queries/cel.py:43`), and tenants created between the two readings of
   `sync_db.py:77`.
2. Theorems: that `GroupCelsBySharedChannels`, the fold, gives what the loop of `CelGrouping` ends with, which needs an
   induction over the linkedids the prover cannot instantiate and would have to be carried by the loop's own
   invariant.
