----------------------- MODULE VoicemailTranscription -----------------------
(***************************************************************************)
(* Transcriptions of voicemail messages.  Other services announce on the   *)
(* bus that a transcription is completed or that a message was deleted;    *)
(* the two come from different programs, so in any order, and the bus may  *)
(* deliver an event again.  The consumer handles one event at a time, each *)
(* as two or three transactions, while tenants come and go with the        *)
(* settings, deleting their transcriptions with them.                      *)
(***************************************************************************)
EXTENDS RetentionSettings

CONSTANTS Message, Text

Completed == [message : Message, tenant : Tenant, text : Text]
Deleted == [message : Message]

VARIABLES
    transcripts,    \* rows: message_id -> [tenant, text]; message_id is unique
    sent,           \* events published by the other services
    queued,         \* those still to be delivered
    handling        \* the event in the consumer, and the handler's next step

(* History, read by no action.                                             *)
VARIABLES
    announced,      \* text of the last 'created' event, or {} once 'deleted'
    unsure          \* messages a tenant's removal or a restart interfered with

transcriptVars == <<transcripts, sent, queued, handling, announced, unsure>>

Idle == [step |-> "idle"]

Without(f, gone) == [x \in DOMAIN f \ gone |-> f[x]]

TranscriptInit ==
    /\ SettingsInit
    /\ transcripts = [m \in {} |-> {}]
    /\ sent = {} /\ queued = {}
    /\ handling = Idle
    /\ announced = [m \in Message |-> {}]
    /\ unsure = {}

Publish(e) ==
    /\ e \notin sent
    /\ sent' = sent \cup {e}
    /\ queued' = queued \cup {e}
    /\ UNCHANGED <<transcripts, handling, announced, unsure>>

(* The consumer takes an event; the bus may keep it for another delivery.  *)
Deliver(e, again) ==
    /\ handling = Idle
    /\ e \in queued
    /\ handling' = [step |-> IF e \in Completed THEN "create" ELSE "find", event |-> e]
    /\ queued' = IF again THEN queued ELSE queued \ {e}
    /\ UNCHANGED <<transcripts, sent, announced, unsure>>

At(step) == handling.step = step
Event == handling.event
Stored == Event.message \in DOMAIN transcripts
Goto(step) == handling' = [handling EXCEPT !.step = step]

(* VoicemailTranscriptionDAO.create: the unique message_id is checked      *)
(* before the reference to the tenant, whose violation is the end of it.   *)
Create ==
    /\ At("create")
    /\ \/ Stored /\ Goto("fetch") /\ UNCHANGED transcripts
       \/ /\ ~Stored /\ Event.tenant \in tenants
          /\ transcripts' = [m \in DOMAIN transcripts \cup {Event.message} |->
                                IF m = Event.message
                                THEN [tenant |-> Event.tenant, text |-> Event.text]
                                ELSE transcripts[m]]
          /\ Goto("created")
       \/ /\ ~Stored /\ Event.tenant \notin tenants
          /\ handling' = Idle /\ UNCHANGED transcripts
    /\ UNCHANGED <<sent, queued, announced, unsure>>

(* Mutant: get_by_message_id without its tenant.                           *)
FetchesAny ==
    /\ At("fetch")
    /\ IF Stored THEN Goto("update") ELSE handling' = Idle
    /\ UNCHANGED <<transcripts, sent, queued, announced, unsure>>

(* get_by_message_id, in the tenant of the event only: when there is no    *)
(* such row the handler fails on None and the event is given up.           *)
Fetch ==
    /\ At("fetch")
    /\ IF Stored /\ transcripts[Event.message].tenant = Event.tenant
       THEN Goto("update") ELSE handling' = Idle
    /\ UNCHANGED <<transcripts, sent, queued, announced, unsure>>

(* VoicemailTranscriptionDAO.update: one() fails when the row has gone.    *)
Update ==
    /\ At("update")
    /\ IF Stored
       THEN /\ transcripts' = [transcripts EXCEPT ![Event.message] =
                                  [tenant |-> Event.tenant, text |-> Event.text]]
            /\ Goto("created")
       ELSE handling' = Idle /\ UNCHANGED transcripts
    /\ UNCHANGED <<sent, queued, announced, unsure>>

NotifyCreated ==
    /\ At("created")
    /\ announced' = [announced EXCEPT ![Event.message] = {Event.text}]
    /\ handling' = Idle
    /\ UNCHANGED <<transcripts, sent, queued, unsure>>

(* delete_transcription: the row is read first, for the notification.      *)
Find ==
    /\ At("find")
    /\ IF Stored THEN Goto("delete") ELSE handling' = Idle
    /\ UNCHANGED <<transcripts, sent, queued, announced, unsure>>

Delete_ ==
    /\ At("delete")
    /\ transcripts' = Without(transcripts, {Event.message})
    /\ IF Stored THEN Goto("deleted") ELSE handling' = Idle
    /\ UNCHANGED <<sent, queued, announced, unsure>>

(* Mutant: the notification is left out.                                   *)
NeverNotified ==
    /\ At("deleted")
    /\ handling' = Idle
    /\ UNCHANGED <<transcripts, sent, queued, announced, unsure>>

NotifyDeleted ==
    /\ At("deleted")
    /\ announced' = [announced EXCEPT ![Event.message] = {}]
    /\ handling' = Idle
    /\ UNCHANGED <<transcripts, sent, queued, unsure>>

(* The daemon starts again; the event it was handling may come back.       *)
Restart(file, again) ==
    /\ UpdateDbFromConfigFile(file)
    /\ handling' = Idle
    /\ IF handling = Idle
       THEN UNCHANGED <<queued, unsure>>
       ELSE /\ queued' = IF again THEN queued \cup {Event} ELSE queued
            /\ unsure' = unsure \cup {Event.message}
    /\ UNCHANGED <<transcripts, sent, announced>>

(* Mutant: the rows of the tenant do not go with it.                       *)
TenantsDeletedAlone(gone) == DropTenants(gone) /\ UNCHANGED transcriptVars

(* sync_db, or the bus event of wazo-auth: the rows of a tenant go with it. *)
TenantsDeleted(gone) ==
    /\ DropTenants(gone)
    /\ LET lost == {m \in DOMAIN transcripts : transcripts[m].tenant \in gone} IN
           /\ transcripts' = Without(transcripts, lost)
           /\ unsure' = unsure \cup lost
    /\ UNCHANGED <<sent, queued, handling, announced>>

HandlerStep ==
    \/ Create
    \/ Fetch
    \/ Update
    \/ NotifyCreated
    \/ Find
    \/ Delete_
    \/ NotifyDeleted

TranscriptNext ==
    \/ \E e \in Completed \cup Deleted : Publish(e) /\ UNCHANGED settings
    \/ \E e \in queued, again \in BOOLEAN : Deliver(e, again) /\ UNCHANGED settings
    \/ HandlerStep /\ UNCHANGED settings
    \/ \E file \in FileDays, again \in BOOLEAN : Restart(file, again)
    \/ \E p \in Put, t \in Tenant, want \in Request :
           PutFindsOrCreates(p, t, want) /\ UNCHANGED transcriptVars
    \/ \E p \in Put : PutUpdates(p) /\ UNCHANGED transcriptVars
    \/ \E t \in tenants : TenantsDeleted({t})

-----------------------------------------------------------------------------
(* Stored transcriptions belong to known tenants (the foreign key).        *)
TranscriptTypeOK ==
    /\ SettingsTypeOK
    /\ DOMAIN transcripts \subseteq Message
    /\ \A m \in DOMAIN transcripts :
           transcripts[m].tenant \in tenants /\ transcripts[m].text \in Text
    /\ queued \subseteq sent
    /\ handling = Idle \/ Event \in sent

(* What subscribers were told is what a listing returns: between events,   *)
(* the stored transcription of a message is the one announced last, and    *)
(* there is none when the last announcement was its deletion, whatever the *)
(* order and the number of deliveries; removals of tenants and restarts    *)
(* are not announced.                                                      *)
TranscriptsMatchAnnouncements ==
    handling = Idle =>
        \A m \in Message \ unsure :
            announced[m] = {transcripts[x].text : x \in DOMAIN transcripts \cap {m}}

(* A transcription never moves to another tenant, even when two tenants    *)
(* announce the same message.                                              *)
TranscriptKeepsTenant ==
    [][\A m \in DOMAIN transcripts \cap DOMAIN transcripts' :
           transcripts'[m].tenant = transcripts[m].tenant]_transcriptVars
=============================================================================
