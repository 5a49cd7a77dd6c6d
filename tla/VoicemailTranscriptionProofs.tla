--------------------- MODULE VoicemailTranscriptionProofs ---------------------
(***************************************************************************)
(* The invariants of transcriptions and of the settings they live beside,  *)
(* for any tenants, messages and requests, and any number of events in any *)
(* order, redelivered any number of times.                                 *)
(***************************************************************************)
EXTENDS VoicemailTranscription, RetentionSettingsProofs

allVars == <<settings, transcriptVars>>

TranscriptSpec == TranscriptInit /\ [][TranscriptNext]_allVars

-----------------------------------------------------------------------------
LEMMA SettingsStep == SettingsInv /\ [TranscriptNext]_allVars => SettingsInv'
<1> SUFFICES ASSUME SettingsInv, [TranscriptNext]_allVars PROVE SettingsInv'
  OBVIOUS
<1>1. CASE UNCHANGED settings
  BY <1>1, NoChangeKeeps
<1>2. ASSUME NEW p \in Put, NEW t \in Tenant, NEW want \in Request,
             PutFindsOrCreates(p, t, want)
      PROVE  SettingsInv'
  BY <1>2, FindsOrCreatesKeeps
<1>3. ASSUME NEW p \in Put, PutUpdates(p) PROVE SettingsInv'
  BY <1>3, UpdateKeeps
<1>4. ASSUME NEW file \in FileDays, NEW again \in BOOLEAN, Restart(file, again)
      PROVE  SettingsInv'
  BY <1>4, RestartKeeps DEF Restart
<1>5. ASSUME NEW t \in tenants, TenantsDeleted({t}) PROVE SettingsInv'
  BY <1>5, DropKeeps DEF TenantsDeleted
<1> QED BY <1>1, <1>2, <1>3, <1>4, <1>5 DEF TranscriptNext, allVars

(* What a PUT was told to have set stays in force, column by column where  *)
(* requests overlapped, while transcriptions and removals come and go and  *)
(* the daemon starts again.                                                *)
THEOREM SettingsStayPromised == TranscriptSpec => []PromisedSettingsInForce
<1>1. SettingsInv => PromisedSettingsInForce
  BY DEF SettingsInv
<1>2. TranscriptInit => SettingsInv
  BY SettingsStart DEF TranscriptInit
<1> QED BY <1>1, <1>2, SettingsStep, PTL DEF TranscriptSpec

-----------------------------------------------------------------------------
(***************************************************************************)
(* Transcriptions.  The consumer's event decides what its steps may be;    *)
(* only an event whose tenant holds the row reaches the update, and        *)
(* between a change of a row and its announcement the row is what the      *)
(* announcement will say, unless the tenant has gone.                      *)
(***************************************************************************)
Handling ==
    [step : {"create", "fetch", "update", "created"}, event : Completed]
        \cup [step : {"find", "delete", "deleted"}, event : Deleted]

TranscriptShape ==
    /\ DOMAIN transcripts \subseteq Message
    /\ transcripts = [m \in DOMAIN transcripts |-> transcripts[m]]
    /\ \A m \in DOMAIN transcripts : transcripts[m] \in [tenant : tenants, text : Text]
    /\ queued \subseteq sent
    /\ sent \subseteq Completed \cup Deleted
    /\ handling = Idle \/ (handling \in Handling /\ Event \in sent)
    /\ announced = [m \in Message |-> announced[m]]

UpdatesItsTenant ==
    At("update") /\ Stored => transcripts[Event.message].tenant = Event.tenant

Told(m) == announced[m] = {transcripts[x].text : x \in DOMAIN transcripts \cap {m}}

AboutToTell(m) ==
    /\ At("created") => m \in DOMAIN transcripts /\ transcripts[m].text = Event.text
    /\ At("deleted") => m \notin DOMAIN transcripts

ToldOrAbout ==
    \A m \in Message \ unsure :
        IF handling # Idle /\ Event.message = m /\ (At("created") \/ At("deleted"))
        THEN AboutToTell(m)
        ELSE Told(m)

TranscriptInv == SettingsInv /\ TranscriptShape /\ UpdatesItsTenant /\ ToldOrAbout

LEMMA EventTyped ==
    ASSUME TranscriptShape, handling # Idle
    PROVE  /\ handling \in Handling /\ Event \in sent /\ Event.message \in Message
           /\ handling.step \in {"create", "fetch", "update", "created"} =>
                  Event \in Completed /\ Event.text \in Text
BY DEF TranscriptShape, Handling, Event, Completed, Deleted

(* A step of the consumer that goes on to another one, rows untouched.     *)
LEMMA GoesOn ==
    ASSUME TranscriptInv, handling # Idle, NEW next,
           [handling EXCEPT !.step = next] \in Handling,
           Goto(next), UNCHANGED <<settings, transcripts, sent, queued, announced, unsure>>,
           ~At("created"), ~At("deleted"), next # "created", next # "deleted",
           next = "update" /\ Stored => transcripts[Event.message].tenant = Event.tenant
    PROVE  TranscriptInv'
<1>1. handling \in Handling /\ Event \in sent
  BY EventTyped DEF TranscriptInv
<1>2. handling' = [handling EXCEPT !.step = next]
  BY DEF Goto
<1>3. handling'.event = handling.event /\ handling'.step = next
  BY <1>1, <1>2 DEF Handling
<1>4. SettingsInv'
  BY NoChangeKeeps DEF TranscriptInv
<1>5. TranscriptShape'
  BY <1>1, <1>2, <1>3 DEF TranscriptInv, TranscriptShape, Event, settings
<1>6. UpdatesItsTenant'
  BY <1>3 DEF UpdatesItsTenant, At, Stored, Event
<1>7. ToldOrAbout'
  BY <1>3 DEF TranscriptInv, ToldOrAbout, Told, At
<1> QED BY <1>4, <1>5, <1>6, <1>7 DEF TranscriptInv

(* A step of the consumer that gives the event up, rows untouched.         *)
LEMMA GivesUp ==
    ASSUME TranscriptInv, handling # Idle, handling' = Idle,
           UNCHANGED <<settings, transcripts, sent, queued, announced, unsure>>,
           ~At("created"), ~At("deleted")
    PROVE  TranscriptInv'
<1>1. SettingsInv'
  BY NoChangeKeeps DEF TranscriptInv
<1>2. TranscriptShape'
  BY DEF TranscriptInv, TranscriptShape, settings
<1>3. UpdatesItsTenant'
  BY DEF UpdatesItsTenant, At, Idle
<1>4. ToldOrAbout'
  BY DEF TranscriptInv, ToldOrAbout, Told, At
<1> QED BY <1>1, <1>2, <1>3, <1>4 DEF TranscriptInv

(* A step of the consumer that writes the row of its event.                *)
LEMMA Writes ==
    ASSUME TranscriptInv, handling # Idle, Event \in Completed, ~At("created"), ~At("deleted"),
           DOMAIN transcripts' = DOMAIN transcripts \cup {Event.message},
           transcripts' = [m \in DOMAIN transcripts' |-> transcripts'[m]],
           transcripts'[Event.message] = [tenant |-> Event.tenant, text |-> Event.text],
           \A m \in DOMAIN transcripts \ {Event.message} : transcripts'[m] = transcripts[m],
           Event.tenant \in tenants,
           handling.step \in {"create", "fetch", "update", "created"},
           Goto("created"), UNCHANGED <<settings, sent, queued, announced, unsure>>
    PROVE  TranscriptInv'
<1>1. handling \in Handling /\ Event \in sent /\ Event.message \in Message /\ Event.text \in Text
  BY EventTyped DEF TranscriptInv
<1>2. handling' = [handling EXCEPT !.step = "created"]
  BY DEF Goto
<1>3. handling' \in Handling /\ handling'.event = handling.event /\ handling'.step = "created"
  BY <1>1, <1>2 DEF Handling, Event
<1>4. SettingsInv'
  BY NoChangeKeeps DEF TranscriptInv
<1>5. TranscriptShape'
  <2>1. \A m \in DOMAIN transcripts' : transcripts'[m] \in [tenant : tenants', text : Text]
    BY <1>1 DEF TranscriptInv, TranscriptShape, settings
  <2> QED BY <1>1, <1>3, <2>1 DEF TranscriptInv, TranscriptShape, Event
<1>6. UpdatesItsTenant'
  BY <1>3 DEF UpdatesItsTenant, At
<1>7. ToldOrAbout'
  <2> SUFFICES ASSUME NEW m \in Message \ unsure
               PROVE  IF handling'.event.message = m THEN AboutToTell(m)' ELSE Told(m)'
    BY <1>3 DEF ToldOrAbout, At, Event, Idle
  <2>1. CASE Event.message = m
    BY <1>3, <2>1 DEF AboutToTell, At, Event
  <2>2. CASE Event.message # m
    <3>1. Told(m)
      BY <2>2 DEF TranscriptInv, ToldOrAbout
    <3>2. {transcripts'[x].text : x \in DOMAIN transcripts' \cap {m}}
            = {transcripts[x].text : x \in DOMAIN transcripts \cap {m}}
      BY <2>2
    <3> QED BY <1>3, <2>2, <3>1, <3>2 DEF Told, Event
  <2> QED BY <2>1, <2>2
<1> QED BY <1>4, <1>5, <1>6, <1>7 DEF TranscriptInv

LEMMA NotIdleAt ==
    ASSUME NEW step, step # "idle", At(step)
    PROVE  handling # Idle /\ handling.step = step
BY DEF At, Idle

LEMMA CreateStep == TranscriptInv /\ Create /\ UNCHANGED settings => TranscriptInv'
<1> SUFFICES ASSUME TranscriptInv, Create, UNCHANGED settings PROVE TranscriptInv'
  OBVIOUS
<1>1. handling # Idle /\ handling.step = "create" /\ ~At("created") /\ ~At("deleted")
  BY NotIdleAt DEF Create, At
<1>2. handling \in Handling /\ Event \in Completed
  BY <1>1, EventTyped DEF TranscriptInv
<1>3. UNCHANGED <<settings, sent, queued, announced, unsure>>
  BY DEF Create
<1>4. CASE Stored /\ Goto("fetch") /\ UNCHANGED transcripts
  <2>1. [handling EXCEPT !.step = "fetch"] \in Handling
    BY <1>2 DEF Handling, Event
  <2> QED BY <1>1, <1>3, <1>4, <2>1, GoesOn
<1>5. CASE /\ ~Stored /\ Event.tenant \in tenants
           /\ transcripts' = [m \in DOMAIN transcripts \cup {Event.message} |->
                                 IF m = Event.message
                                 THEN [tenant |-> Event.tenant, text |-> Event.text]
                                 ELSE transcripts[m]]
           /\ Goto("created")
  <2>1. /\ DOMAIN transcripts' = DOMAIN transcripts \cup {Event.message}
        /\ transcripts' = [m \in DOMAIN transcripts' |-> transcripts'[m]]
        /\ transcripts'[Event.message] = [tenant |-> Event.tenant, text |-> Event.text]
        /\ \A m \in DOMAIN transcripts \ {Event.message} : transcripts'[m] = transcripts[m]
    BY <1>5
  <2> QED BY <1>1, <1>2, <1>3, <1>5, <2>1, Writes
<1>6. CASE ~Stored /\ Event.tenant \notin tenants /\ handling' = Idle /\ UNCHANGED transcripts
  BY <1>1, <1>3, <1>6, GivesUp
<1> QED BY <1>4, <1>5, <1>6 DEF Create

LEMMA FetchStep == TranscriptInv /\ Fetch /\ UNCHANGED settings => TranscriptInv'
<1> SUFFICES ASSUME TranscriptInv, Fetch, UNCHANGED settings PROVE TranscriptInv'
  OBVIOUS
<1>1. handling # Idle /\ handling.step = "fetch" /\ ~At("created") /\ ~At("deleted")
  BY NotIdleAt DEF Fetch, At
<1>2. UNCHANGED <<settings, transcripts, sent, queued, announced, unsure>>
  BY DEF Fetch
<1>3. CASE Stored /\ transcripts[Event.message].tenant = Event.tenant /\ Goto("update")
  <2>1. [handling EXCEPT !.step = "update"] \in Handling
    BY <1>1, EventTyped DEF TranscriptInv, Handling, Event
  <2> QED BY <1>1, <1>2, <1>3, <2>1, GoesOn
<1>4. CASE handling' = Idle
  BY <1>1, <1>2, <1>4, GivesUp
<1> QED BY <1>3, <1>4 DEF Fetch

(* The row updated is in the tenant of the event, which therefore exists.  *)
LEMMA UpdateStep == TranscriptInv /\ Update /\ UNCHANGED settings => TranscriptInv'
<1> SUFFICES ASSUME TranscriptInv, Update, UNCHANGED settings PROVE TranscriptInv'
  OBVIOUS
<1>1. handling # Idle /\ handling.step = "update" /\ ~At("created") /\ ~At("deleted")
  BY NotIdleAt DEF Update, At
<1>2. UNCHANGED <<settings, sent, queued, announced, unsure>>
  BY DEF Update
<1>3. CASE Stored
  <2>1. Event \in Completed
    BY <1>1, EventTyped DEF TranscriptInv
  <2>2. Event.tenant \in tenants
    BY <1>3 DEF TranscriptInv, TranscriptShape, UpdatesItsTenant, Update, Stored
  <2>3. /\ transcripts' = [transcripts EXCEPT ![Event.message] =
                              [tenant |-> Event.tenant, text |-> Event.text]]
        /\ Goto("created")
    BY <1>3 DEF Update
  <2>4. /\ DOMAIN transcripts' = DOMAIN transcripts \cup {Event.message}
        /\ transcripts' = [m \in DOMAIN transcripts' |-> transcripts'[m]]
        /\ transcripts'[Event.message] = [tenant |-> Event.tenant, text |-> Event.text]
        /\ \A m \in DOMAIN transcripts \ {Event.message} : transcripts'[m] = transcripts[m]
    BY <1>3, <2>3 DEF Stored
  <2> QED BY <1>1, <1>2, <2>1, <2>2, <2>3, <2>4, Writes
<1>4. CASE ~Stored
  BY <1>1, <1>2, <1>4, GivesUp DEF Update
<1> QED BY <1>3, <1>4

LEMMA NotifyStep ==
    TranscriptInv /\ (NotifyCreated \/ NotifyDeleted) /\ UNCHANGED settings => TranscriptInv'
<1> SUFFICES ASSUME TranscriptInv, NotifyCreated \/ NotifyDeleted, UNCHANGED settings
             PROVE  TranscriptInv'
  OBVIOUS
<1>1. handling # Idle /\ handling' = Idle /\ (At("created") \/ At("deleted"))
  BY NotIdleAt DEF NotifyCreated, NotifyDeleted
<1>2. UNCHANGED <<settings, transcripts, sent, queued, unsure>>
  BY DEF NotifyCreated, NotifyDeleted
<1>3. Event.message \in Message /\ announced = [m \in Message |-> announced[m]]
  BY <1>1, EventTyped DEF TranscriptInv, TranscriptShape
<1>4. announced' = [m \in Message |-> announced'[m]]
  BY <1>3 DEF NotifyCreated, NotifyDeleted
<1>5. SettingsInv'
  BY NoChangeKeeps DEF TranscriptInv
<1>6. TranscriptShape'
  BY <1>1, <1>2, <1>4 DEF TranscriptInv, TranscriptShape, settings
<1>7. UpdatesItsTenant'
  BY <1>1 DEF UpdatesItsTenant, At, Idle
<1>8. ToldOrAbout'
  <2> SUFFICES ASSUME NEW m \in Message \ unsure PROVE Told(m)'
    BY <1>1, <1>2 DEF ToldOrAbout
  <2>1. CASE Event.message # m
    <3>1. announced'[m] = announced[m] /\ Told(m)
      BY <1>3, <2>1 DEF NotifyCreated, NotifyDeleted, TranscriptInv, ToldOrAbout
    <3> QED BY <1>2, <3>1 DEF Told
  <2>2. CASE Event.message = m
    <3>1. AboutToTell(m)
      BY <1>1, <2>2 DEF TranscriptInv, ToldOrAbout
    <3>2. CASE NotifyCreated
      <4>1. announced'[m] = {Event.text} /\ At("created")
        BY <1>3, <2>2, <3>2 DEF NotifyCreated
      <4> QED BY <1>2, <3>1, <4>1 DEF AboutToTell, Told
    <3>3. CASE NotifyDeleted
      <4>1. announced'[m] = {} /\ At("deleted")
        BY <1>3, <2>2, <3>3 DEF NotifyDeleted
      <4> QED BY <1>2, <3>1, <4>1 DEF AboutToTell, Told
    <3> QED BY <3>2, <3>3
  <2> QED BY <2>1, <2>2
<1> QED BY <1>5, <1>6, <1>7, <1>8 DEF TranscriptInv

LEMMA FindStep == TranscriptInv /\ Find /\ UNCHANGED settings => TranscriptInv'
<1> SUFFICES ASSUME TranscriptInv, Find, UNCHANGED settings PROVE TranscriptInv'
  OBVIOUS
<1>1. handling # Idle /\ handling.step = "find" /\ ~At("created") /\ ~At("deleted")
  BY NotIdleAt DEF Find, At
<1>2. UNCHANGED <<settings, transcripts, sent, queued, announced, unsure>>
  BY DEF Find
<1>3. CASE Goto("delete")
  <2>1. [handling EXCEPT !.step = "delete"] \in Handling
    BY <1>1, EventTyped DEF TranscriptInv, Handling, Event
  <2> QED BY <1>1, <1>2, <1>3, <2>1, GoesOn
<1>4. CASE handling' = Idle
  BY <1>1, <1>2, <1>4, GivesUp
<1> QED BY <1>3, <1>4 DEF Find

LEMMA DeleteStep == TranscriptInv /\ Delete_ /\ UNCHANGED settings => TranscriptInv'
<1> SUFFICES ASSUME TranscriptInv, Delete_, UNCHANGED settings PROVE TranscriptInv'
  OBVIOUS
<1>1. handling # Idle /\ handling.step = "delete" /\ ~At("created") /\ ~At("deleted")
  BY NotIdleAt DEF Delete_, At
<1>2. handling \in Handling /\ Event \in sent
  BY <1>1, EventTyped DEF TranscriptInv
<1>3. /\ DOMAIN transcripts' = DOMAIN transcripts \ {Event.message}
      /\ transcripts' = [m \in DOMAIN transcripts' |-> transcripts'[m]]
      /\ \A m \in DOMAIN transcripts' : transcripts'[m] = transcripts[m]
      /\ UNCHANGED <<settings, sent, queued, announced, unsure>>
  BY DEF Delete_, Without
<1>4. handling' = Idle \/ (handling' \in Handling /\ handling'.step = "deleted"
                          /\ handling'.event = handling.event)
  <2>1. [handling EXCEPT !.step = "deleted"] \in Handling
    BY <1>1, <1>2 DEF Handling
  <2> QED BY <1>2, <2>1 DEF Delete_, Goto, Handling
<1>5. SettingsInv'
  BY NoChangeKeeps DEF TranscriptInv
<1>6. TranscriptShape'
  BY <1>2, <1>3, <1>4 DEF TranscriptInv, TranscriptShape, Event, settings
<1>7. UpdatesItsTenant'
  BY <1>4 DEF UpdatesItsTenant, At, Idle
<1>8. ToldOrAbout'
  <2> SUFFICES ASSUME NEW m \in Message \ unsure
               PROVE  /\ handling'.step = "deleted" /\ Event.message = m
                             => m \notin DOMAIN transcripts'
                      /\ ~(handling'.step = "deleted" /\ Event.message = m) => Told(m)'
    BY <1>3, <1>4 DEF ToldOrAbout, AboutToTell, At, Event, Idle
  <2>1. Told(m)
    BY <1>1 DEF TranscriptInv, ToldOrAbout
  <2>2. CASE Event.message # m
    <3>1. {transcripts'[x].text : x \in DOMAIN transcripts' \cap {m}}
            = {transcripts[x].text : x \in DOMAIN transcripts \cap {m}}
      BY <1>3, <2>2
    <3> QED BY <1>3, <2>1, <2>2, <3>1 DEF Told
  <2>3. CASE Event.message = m /\ ~Stored
    BY <1>3, <2>1, <2>3 DEF Told, Stored
  <2>4. CASE Event.message = m /\ Stored
    <3>1. handling'.step = "deleted"
      BY <1>2, <2>4 DEF Delete_, Goto, Handling
    <3> QED BY <1>3, <2>4, <3>1
  <2> QED BY <2>2, <2>3, <2>4
<1> QED BY <1>5, <1>6, <1>7, <1>8 DEF TranscriptInv

-----------------------------------------------------------------------------
(***************************************************************************)
(* What happens around the consumer.                                       *)
(***************************************************************************)
LEMMA EventsArrive ==
    /\ TranscriptInv /\ UNCHANGED settings
    /\ \/ \E e \in Completed \cup Deleted : Publish(e)
       \/ \E e \in queued, again \in BOOLEAN : Deliver(e, again)
    => TranscriptInv'
<1> SUFFICES ASSUME TranscriptInv, UNCHANGED settings,
                    \/ \E e \in Completed \cup Deleted : Publish(e)
                    \/ \E e \in queued, again \in BOOLEAN : Deliver(e, again)
             PROVE  TranscriptInv'
  OBVIOUS
<1>1. SettingsInv'
  BY NoChangeKeeps DEF TranscriptInv
<1>2. CASE \E e \in Completed \cup Deleted : Publish(e)
  <2>1. UNCHANGED <<transcripts, handling, announced, unsure, tenants>>
    BY <1>2 DEF Publish, settings
  <2>2. TranscriptShape'
    BY <1>2, <2>1 DEF Publish, TranscriptInv, TranscriptShape, Event
  <2>3. UpdatesItsTenant' /\ ToldOrAbout'
    BY <2>1 DEF TranscriptInv, UpdatesItsTenant, ToldOrAbout, AboutToTell, Told, At, Stored, Event
  <2> QED BY <1>1, <2>2, <2>3 DEF TranscriptInv
<1>3. CASE \E e \in queued, again \in BOOLEAN : Deliver(e, again)
  <2>1. PICK e \in queued, again \in BOOLEAN : Deliver(e, again)
    BY <1>3
  <2>2. e \in sent /\ e \in Completed \cup Deleted
    BY DEF TranscriptInv, TranscriptShape
  <2>3. handling = Idle /\ UNCHANGED <<transcripts, sent, announced, unsure, tenants>>
        /\ queued' \subseteq queued
    BY <2>1 DEF Deliver, settings
  <2>4. /\ handling' \in Handling /\ handling'.event = e
        /\ handling'.step \in {"create", "find"}
    BY <2>1, <2>2 DEF Deliver, Handling
  <2>5. TranscriptShape'
    BY <2>2, <2>3, <2>4 DEF TranscriptInv, TranscriptShape, Event
  <2>6. UpdatesItsTenant'
    BY <2>4 DEF UpdatesItsTenant, At
  <2>7. ToldOrAbout'
    BY <2>3, <2>4 DEF TranscriptInv, ToldOrAbout, Told, At
  <2> QED BY <1>1, <2>5, <2>6, <2>7 DEF TranscriptInv
<1> QED BY <1>2, <1>3

LEMMA RestartStep ==
    ASSUME TranscriptInv, NEW file \in FileDays, NEW again \in BOOLEAN, Restart(file, again)
    PROVE  TranscriptInv'
<1>1. /\ handling' = Idle /\ UNCHANGED <<transcripts, sent, announced, tenants>>
      /\ unsure \subseteq unsure'
  BY DEF Restart, UpdateDbFromConfigFile
<1>2. SettingsInv'
  BY RestartKeeps DEF Restart, TranscriptInv
<1>3. queued' \subseteq sent
  BY DEF Restart, TranscriptInv, TranscriptShape
<1>4. TranscriptShape'
  BY <1>1, <1>3 DEF TranscriptInv, TranscriptShape
<1>5. UpdatesItsTenant'
  BY <1>1 DEF UpdatesItsTenant, At, Idle
<1>6. ToldOrAbout'
  <2> SUFFICES ASSUME NEW m \in Message \ unsure' PROVE Told(m)'
    BY <1>1 DEF ToldOrAbout
  <2>1. m \in Message \ unsure /\ ~(handling # Idle /\ Event.message = m)
    BY <1>1 DEF Restart
  <2>2. Told(m)
    BY <2>1 DEF TranscriptInv, ToldOrAbout
  <2> QED BY <1>1, <2>2 DEF Told
<1> QED BY <1>2, <1>4, <1>5, <1>6 DEF TranscriptInv

LEMMA TenantsDeletedStep ==
    ASSUME TranscriptInv, NEW gone, TenantsDeleted(gone)
    PROVE  TranscriptInv'
<1> DEFINE lost == {m \in DOMAIN transcripts : transcripts[m].tenant \in gone}
<1>1. /\ DOMAIN transcripts' = DOMAIN transcripts \ lost
      /\ transcripts' = [m \in DOMAIN transcripts' |-> transcripts'[m]]
      /\ \A m \in DOMAIN transcripts' : transcripts'[m] = transcripts[m]
      /\ unsure' = unsure \cup lost
      /\ tenants' = tenants \ gone
      /\ UNCHANGED <<sent, queued, handling, announced>>
  BY DEF TenantsDeleted, Without, DropTenants
<1>2. SettingsInv'
  BY DropKeeps DEF TenantsDeleted, TranscriptInv
<1>3. TranscriptShape'
  <2>1. \A m \in DOMAIN transcripts' : transcripts'[m] \in [tenant : tenants', text : Text]
    BY <1>1 DEF TranscriptInv, TranscriptShape
  <2> QED BY <1>1, <2>1 DEF TranscriptInv, TranscriptShape, Event
<1>4. UpdatesItsTenant'
  BY <1>1 DEF TranscriptInv, UpdatesItsTenant, At, Stored, Event
<1>5. ToldOrAbout'
  <2> SUFFICES ASSUME NEW m \in Message \ unsure'
               PROVE  /\ AboutToTell(m) => AboutToTell(m)'
                      /\ Told(m) => Told(m)'
    BY <1>1 DEF TranscriptInv, ToldOrAbout, At, Event
  <2>1. m \notin lost
    BY <1>1
  <2> HIDE DEF lost
  <2>2. {transcripts'[x].text : x \in DOMAIN transcripts' \cap {m}}
          = {transcripts[x].text : x \in DOMAIN transcripts \cap {m}}
    BY <1>1, <2>1
  <2>3. Told(m) => Told(m)'
    BY <1>1, <2>2 DEF Told
  <2>4. AboutToTell(m) => AboutToTell(m)'
    BY <1>1, <2>1 DEF AboutToTell, At, Event
  <2> QED BY <2>3, <2>4
<1> QED BY <1>2, <1>3, <1>4, <1>5 DEF TranscriptInv

(* PUT requests only add tenants.                                          *)
LEMMA SettingsChange ==
    ASSUME TranscriptInv, UNCHANGED transcriptVars, SettingsInv', tenants \subseteq tenants'
    PROVE  TranscriptInv'
<1>1. TranscriptShape'
  <2>1. \A m \in DOMAIN transcripts' : transcripts'[m] \in [tenant : tenants', text : Text]
    BY DEF TranscriptInv, TranscriptShape, transcriptVars
  <2> QED BY <2>1 DEF TranscriptInv, TranscriptShape, transcriptVars, Event
<1>2. UpdatesItsTenant' /\ ToldOrAbout'
  BY DEF TranscriptInv, UpdatesItsTenant, ToldOrAbout, AboutToTell, Told, At, Stored, Event,
         transcriptVars
<1> QED BY <1>1, <1>2 DEF TranscriptInv

LEMMA TranscriptStep == TranscriptInv /\ [TranscriptNext]_allVars => TranscriptInv'
<1> SUFFICES ASSUME TranscriptInv, [TranscriptNext]_allVars PROVE TranscriptInv'
  OBVIOUS
<1>1. SettingsInv'
  BY SettingsStep DEF TranscriptInv
<1>2. CASE UNCHANGED allVars
  BY <1>1, <1>2, SettingsChange DEF allVars, settings
<1>3. CASE \/ \E e \in Completed \cup Deleted : Publish(e) /\ UNCHANGED settings
           \/ \E e \in queued, again \in BOOLEAN : Deliver(e, again) /\ UNCHANGED settings
  BY <1>3, EventsArrive
<1>4. CASE HandlerStep /\ UNCHANGED settings
  BY <1>4, CreateStep, FetchStep, UpdateStep, NotifyStep, FindStep, DeleteStep DEF HandlerStep
<1>5. CASE \E file \in FileDays, again \in BOOLEAN : Restart(file, again)
  BY <1>5, RestartStep
<1>6. CASE \E p \in Put, t \in Tenant, want \in Request :
              PutFindsOrCreates(p, t, want) /\ UNCHANGED transcriptVars
  BY <1>1, <1>6, SettingsChange DEF PutFindsOrCreates
<1>7. CASE \E p \in Put : PutUpdates(p) /\ UNCHANGED transcriptVars
  BY <1>1, <1>7, SettingsChange DEF PutUpdates
<1>8. CASE \E t \in tenants : TenantsDeleted({t})
  BY <1>8, TenantsDeletedStep
<1> QED BY <1>2, <1>3, <1>4, <1>5, <1>6, <1>7, <1>8 DEF TranscriptNext

LEMMA TranscriptStart == TranscriptInit => TranscriptInv
<1> SUFFICES ASSUME TranscriptInit PROVE TranscriptInv
  OBVIOUS
<1>1. SettingsInv
  BY SettingsStart DEF TranscriptInit
<1>2. TranscriptShape
  BY DEF TranscriptInit, TranscriptShape
<1>3. UpdatesItsTenant
  BY DEF TranscriptInit, UpdatesItsTenant, At, Idle
<1>4. ToldOrAbout
  BY DEF TranscriptInit, ToldOrAbout, Told
<1> QED BY <1>1, <1>2, <1>3, <1>4 DEF TranscriptInv

LEMMA TranscriptInvariant == TranscriptSpec => []TranscriptInv
BY TranscriptStart, TranscriptStep, PTL DEF TranscriptSpec

-----------------------------------------------------------------------------
(* Rows keep their shapes and belong to tenants that exist.                *)
THEOREM TypeCorrect == TranscriptSpec => []TranscriptTypeOK
<1>1. TranscriptInv => TranscriptTypeOK
  <2> SUFFICES ASSUME TranscriptInv PROVE TranscriptTypeOK
    OBVIOUS
  <2>1. SettingsTypeOK
    BY SettingsTyped DEF TranscriptInv
  <2> QED BY <2>1 DEF TranscriptInv, TranscriptShape, TranscriptTypeOK
<1> QED BY <1>1, TranscriptInvariant, PTL

(* What subscribers were told last is what is stored, whatever the order   *)
(* and the number of deliveries, but for messages whose tenant was removed *)
(* or whose handler a restart cut.                                         *)
THEOREM AnnouncementsAreTrue == TranscriptSpec => []TranscriptsMatchAnnouncements
<1>1. TranscriptInv => TranscriptsMatchAnnouncements
  BY DEF TranscriptInv, ToldOrAbout, Told, TranscriptsMatchAnnouncements
<1> QED BY <1>1, TranscriptInvariant, PTL

(* No event moves a stored transcription to another tenant.                *)
THEOREM TranscriptsKeepTheirTenant == TranscriptSpec => TranscriptKeepsTenant
<1> DEFINE kept == \A m \in DOMAIN transcripts \cap DOMAIN transcripts' :
                      transcripts'[m].tenant = transcripts[m].tenant
<1>1. TranscriptInv /\ [TranscriptNext]_allVars => [kept]_transcriptVars
  <2> SUFFICES ASSUME TranscriptInv, [TranscriptNext]_allVars PROVE kept
    OBVIOUS
  <2>1. CASE UNCHANGED transcripts
    BY <2>1
  <2>2. CASE Create
    BY <2>2 DEF Create, Stored
  <2>3. CASE Update
    BY <2>3 DEF Update, TranscriptInv, UpdatesItsTenant
  <2>4. CASE Delete_
    BY <2>4 DEF Delete_, Without
  <2>5. CASE \E t \in tenants : TenantsDeleted({t})
    BY <2>5 DEF TenantsDeleted, Without
  <2>6. \/ UNCHANGED transcripts \/ Create \/ Update \/ Delete_
        \/ \E t \in tenants : TenantsDeleted({t})
    BY DEF TranscriptNext, allVars, transcriptVars, HandlerStep, Publish, Deliver, Fetch, Find,
           NotifyCreated, NotifyDeleted, Restart
  <2> QED BY <2>1, <2>2, <2>3, <2>4, <2>5, <2>6
<1> QED BY <1>1, TranscriptInvariant, PTL DEF TranscriptSpec, TranscriptKeepsTenant
=============================================================================
