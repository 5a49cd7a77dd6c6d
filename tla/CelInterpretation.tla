-------------------------- MODULE CelInterpretation --------------------------
(***************************************************************************)
(* How the CELs of one call become the fields of its call log.  The CELs   *)
(* of the first channel (the caller) are interpreted in their order, then  *)
(* those of all the other channels (the callees), in theirs: time starts   *)
(* over.  A call that the server originated through Local channels has an  *)
(* interpretor of its own.  The generator then completes the call log with *)
(* what wazo-confd knows of the lines, users and voicemails.               *)
(*                                                                         *)
(* Each handler is an operator from the call so far to the next one, as    *)
(* the EventInterpretor functions are.                                     *)
(***************************************************************************)
EXTENDS Integers, Sequences, FiniteSets, SequencesExt

CONSTANTS
    Channel,        \* channels in the order they start; 1 is the caller's
    User,           \* User[l]: the user of a line
    Extension,      \* Extension[l]: the main extension of a line, "" without one
    Known,          \* users that wazo-confd knows
    File,           \* recording files, with an uuid in their path: "none" is
                    \* that of a file without
    Tenant,
    MaxRecordings,  \* bound on the recordings of an originated call
    Scenario        \* what a call may be made of: the line of each channel, the
                    \* types of the CELs between the first and the last of a
                    \* channel, the numbers CELs carry, and bounds on time and
                    \* on the count of CELs

CelType == {"APP_START", "ANSWER", "BRIDGE_ENTER", "MIXMONITOR_START", "MIXMONITOR_STOP",
            "XIVO_FROM_S", "XIVO_INCALL", "XIVO_OUTCALL", "XIVO_USER_FWD",
            "WAZO_CONFERENCE", "WAZO_MEETING_NAME", "WAZO_USER_MISSED_CALL",
            "WAZO_USER_BLOCKED_CALL", "WAZO_CALL_LOG_DESTINATION",
            "WAZO_CALL_LOG_REQUESTED_INTERNAL"}

ASSUME InterpretationAssumption ==
    /\ \A s \in Scenario : /\ s.types \subseteq CelType
                          /\ s.maxTime \in Nat /\ s.maxEvents \in Nat
                          /\ s.line \in [Channel -> DOMAIN User]
    /\ IsFiniteSet(Channel) /\ Channel # {} /\ Channel = 1..Cardinality(Channel)
    /\ DOMAIN Extension = DOMAIN User
    /\ Known \subseteq {User[l] : l \in DOMAIN User}
    /\ "none" \notin File
    /\ MaxRecordings \in Nat

VARIABLES
    scenario,       \* what this call is made of
    phase,          \* "start", "caller", "callee", then "done" or "failed"
    now,            \* time of the CEL that is interpreted
    events,         \* counter for maxEvents
    call,           \* the RawCallLog
    log             \* the CallLog, once the generator has completed it

interpretation == <<scenario, phase, now, events, call, log>>

NULL == -1

Empty == ""     \* the text of what is not known

(* The line of a channel, by the channel's name.                           *)
Line == scenario.line

Meeting == "wazo-meeting"   \* an extension that only names a meeting

Stranger == 0   \* a peer that is a channel of another call

(* An internal extension is whole once its context is known too.           *)
NoExtension == [exten |-> Empty, context |-> FALSE]

Whole(extension) == extension.exten # Empty /\ extension.context

Announced == {"user", "conference", "meeting", "group"}

(* What no CEL has set yet; times are numbers, NULL when not known.        *)
NewCall ==
    [date |-> NULL, answer |-> NULL, end |-> NULL, source |-> Empty, requested |-> Empty,
     destination |-> Empty, name |-> Empty, details |-> "none", direction |-> "internal",
     tenant |-> Empty, forwarded |-> FALSE, blocked |-> FALSE, voicemail |-> FALSE,
     authoritative |-> FALSE, requestedType |-> FALSE, calleeBridge |-> TRUE,
     hidden |-> {"s"}, pending |-> FALSE, callerId |-> [c \in {} |-> Empty],
     requestedInternal |-> NoExtension, destinationInternal |-> NoExtension,
     raw |-> [c \in {} |-> {}], infos |-> <<>>, recordings |-> <<>>,
     originated |-> FALSE]

NoLog == [participants |-> {}, recordings |-> <<>>, tenant |-> Empty, details |-> "none",
          source |-> NoExtension, requested |-> NoExtension, destination |-> NoExtension]

Filter(exten) == IF exten \in call.hidden THEN Empty ELSE exten

(* The first tenant wins; another one is only logged.                      *)
SetTenant(old, new) == IF old = Empty THEN new ELSE old

Participant(c, role) ==
    [d \in DOMAIN call.raw \cup {c} |->
        IF d # c THEN call.raw[d]
        ELSE [role |-> role, answered |-> d \in DOMAIN call.raw /\ call.raw[d].answered]]

Answered(C) ==
    [d \in DOMAIN call.raw |->
        IF d \in C THEN [call.raw[d] EXCEPT !.answered = TRUE] ELSE call.raw[d]]

(* insert_or_update_participants_info, by user and role.                   *)
Info(user, role, requested) ==
    [user |-> user, role |-> role, missed |-> FALSE, requested |-> requested]

MissedBy(infos, user, role) ==
    LET same == {i \in DOMAIN infos : infos[i].user = user /\ infos[i].role = role}
    IN IF user = Empty THEN infos
       ELSE IF same = {} THEN Append(infos, [Info(user, role, FALSE) EXCEPT !.missed = TRUE])
       ELSE [infos EXCEPT ![CHOOSE i \in same : \A j \in same : i <= j].missed = TRUE]

-----------------------------------------------------------------------------
(***************************************************************************)
(* Handlers of the caller's CELs.                                          *)
(***************************************************************************)
ChanStart(num, exten) ==
    [NewCall EXCEPT !.date = 0,
                    !.source = IF num = "s" THEN Empty ELSE num,
                    !.requested = IF exten = "s" THEN Empty ELSE exten,
                    !.destination = IF exten = "s" THEN Empty ELSE exten,
                    !.raw = [c \in {1} |-> [role |-> "source", answered |-> FALSE]]]

(* Mutant: a hidden extension stays where it was already set.              *)
ChanEndUnfiltered ==
    [call EXCEPT !.end = now,
                 !.recordings = [i \in DOMAIN @ |-> IF @[i].end = NULL
                                                    THEN [@[i] EXCEPT !.end = now] ELSE @[i]]]

(* Extensions that turned out to be hidden are removed at the end only.    *)
ChanEnd ==
    [call EXCEPT !.end = now,
                 !.recordings = [i \in DOMAIN @ |-> IF @[i].end = NULL
                                                    THEN [@[i] EXCEPT !.end = now] ELSE @[i]],
                 !.source = Filter(@),
                 !.requested = Filter(@),
                 !.destination = Filter(@),
                 !.requestedInternal.exten = Filter(@),
                 !.destinationInternal.exten = Filter(@)]

VoicemailAppStart == [call EXCEPT !.voicemail = TRUE]

(* The voicemail is seen before a forwarded call is left alone.            *)
AppStart(num, voicemail) ==
    [(IF voicemail THEN VoicemailAppStart ELSE call) EXCEPT
        !.source = IF call.forwarded \/ num = Empty THEN @ ELSE Filter(num)]

Answer(num) ==
    [call EXCEPT !.destination = IF @ = Empty THEN num ELSE @,
                 !.requested = IF @ = Empty THEN Filter(num) ELSE @]

(* A holding bridge, as of a switchboard, does not answer the call.        *)
BridgeEnter(num, holding) ==
    [call EXCEPT !.source = IF @ = Empty THEN Filter(num) ELSE @,
                 !.answer = IF @ = NULL /\ ~holding THEN now ELSE @]

(* The mixmonitor_id of a recording is its place in the list.              *)
MixmonitorStart(file, side) ==
    [call EXCEPT !.recordings = Append(@,
        [uuid |-> file, start |-> now, end |-> NULL, final |-> FALSE, side |-> side])]

MixmonitorStop(i) ==
    [call EXCEPT !.recordings[i].end = now, !.recordings[i].final = TRUE]

XivoFromS(exten) ==
    [call EXCEPT !.requested = Filter(exten), !.destination = Filter(exten)]

XivoIncall(t) ==
    [call EXCEPT !.direction = "inbound", !.tenant = SetTenant(@, t)]

XivoOutcall(num) ==
    IF ~call.forwarded THEN [call EXCEPT !.direction = "outbound"]
    ELSE [call EXCEPT !.details = "none", !.destination = Filter(num), !.name = "outside"]

(* The first forward alone tells what was requested.                       *)
XivoUserFwd(exten) ==
    [call EXCEPT !.forwarded = TRUE,
                 !.requestedInternal = IF exten = Empty \/ call.forwarded THEN @
                                       ELSE [exten |-> Filter(exten), context |-> TRUE],
                 !.destination = IF exten = Empty THEN @ ELSE Filter(exten)]

WazoConference == [call EXCEPT !.name = "conference"]

WazoMeetingName ==
    [call EXCEPT !.name = "meeting",
                 !.hidden = IF call.destination = Meeting THEN @ \cup {Meeting} ELSE @]

WazoUserMissedCall(source, destination, num, t) ==
    [call EXCEPT !.infos = MissedBy(MissedBy(@, source, "source"), destination, "destination"),
                 !.tenant = SetTenant(@, t),
                 !.name = "missed",
                 !.source = num]

WazoUserBlockedCall(destination, num, t) ==
    [call EXCEPT !.infos = MissedBy(@, destination, "destination"),
                 !.tenant = SetTenant(@, t),
                 !.source = num,
                 !.blocked = TRUE]

(* Mutant: every announced user is the requested one.                      *)
AlwaysRequested(type, user) ==
    [call EXCEPT !.infos = IF type = "user"
                           THEN Append(@, Info(user, "destination", TRUE)) ELSE @,
                 !.name = IF type \in {"user", "group"} THEN type ELSE @,
                 !.requestedType = TRUE,
                 !.details = type,
                 !.authoritative = TRUE]

WazoCallLogDestination(type, user) ==
    [call EXCEPT !.infos = IF type = "user"
                           THEN Append(@, Info(user, "destination", ~call.requestedType)) ELSE @,
                 !.name = IF type \in {"user", "group"} THEN type ELSE @,
                 !.requestedType = TRUE,
                 !.details = type,
                 !.authoritative = TRUE]

(* The number and the context are each optional; a number is not filtered. *)
RequestedInternal(num, context) ==
    [call EXCEPT !.requestedInternal.exten = IF num = Empty THEN @ ELSE num,
                 !.requestedInternal.context = @ \/ context]

-----------------------------------------------------------------------------
(***************************************************************************)
(* Handlers of the callees' CELs.  A mobile phone that is woken up by a    *)
(* push notification is dialed by a Local channel that waits for it to     *)
(* register, then by a channel of its own.                                 *)
(***************************************************************************)
CalleeChanStart(c, num, kind) ==
    LET mobile == kind = "mobile" /\ call.pending
        named == call.direction # "outbound" /\ kind # "wait" /\ ~call.authoritative
    IN [call EXCEPT !.raw = Participant(c, "destination"),
                    !.callerId = [d \in DOMAIN @ \cup {c} |-> IF d = c THEN num ELSE @[d]],
                    !.pending = CASE call.direction = "outbound" -> @
                                  [] kind = "wait" /\ call.direction # "outbound" -> TRUE
                                  [] OTHER -> @ /\ ~mobile,
                    !.calleeBridge = IF mobile /\ call.direction # "outbound" THEN FALSE ELSE @,
                    !.destination = IF named THEN num ELSE @,
                    !.destinationInternal = IF mobile /\ call.direction # "outbound"
                                            THEN [exten |-> num, context |-> TRUE] ELSE @,
                    !.name = CASE call.direction = "outbound" -> Empty
                               [] named -> "callee"
                               [] OTHER -> @]

(* The end of the last callee ends the recordings no one has stopped.      *)
CalleeChanEnd ==
    [call EXCEPT !.recordings =
        [i \in DOMAIN @ |-> IF ~@[i].final /\ @[i].end < now
                            THEN [@[i] EXCEPT !.end = now] ELSE @[i]]]

(* Mutant: the number a channel started with is always the destination.    *)
CallerIdAlways(c, num, peers) ==
    [call EXCEPT !.raw = Answered({c} \cup peers),
                 !.destination = IF peers # {} THEN call.callerId[c] ELSE @]

(* The first callee to enter a bridge is the destination, and with it the  *)
(* number its channel started with.  A forward makes it so even after an   *)
(* announced destination.  Any peer counts, one of this call or not.       *)
CalleeBridgeEnter(c, num, peers) ==
    LET first == call.calleeBridge /\ (~call.authoritative \/ call.forwarded)
        entered == IF first /\ num \notin {Empty, "s"} THEN num ELSE call.destination
        callerId == call.callerId[c]
        peered == peers # {} /\ ~call.authoritative
    IN [call EXCEPT !.raw = Answered({c} \cup peers),
                    !.calleeBridge = IF first THEN FALSE ELSE @,
                    !.destination = IF peered /\ callerId # Empty THEN callerId ELSE entered,
                    !.destinationInternal.exten =
                        IF peered /\ callerId # Empty THEN callerId ELSE @,
                    !.name = IF first \/ peered THEN "callee" ELSE @]

-----------------------------------------------------------------------------
(***************************************************************************)
(* The calls the server originates: two Local channels, which are nobody's *)
(* line and left out here, the source's channel 1, and the destination, if *)
(* one answered.  Its interpretor takes what it needs wherever it is in    *)
(* the list of CELs.                                                       *)
(***************************************************************************)
Originated(num, exten, destination, answer, end, recordings, voicemail, direction, user, t) ==
    [NewCall EXCEPT
          !.date = 0,
          !.end = end,
          !.source = num,
          !.destination = exten,
          !.answer = IF destination = {} THEN NULL ELSE answer,
          !.name = IF destination = {} THEN Empty ELSE "callee",
          !.raw = [c \in {1} \cup destination |->
                      [role |-> IF c = 1 THEN "source" ELSE "destination",
                       answered |-> FALSE]],
          !.recordings = [i \in DOMAIN recordings |->
                             IF recordings[i].end = NULL
                             THEN [recordings[i] EXCEPT !.end = end] ELSE recordings[i]],
          !.voicemail = voicemail,
          !.direction = direction,
          !.tenant = t,
          !.infos = IF user = Empty THEN <<>> ELSE <<Info(user, "source", TRUE)>>,
          !.requestedType = user # Empty,
          !.originated = TRUE]

-----------------------------------------------------------------------------
(***************************************************************************)
(* The generator completes the call log.                                   *)
(***************************************************************************)
ChannelsOf(l) == {c \in DOMAIN call.raw : Line[c] = l}

(* Mutant: the last channel of a line is kept, answered or not.            *)
LastChannel(l) == Max({c \in DOMAIN call.raw : Line[c] = l})

(* A line may have several channels, as when a mobile phone is dialed      *)
(* again: one that answered is kept before the others.                     *)
KeptChannel(l) ==
    LET answered == {c \in ChannelsOf(l) : call.raw[c].answered}
    IN Max(IF answered # {} THEN answered ELSE ChannelsOf(l))

RemoveDuplicateParticipants ==
    {KeptChannel(l) : l \in {Line[c] : c \in DOMAIN call.raw}}

KnownUser(c) == User[Line[c]] \in Known

(* Where a number comes in the order of a set of them.                     *)
Place(i, S) == Cardinality({j \in S : j < i})

(* Participants come from the channels, in the order of their start, and   *)
(* from what CELs say of users.  The two are told to be about the same     *)
(* legs only when there are as many of each.                               *)
ParticipantsOf(user, kept) ==
    LET legs == {c \in kept : User[Line[c]] = user}
        infos == {i \in DOMAIN call.infos : call.infos[i].user = user}
        told(c) == Cardinality(legs) = Cardinality(infos) /\
                   \E i \in infos : call.infos[i].requested /\ Place(i, infos) = Place(c, legs)
        last == {i \in infos : \A j \in infos : j <= i}
    IN IF legs # {}
       THEN {[channel |-> c, user |-> user, role |-> call.raw[c].role,
              answered |-> call.raw[c].answered, requested |-> told(c)] : c \in legs}
       ELSE {[channel |-> 0, user |-> user, role |-> call.infos[i].role,
              answered |-> FALSE, requested |-> call.infos[i].requested] : i \in last}

FetchParticipants ==
    UNION {ParticipantsOf(u, RemoveDuplicateParticipants) : u \in Known}

(* Mutant: only CELs tell the tenant.                                      *)
TenantOfCels(participant, context) == call.tenant

(* The tenant of the CELs, else of a participant, else of the context, and *)
(* at last the one of the service.                                         *)
EnsureTenantUuidIsSet(participant, context) ==
    CASE call.tenant # Empty -> call.tenant
      [] call.tenant = Empty /\ (\E c \in RemoveDuplicateParticipants : KnownUser(c)) ->
             participant
      [] OTHER -> context

Main(c) == [exten |-> Extension[Line[c]], context |-> TRUE]

(* What CELs left incomplete is filled from the line of the first          *)
(* participant that has an extension; the number of the last destination   *)
(* that answered goes before anything else.                                *)
FillExtensions ==
    LET ofRole(role) == {c \in RemoveDuplicateParticipants :
                            call.raw[c].role = role /\ KnownUser(c) /\ Extension[Line[c]] # Empty}
        answered == {c \in ofRole("destination") : call.raw[c].answered}
        fill(extension, C) == IF Whole(extension) \/ C = {} THEN extension ELSE Main(Min(C))
    IN [source |-> fill(NoExtension, ofRole("source")),
        requested |-> fill(call.requestedInternal, ofRole("destination")),
        destination |-> IF answered # {} THEN Main(Max(answered))
                        ELSE fill(call.destinationInternal, ofRole("destination"))]

ResolveVoicemailDestination(found) ==
    IF call.voicemail /\ call.answer = NULL /\ found THEN "voicemail" ELSE call.details

(* The list of recordings is shortened: each step says which are kept.     *)
RemoveIncompleteRecordings ==
    {i \in DOMAIN call.recordings : call.recordings[i].end # NULL}

CallWasAnswered ==
    call.answer # NULL \/ \E c \in RemoveDuplicateParticipants : call.raw[c].answered

RemoveRecordingsForUnansweredCalls(kept) == IF CallWasAnswered THEN kept ELSE {}

(* Mutant: each entry is a recording.                                      *)
PausesIgnored(kept) == [i \in kept |-> call.recordings[i]]

(* A recording that is paused and resumed has two entries for one file:    *)
(* the first is kept, until the end of the last.                           *)
HandleRecordingPauses(kept) ==
    LET same(i) == {j \in kept : call.recordings[j].uuid = call.recordings[i].uuid}
    IN [i \in {i \in kept : \A j \in same(i) : i <= j} |->
           [call.recordings[i] EXCEPT !.end = call.recordings[Max(same(i))].end]]

CompleteRecordings ==
    HandleRecordingPauses(RemoveRecordingsForUnansweredCalls(RemoveIncompleteRecordings))

-----------------------------------------------------------------------------
InterpretationInit ==
    /\ scenario \in Scenario
    /\ phase = "start"
    /\ now = 0
    /\ events = 0
    /\ call = NewCall
    /\ log = NoLog

Dispatch ==
    /\ phase = "start"
    /\ \E num \in scenario.extens, exten \in scenario.extens \cup {Meeting} :
           call' = ChanStart(num, exten)
    /\ phase' = "caller"
    /\ UNCHANGED <<scenario, now, events, log>>

(* Each recording of an originated call is [start, end], in the order of   *)
(* the CELs, started before the end of the source's channel; none has an   *)
(* uuid.                                                                   *)
Originate ==
    /\ phase = "start"
    /\ \E num \in scenario.extens \ {Empty}, destination \in SUBSET (Channel \ {1}),
          answer \in 0..scenario.maxTime, end \in 0..scenario.maxTime,
          user \in Known \cup {Empty}, t \in Tenant,
          voicemail \in BOOLEAN, direction \in {"internal", "inbound", "outbound"},
          n \in 0..MaxRecordings :
       \E times \in [1..n -> (0..end) \X ({NULL} \cup 0..scenario.maxTime)] :
           /\ Cardinality(destination) <= 1
           /\ \A i \in 1..n :
                  /\ times[i][2] # NULL => times[i][1] <= times[i][2]
                  /\ \A j \in 1..i : times[j][1] <= times[i][1]
           /\ call' = Originated(num, num, destination, answer, end,
                  [i \in 1..n |-> [uuid |-> "none", start |-> times[i][1],
                                   end |-> times[i][2], final |-> times[i][2] # NULL,
                                   side |-> "originated"]],
                  voicemail, direction, user, IF user = Empty THEN Empty ELSE t)
    /\ phase' = "originated"
    /\ UNCHANGED <<scenario, now, events, log>>

Tick ==
    /\ phase \in {"caller", "callee"}
    /\ now < scenario.maxTime
    /\ now' = now + 1
    /\ UNCHANGED <<scenario, phase, events, call, log>>

Interpret(side, type, next) ==
    /\ phase = side
    /\ type \in scenario.types
    /\ events < scenario.maxEvents
    /\ events' = events + 1
    /\ call' = next
    /\ UNCHANGED <<scenario, phase, now, log>>

(* A file records one channel: it is resumed only by the side that paused. *)
MayRecord(file, side) ==
    \A i \in DOMAIN call.recordings :
        call.recordings[i].uuid = file =>
            call.recordings[i].side = side /\ call.recordings[i].end # NULL

InterpretCaller(type, next) == Interpret("caller", type, next)

CallerNext ==
    \/ \E num \in scenario.extens :
          \/ \E voicemail \in BOOLEAN :
                InterpretCaller("APP_START", AppStart(num, voicemail))
          \/ InterpretCaller("ANSWER", Answer(num))
          \/ \E holding \in BOOLEAN : InterpretCaller("BRIDGE_ENTER", BridgeEnter(num, holding))
          \/ InterpretCaller("XIVO_FROM_S", XivoFromS(num))
          \/ InterpretCaller("XIVO_OUTCALL", XivoOutcall(num))
    \/ \E t \in Tenant, num \in scenario.extens :
          \/ InterpretCaller("XIVO_INCALL", XivoIncall(t))
          \/ \E source, user \in Known \cup {Empty} :
                InterpretCaller("WAZO_USER_MISSED_CALL", WazoUserMissedCall(source, user, num, t))
          \/ \E user \in Known :
                InterpretCaller("WAZO_USER_BLOCKED_CALL", WazoUserBlockedCall(user, num, t))
    \/ \E file \in File :
          /\ MayRecord(file, "caller")
          /\ InterpretCaller("MIXMONITOR_START", MixmonitorStart(file, "caller"))
    \/ \E i \in DOMAIN call.recordings :
          /\ ~call.recordings[i].final
          /\ InterpretCaller("MIXMONITOR_STOP", MixmonitorStop(i))
    \/ \E exten \in scenario.extens \cup {Empty} :
          \/ InterpretCaller("XIVO_USER_FWD", XivoUserFwd(exten))
          \/ \E context \in BOOLEAN :
                InterpretCaller("WAZO_CALL_LOG_REQUESTED_INTERNAL",
                                RequestedInternal(exten, context))
    \/ InterpretCaller("WAZO_CONFERENCE", WazoConference)
    \/ InterpretCaller("WAZO_MEETING_NAME", WazoMeetingName)
    \/ \E type \in Announced, user \in Known :
          InterpretCaller("WAZO_CALL_LOG_DESTINATION", WazoCallLogDestination(type, user))

(* The last CEL of the caller, unless it was never written.                *)
CallerEnds(written) ==
    /\ phase = "caller"
    /\ call' = IF written THEN ChanEnd ELSE call
    /\ phase' = "callee"
    /\ now' = 0
    /\ UNCHANGED <<scenario, events, log>>

CalleeStarts(num, kind) ==
    /\ phase = "callee"
    /\ \E c \in Channel :
          /\ c = Cardinality(DOMAIN call.raw) + 1
          /\ call' = CalleeChanStart(c, num, kind)
    /\ UNCHANGED <<scenario, phase, now, events, log>>

InterpretCallee(type, next) == Interpret("callee", type, next)

CalleeNext ==
    \/ InterpretCallee("APP_START", VoicemailAppStart)
    \/ \E num \in scenario.extens \cup {Empty}, context \in BOOLEAN :
          InterpretCallee("WAZO_CALL_LOG_REQUESTED_INTERNAL", RequestedInternal(num, context))
    \/ \E c \in DOMAIN call.raw \ {1}, num \in scenario.extens,
          peers \in SUBSET (DOMAIN call.raw \cup {Stranger}) :
          /\ c \notin peers
          /\ InterpretCallee("BRIDGE_ENTER", CalleeBridgeEnter(c, num, peers))
    \/ \E file \in File \cup {"none"} :
          /\ DOMAIN call.raw # {1}
          /\ file = "none" \/ MayRecord(file, "callee")
          /\ InterpretCallee("MIXMONITOR_START", MixmonitorStart(file, "callee"))
    \/ \E i \in DOMAIN call.recordings :
          /\ call.recordings[i].side = "callee" /\ ~call.recordings[i].final
          /\ InterpretCallee("MIXMONITOR_STOP", MixmonitorStop(i))

CalleeEnds ==
    /\ phase = "callee"
    /\ DOMAIN call.raw # {1}
    /\ call' = CalleeChanEnd
    /\ UNCHANGED <<scenario, phase, now, events, log>>

(* A CEL whose extra cannot be parsed: the call gets no call log.          *)
Fail ==
    /\ phase \in {"caller", "callee"}
    /\ phase' = "failed"
    /\ UNCHANGED <<scenario, now, events, call, log>>

(* A call without a source is no call log; it may have a name only.        *)
Complete ==
    LET extensions == FillExtensions
        completed == [participants |-> FetchParticipants,
                      recordings |-> CompleteRecordings,
                      tenant |-> Empty, details |-> "none",
                      source |-> extensions.source,
                      requested |-> extensions.requested,
                      destination |-> extensions.destination]
    IN /\ phase \in {"callee", "originated"}
       /\ phase' \in IF call.source = Empty THEN {"done", "failed"} ELSE {"done"}
       /\ \E found \in BOOLEAN, participant, context \in Tenant :
             log' = [completed EXCEPT !.tenant = EnsureTenantUuidIsSet(participant, context),
                                      !.details = ResolveVoicemailDestination(found)]
       /\ UNCHANGED <<scenario, now, events, call>>

InterpretationNext ==
    \/ Dispatch \/ Originate \/ Tick
    \/ CallerNext \/ \E written \in BOOLEAN : CallerEnds(written)
    \/ \E num \in scenario.extens, kind \in {"line", "wait", "mobile"} : CalleeStarts(num, kind)
    \/ CalleeNext \/ CalleeEnds
    \/ Fail
    \/ Complete

InterpretationSpec == InterpretationInit /\ [][InterpretationNext]_interpretation

-----------------------------------------------------------------------------
InterpretationTypeOK ==
    /\ phase \in {"start", "caller", "callee", "originated", "done", "failed"}
    /\ DOMAIN call.callerId \subseteq DOMAIN call.raw /\ DOMAIN call.raw \subseteq Channel
    /\ call.details \in Announced \cup {"none"}
    /\ phase = "done" => log.tenant \in Tenant

(* A user that wazo-confd knows and one of whose channels entered a bridge *)
(* is a participant that answered, however many channels its line has, in  *)
(* whatever order they were dialed, and whatever other CELs say of a call  *)
(* it missed.  If it was called, the number shown as the destination's is  *)
(* one of a line that answered, not of one that only rang.                 *)
AnsweredUserIsListed ==
    phase = "done" =>
        \A c \in DOMAIN call.raw :
            call.raw[c].answered /\ KnownUser(c) =>
                /\ \E p \in log.participants : p.user = User[Line[c]] /\ p.answered
                /\ call.raw[c].role = "destination" /\ Extension[Line[c]] # Empty =>
                      \E d \in DOMAIN call.raw :
                          call.raw[d].answered /\ log.destination = Main(d)

(* At most one participant is the requested one: requested_user_uuid reads *)
(* it with a scalar subquery, which fails when there are two.              *)
AtMostOneRequested ==
    Cardinality({p \in log.participants : p.requested}) <= 1

(* Each file is listed once, ends after it starts (when the CELs say the   *)
(* end of the caller's channel), and is listed if and only if the call was *)
(* answered and the end of the recording is known.  Files without an uuid, *)
(* as all those of an originated call, count as one: the first is listed.  *)
RecordingsSound ==
    phase = "done" =>
        LET list == log.recordings
            listed == {list[i].uuid : i \in DOMAIN list}
            ended == {call.recordings[i].uuid : i \in RemoveIncompleteRecordings}
        IN /\ \A i, j \in DOMAIN list : list[i].uuid = list[j].uuid => i = j
           /\ \A i \in DOMAIN list : list[i].start <= list[i].end \/ call.end = NULL
           /\ listed = IF CallWasAnswered THEN ended ELSE {}

(* The answer comes between the start and the end of a call, and the       *)
(* extensions a caller's handlers learn to hide are not left as the source *)
(* or as what was requested, whether the call had callees or, as one to a  *)
(* meeting or a voicemail, the caller's channel alone.  An originated call *)
(* has no caller's handlers: its answer may be that of another channel.    *)
CallerFieldsSound ==
    ~call.originated /\ phase = "done" /\ call.end # NULL =>
        /\ call.date <= call.end
        /\ call.answer # NULL => call.date <= call.answer /\ call.answer <= call.end
        /\ {call.source, call.requested} \cap call.hidden = {}

(* What WAZO_CALL_LOG_DESTINATION announced as the destination is changed  *)
(* by no CEL of a callee, unless the call was forwarded; an outbound call  *)
(* loses the name only.                                                    *)
AnnouncedDestinationKept ==
    [][phase = "callee" /\ call.authoritative /\ ~call.forwarded =>
          /\ call'.destination = call.destination
          /\ call'.details = call.details
          /\ call.direction # "outbound" => call'.name = call.name]_interpretation
=============================================================================
