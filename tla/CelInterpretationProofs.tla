----------------------- MODULE CelInterpretationProofs -----------------------
(***************************************************************************)
(* Proofs about CelInterpretation, for any channels, files, users and      *)
(* scenarios, and any number of CELs in any order.                         *)
(*                                                                         *)
(* The properties of a completed call log say what Complete makes of the   *)
(* raw call, so they need what holds of it at every earlier moment: the    *)
(* entries of one recording are of one side and in the order of their      *)
(* start, at most one user is the requested one, and the fields set while  *)
(* the caller's CELs are read (OfCaller) still fit together when those of  *)
(* the other channels have been (OfCallee).  InterpretationInv joins them  *)
(* by phase; each handler preserves the part of the phase it runs in, and  *)
(* each step of the completion has a lemma of its own.                     *)
(***************************************************************************)
EXTENDS CelInterpretation, NatLemmas, FiniteSetTheorems, SequenceTheorems

-----------------------------------------------------------------------------
(***************************************************************************)
(* The inductive invariant: the shape of the raw call first.               *)
(***************************************************************************)
(* The fields of RawCallLog: a handler adds none and loses none.           *)
RawField ==
    {"date", "answer", "end", "source", "requested", "destination", "name", "details",
     "direction", "tenant", "forwarded", "blocked", "voicemail", "authoritative",
     "requestedType", "calleeBridge", "hidden", "pending", "callerId",
     "requestedInternal", "destinationInternal", "raw", "infos", "recordings",
     "originated"}

IsRawCall(k) == k = [f \in RawField |-> k[f]]

(* A time that may not be known yet.                                       *)
Time == Nat \cup {NULL}

(* One value per channel that has been seen.                               *)
Partial(V) == UNION {[C -> V] : C \in SUBSET Channel}

Leg == [role : {"source", "destination"}, answered : BOOLEAN]

Entry == [uuid : File \cup {"none"}, start : Nat, end : Time, final : BOOLEAN,
          side : {"caller", "callee", "originated"}]

UserInfo == [user : Known, role : {"source", "destination"}, missed : BOOLEAN,
             requested : BOOLEAN]

(* Legs are of the channels of the call; the caller's alone is a source.   *)
LegsShape(k) ==
    /\ k.raw \in Partial(Leg)
    /\ \A c \in DOMAIN k.raw : k.raw[c].role = "source" <=> c = 1
    /\ DOMAIN k.callerId \subseteq DOMAIN k.raw

(* At most one of the users CELs told of is the requested one.             *)
RequestedOnce(k) ==
    /\ k.infos \in Seq(UserInfo)
    /\ \A i, j \in DOMAIN k.infos : k.infos[i].requested /\ k.infos[j].requested => i = j
    /\ \A i \in DOMAIN k.infos : k.infos[i].requested => k.requestedType

(* Entries of a file are of one side and in the order of their start.      *)
FilesOrdered(k) ==
    /\ k.recordings \in Seq(Entry)
    /\ \A i, j \in DOMAIN k.recordings :
           k.recordings[i].uuid = k.recordings[j].uuid /\ i <= j =>
               /\ k.recordings[i].side = k.recordings[j].side
               /\ k.recordings[i].start <= k.recordings[j].start

(* An entry that has an end was not ended before it started.               *)
Ended(r) == r.end = NULL \/ r.start <= r.end

(* Files of the caller's side have an uuid; an end may be missing at first. *)
CallerEntry(k, r) ==
    /\ r.side = "caller" /\ r.uuid \in File
    /\ k.end = NULL \/ r.start <= r.end

(* What CallerFieldsSound says, once the caller's channel has ended.        *)
FieldsOrdered(k) ==
    k.end # NULL =>
        /\ k.date <= k.end
        /\ k.answer # NULL => k.date <= k.answer /\ k.answer <= k.end
        /\ {k.source, k.requested} \cap k.hidden = {}

(* What holds of the raw call in every phase.                              *)
RawCallShape(k) ==
    /\ IsRawCall(k)
    /\ k.details \in Announced \cup {"none"}
    /\ k.tenant \in Tenant \cup {Empty}
    /\ k.hidden \subseteq {"s", Meeting}
    /\ LegsShape(k)
    /\ RequestedOnce(k)
    /\ FilesOrdered(k)

(* While the caller's CELs are read: nothing is later than the last of them. *)
OfCaller(k, n) ==
    /\ 1 \in DOMAIN k.raw
    /\ k.end = NULL
    /\ k.date = 0
    /\ k.answer # NULL => k.answer \in 0..n
    /\ DOMAIN k.callerId = {}
    /\ \A i \in DOMAIN k.recordings :
           LET r == k.recordings[i]
           IN r.side = "caller" /\ r.uuid \in File /\ r.start <= n /\ Ended(r)

(* While the others are read: the caller's entries are as they were left,  *)
(* those of the callee's side are not later than the last CEL.             *)
OfCallee(k, n) ==
    /\ 1 \in DOMAIN k.raw
    /\ FieldsOrdered(k)
    /\ \A i \in DOMAIN k.recordings :
           LET r == k.recordings[i]
           IN \/ CallerEntry(k, r)
              \/ r.side = "callee" /\ r.start <= n /\ Ended(r)

(* An originated call is read in one step.                                 *)
OfOriginated(k) ==
    /\ k.originated
    /\ \A i \in DOMAIN k.recordings : Ended(k.recordings[i])

(* What the properties say of the call log.                                *)
OfDone ==
    /\ log.tenant \in Tenant
    /\ AnsweredUserIsListed
    /\ RecordingsSound
    /\ CallerFieldsSound

InterpretationInv ==
    /\ scenario \in Scenario
    /\ now \in Nat
    /\ RawCallShape(call)
    /\ phase \in {"start", "caller", "callee", "originated", "done", "failed"}
    /\ phase = "start" => call = NewCall
    /\ phase = "caller" => OfCaller(call, now)
    /\ phase = "callee" => OfCallee(call, now)
    /\ phase = "originated" => OfOriginated(call)
    /\ phase = "done" => OfDone
    /\ \A p, q \in log.participants : p.requested /\ q.requested => p = q

-----------------------------------------------------------------------------
(***************************************************************************)
(* Channels, sequences and places.                                         *)
(***************************************************************************)
LEMMA ChannelsAreNumbers ==
    /\ IsFiniteSet(Channel) /\ Channel \subseteq Nat /\ 1 \in Channel
    /\ Cardinality(Channel) \in Nat
    /\ \A c \in Channel : 1 <= c /\ c <= Cardinality(Channel)
<1>1. Cardinality(Channel) \in Nat
  BY InterpretationAssumption, FS_CardinalityType
<1>2. Cardinality(Channel) # 0
  BY InterpretationAssumption, FS_EmptySet
<1>3. Channel = 1..Cardinality(Channel)
  BY InterpretationAssumption
<1> QED BY <1>1, <1>2, <1>3, InterpretationAssumption

LEMMA LastOf ==
    ASSUME NEW S, S \subseteq Nat, S # {}, NEW b \in Nat, \A n \in S : n <= b
    PROVE  Max(S) \in S /\ \A m \in S : m <= Max(S)
<1>1. PICK n \in S : \A m \in S : m <= n
  BY BoundedNatHasMaximum
<1>2. \A m \in S : n >= m
  BY <1>1
<1>3. \E x \in S : \A y \in S : x >= y
  BY <1>2
<1>4. Max(S) \in S /\ \A y \in S : Max(S) >= y
  BY <1>3 DEF Max
<1> QED BY <1>4

LEMMA PartialElement ==
    ASSUME NEW V, NEW f \in Partial(V)
    PROVE  /\ f \in [DOMAIN f -> V]
           /\ DOMAIN f \subseteq Channel
<1>1. PICK C \in SUBSET Channel : f \in [C -> V]
  BY DEF Partial
<1> QED BY <1>1

LEMMA PartialMember ==
    ASSUME NEW V, NEW C \in SUBSET Channel, NEW f \in [C -> V]
    PROVE  f \in Partial(V)
BY DEF Partial

(* Places tell the elements of a finite set of numbers apart.              *)
LEMMA PlacesDiffer ==
    ASSUME NEW S, S \subseteq Nat, IsFiniteSet(S), NEW c \in S, NEW d \in S,
           Place(c, S) = Place(d, S)
    PROVE  c = d
<1>1. ASSUME NEW x \in S, NEW y \in S, x < y
      PROVE  Place(x, S) # Place(y, S)
  <2> DEFINE X == {j \in S : j < x}
             Y == {j \in S : j < y}
  <2>1. X \subseteq Y
    <3> SUFFICES ASSUME NEW j \in S, j < x PROVE j < y
      OBVIOUS
    <3>1. j \in Nat /\ x \in Nat /\ y \in Nat
      OBVIOUS
    <3> QED BY <1>1, <3>1
  <2>5. x \in Y /\ x \notin X
    <3>1. x \in Nat
      OBVIOUS
    <3>2. ~(x < x)
      BY <3>1
    <3> QED BY <1>1, <3>2
  <2>2. IsFiniteSet(Y)
    BY FS_Subset
  <2>3. X # Y
    BY <2>5
  <2>4. Cardinality(X) # Cardinality(Y)
    <3> HIDE DEF X, Y
    <3> QED BY <2>1, <2>2, <2>3, FS_Subset
  <2> QED BY <2>4 DEF Place
<1>2. c \in Nat /\ d \in Nat
  OBVIOUS
<1> QED BY <1>1, <1>2

LEMMA AppendElements ==
    ASSUME NEW V, NEW s \in Seq(V), NEW v \in V
    PROVE  /\ Append(s, v) \in Seq(V)
           /\ DOMAIN Append(s, v) = 1..(Len(s) + 1) /\ DOMAIN s = 1..Len(s) /\ Len(s) \in Nat
           /\ \A i \in DOMAIN s : Append(s, v)[i] = s[i]
           /\ Append(s, v)[Len(s) + 1] = v
BY AppendProperties, LenProperties

LEMMA SameDomainIsSequence ==
    ASSUME NEW V, NEW s \in Seq(V), NEW t, t = [i \in DOMAIN s |-> t[i]],
           \A i \in DOMAIN s : t[i] \in V
    PROVE  t \in Seq(V) /\ DOMAIN t = DOMAIN s
<1>1. Len(s) \in Nat /\ DOMAIN s = 1..Len(s)
  BY LenProperties
<1>2. t \in [1..Len(s) -> V]
  BY <1>1
<1> QED BY <1>1, <1>2, SeqDef

-----------------------------------------------------------------------------
(***************************************************************************)
(* What CELs say of users: at most one of them is the requested one.       *)
(***************************************************************************)
LEMMA SameUsers ==
    ASSUME NEW k, NEW h, RequestedOnce(k), h.infos = k.infos,
           k.requestedType => h.requestedType
    PROVE  RequestedOnce(h)
BY DEF RequestedOnce

(* A missed call adds or marks a user, and requests none.                  *)
Requests(infos, others) ==
    /\ others \in Seq(UserInfo)
    /\ \A i \in DOMAIN others :
           others[i].requested => i \in DOMAIN infos /\ infos[i].requested

LEMMA MissedByRequestsNobody ==
    ASSUME NEW infos \in Seq(UserInfo), NEW user, user = Empty \/ user \in Known,
           NEW role \in {"source", "destination"}
    PROVE  Requests(infos, MissedBy(infos, user, role))
<1>4. DOMAIN infos = 1..Len(infos) /\ Len(infos) \in Nat
  BY LenProperties
<1>5. ASSUME NEW v \in UserInfo
      PROVE  /\ Append(infos, v) \in Seq(UserInfo)
             /\ DOMAIN Append(infos, v) = 1..(Len(infos) + 1)
             /\ \A i \in DOMAIN infos : Append(infos, v)[i] = infos[i]
             /\ Append(infos, v)[Len(infos) + 1] = v
  BY <1>5, AppendElements
<1> DEFINE same == {i \in DOMAIN infos : infos[i].user = user /\ infos[i].role = role}
           added == [Info(user, role, FALSE) EXCEPT !.missed = TRUE]
           first == CHOOSE i \in same : \A j \in same : i <= j
           marked == [infos EXCEPT ![first].missed = TRUE]
<1>1. CASE user = Empty
  BY <1>1 DEF MissedBy, Requests
<1>2. CASE user # Empty /\ same = {}
  <2>1. MissedBy(infos, user, role) = Append(infos, added)
    BY <1>2 DEF MissedBy
  <2>2. added \in UserInfo /\ added.requested = FALSE
    BY <1>2 DEF UserInfo, Info
  <2> HIDE DEF added
  <2>3. /\ Append(infos, added) \in Seq(UserInfo)
        /\ DOMAIN Append(infos, added) = 1..(Len(infos) + 1)
        /\ \A i \in DOMAIN infos : Append(infos, added)[i] = infos[i]
        /\ Append(infos, added)[Len(infos) + 1] = added
    BY <1>5, <2>2
  <2>4. \A i \in DOMAIN Append(infos, added) : i \in DOMAIN infos \/ i = Len(infos) + 1
    BY <1>4, <2>3
  <2> QED BY <2>1, <2>2, <2>3, <2>4 DEF Requests
<1>3. CASE user # Empty /\ same # {}
  <2>1. MissedBy(infos, user, role) = marked
    BY <1>3 DEF MissedBy
  <2>3. \E i \in same : \A j \in same : i <= j
    <3>1. \A i \in DOMAIN infos : i \in Nat
      BY <1>4
    <3>2. same \subseteq Nat
      BY <3>1
    <3> HIDE DEF same
    <3> QED BY <1>3, <3>2, NatHasMinimum
  <2>4. first \in DOMAIN infos
    BY <2>3
  <2> HIDE DEF first
  <2>5. \A i \in DOMAIN infos : infos[i] \in UserInfo
    BY ElementOfSeq, LenProperties
  <2>6. \A i \in DOMAIN infos :
            marked[i] \in UserInfo /\ marked[i].requested = infos[i].requested
    BY <2>4, <2>5 DEF UserInfo
  <2>7. marked = [i \in DOMAIN infos |-> marked[i]]
    OBVIOUS
  <2> HIDE DEF marked
  <2>8. marked \in Seq(UserInfo) /\ DOMAIN marked = DOMAIN infos
    BY <2>6, <2>7, SameDomainIsSequence
  <2> QED BY <2>1, <2>6, <2>8 DEF Requests
<1> HIDE DEF same
<1> QED BY <1>1, <1>2, <1>3

LEMMA RequestedStaysOnce ==
    ASSUME NEW k, NEW h, RequestedOnce(k), Requests(k.infos, h.infos),
           k.requestedType => h.requestedType
    PROVE  RequestedOnce(h)
BY DEF RequestedOnce, Requests

(* Only the first announcement may request a user.                         *)
LEMMA AnnouncedRequestsOnce ==
    ASSUME NEW k, NEW h, RequestedOnce(k), NEW user \in Known, h.requestedType,
           h.infos = Append(k.infos, Info(user, "destination", ~k.requestedType))
    PROVE  RequestedOnce(h)
<1> DEFINE added == Info(user, "destination", ~k.requestedType)
           new == Len(k.infos) + 1
<1>1. added \in UserInfo
  BY DEF UserInfo, Info
<1>2. added.requested => ~k.requestedType
  BY DEF Info
<1> HIDE DEF added
<1>3. /\ h.infos \in Seq(UserInfo)
      /\ DOMAIN h.infos = 1..new /\ DOMAIN k.infos = 1..Len(k.infos) /\ Len(k.infos) \in Nat
      /\ \A i \in DOMAIN k.infos : h.infos[i] = k.infos[i]
      /\ h.infos[new] = added
  BY <1>1, AppendElements DEF RequestedOnce, added
<1>4. \A i \in DOMAIN h.infos : i \in DOMAIN k.infos \/ i = new
  BY <1>3
<1>5. \A i \in DOMAIN k.infos : h.infos[i].requested => k.requestedType
  BY <1>3 DEF RequestedOnce
<1>6. ASSUME NEW i \in DOMAIN h.infos, NEW j \in DOMAIN h.infos,
             h.infos[i].requested, h.infos[j].requested
      PROVE  i = j
  <2>1. CASE i \in DOMAIN k.infos /\ j \in DOMAIN k.infos
    BY <2>1, <1>3, <1>6 DEF RequestedOnce
  <2>2. CASE i = new /\ j = new
    BY <2>2
  <2>3. CASE i \in DOMAIN k.infos /\ j = new
    BY <2>3, <1>2, <1>3, <1>5, <1>6
  <2>4. CASE i = new /\ j \in DOMAIN k.infos
    BY <2>4, <1>2, <1>3, <1>5, <1>6
  <2> QED BY <1>4, <2>1, <2>2, <2>3, <2>4
<1> QED BY <1>3, <1>6 DEF RequestedOnce

-----------------------------------------------------------------------------
(***************************************************************************)
(* Recordings: entries of a file keep their order, and ends come after     *)
(* starts.                                                                 *)
(***************************************************************************)

(* Changing ends alone disturbs no order.                                  *)
LEMMA EndsDisturbNoOrder ==
    ASSUME NEW k, NEW h, FilesOrdered(k),
           h.recordings = [i \in DOMAIN k.recordings |-> h.recordings[i]],
           \A i \in DOMAIN k.recordings :
               LET r == k.recordings[i] s == h.recordings[i]
               IN s \in Entry /\ s.uuid = r.uuid /\ s.start = r.start /\ s.side = r.side
    PROVE  FilesOrdered(h) /\ DOMAIN h.recordings = DOMAIN k.recordings
<1> DEFINE s == k.recordings
           t == h.recordings
<1>1. s \in Seq(Entry) /\ t = [i \in DOMAIN s |-> t[i]]
  BY DEF FilesOrdered
<1>2. \A i \in DOMAIN s :
          /\ t[i] \in Entry /\ t[i].uuid = s[i].uuid
          /\ t[i].start = s[i].start /\ t[i].side = s[i].side
  OBVIOUS
<1>3. \A i, j \in DOMAIN s : s[i].uuid = s[j].uuid /\ i <= j =>
          s[i].side = s[j].side /\ s[i].start <= s[j].start
  BY DEF FilesOrdered
<1>4. SUFFICES /\ t \in Seq(Entry) /\ DOMAIN t = DOMAIN s
               /\ \A i, j \in DOMAIN t : t[i].uuid = t[j].uuid /\ i <= j =>
                      t[i].side = t[j].side /\ t[i].start <= t[j].start
  BY DEF FilesOrdered
<1> HIDE DEF s, t
<1>5. t \in Seq(Entry) /\ DOMAIN t = DOMAIN s
  BY <1>1, <1>2, SameDomainIsSequence
<1> QED BY <1>2, <1>3, <1>5

LEMMA EntriesAreTyped ==
    ASSUME NEW k, FilesOrdered(k), NEW i \in DOMAIN k.recordings
    PROVE  LET r == k.recordings[i]
           IN /\ r \in Entry /\ i \in Nat
              /\ r.start \in Nat /\ r.end \in Int /\ (r.end = NULL \/ r.end \in Nat)
<1>1. k.recordings \in Seq(Entry)
  BY DEF FilesOrdered
<1>2. DOMAIN k.recordings = 1..Len(k.recordings) /\ Len(k.recordings) \in Nat
  BY <1>1, LenProperties
<1>3. k.recordings[i] \in Entry
  BY <1>1, <1>2, ElementOfSeq
<1>4. k.recordings[i].start \in Nat /\ k.recordings[i].end \in Time
  BY <1>3 DEF Entry
<1>5. i \in Nat
  BY <1>2
<1> QED BY <1>3, <1>4, <1>5 DEF Time, NULL

-----------------------------------------------------------------------------
(***************************************************************************)
(* The caller's CELs.                                                      *)
(***************************************************************************)

(* What most handlers leave as it is.                                      *)
Kept(h) ==
    /\ IsRawCall(h)
    /\ h.tenant \in Tenant \cup {Empty}
    /\ h.hidden \subseteq {"s", Meeting}
    /\ h.details \in Announced \cup {"none"}
    /\ h.raw = call.raw /\ h.callerId = call.callerId
    /\ h.recordings = call.recordings
    /\ h.date = call.date /\ h.end = call.end

LEMMA KeptByCaller ==
    ASSUME RawCallShape(call), OfCaller(call, now), NEW h, Kept(h), RequestedOnce(h),
           h.answer # NULL => h.answer \in 0..now
    PROVE  RawCallShape(h) /\ OfCaller(h, now)
BY DEF RawCallShape, OfCaller, Kept, LegsShape, FilesOrdered

LEMMA SameUsersAndAnswer ==
    ASSUME RawCallShape(call), OfCaller(call, now), NEW h, Kept(h),
           h.infos = call.infos, h.requestedType = call.requestedType, h.answer = call.answer
    PROVE  RawCallShape(h) /\ OfCaller(h, now)
<1>1. RequestedOnce(h)
  BY SameUsers DEF RawCallShape
<1> QED BY <1>1, KeptByCaller DEF OfCaller

LEMMA AppStartKeeps ==
    ASSUME RawCallShape(call), OfCaller(call, now), NEW num, NEW voicemail
    PROVE  RawCallShape(AppStart(num, voicemail)) /\ OfCaller(AppStart(num, voicemail), now)
<1> DEFINE h == AppStart(num, voicemail)
<1>1. IsRawCall(h)
  BY DEF RawCallShape, IsRawCall, AppStart, VoicemailAppStart
<1>2. /\ h.tenant = call.tenant /\ h.hidden \subseteq call.hidden \cup {Meeting}
      /\ h.details \in {call.details, "none"}
      /\ h.raw = call.raw /\ h.callerId = call.callerId
      /\ h.recordings = call.recordings
      /\ h.date = call.date /\ h.end = call.end
  BY DEF RawCallShape, IsRawCall, RawField, AppStart, VoicemailAppStart
<1>3. h.infos = call.infos /\ h.requestedType = call.requestedType /\ h.answer = call.answer
  BY DEF RawCallShape, IsRawCall, RawField, AppStart, VoicemailAppStart
<1> HIDE DEF h
<1>4. Kept(h)
  BY <1>1, <1>2 DEF Kept, RawCallShape
<1>5. RawCallShape(h) /\ OfCaller(h, now)
  BY <1>3, <1>4, SameUsersAndAnswer
<1> QED BY <1>5 DEF h

LEMMA AnswerKeeps ==
    ASSUME RawCallShape(call), OfCaller(call, now), NEW num
    PROVE  RawCallShape(Answer(num)) /\ OfCaller(Answer(num), now)
<1> DEFINE h == Answer(num)
<1>1. IsRawCall(h)
  BY DEF RawCallShape, IsRawCall, Answer
<1>2. /\ h.tenant = call.tenant /\ h.hidden \subseteq call.hidden \cup {Meeting}
      /\ h.details \in {call.details, "none"}
      /\ h.raw = call.raw /\ h.callerId = call.callerId
      /\ h.recordings = call.recordings
      /\ h.date = call.date /\ h.end = call.end
  BY DEF RawCallShape, IsRawCall, RawField, Answer
<1>3. h.infos = call.infos /\ h.requestedType = call.requestedType /\ h.answer = call.answer
  BY DEF RawCallShape, IsRawCall, RawField, Answer
<1> HIDE DEF h
<1>4. Kept(h)
  BY <1>1, <1>2 DEF Kept, RawCallShape
<1>5. RawCallShape(h) /\ OfCaller(h, now)
  BY <1>3, <1>4, SameUsersAndAnswer
<1> QED BY <1>5 DEF h

LEMMA XivoFromSKeeps ==
    ASSUME RawCallShape(call), OfCaller(call, now), NEW exten
    PROVE  RawCallShape(XivoFromS(exten)) /\ OfCaller(XivoFromS(exten), now)
<1> DEFINE h == XivoFromS(exten)
<1>1. IsRawCall(h)
  BY DEF RawCallShape, IsRawCall, XivoFromS
<1>2. /\ h.tenant = call.tenant /\ h.hidden \subseteq call.hidden \cup {Meeting}
      /\ h.details \in {call.details, "none"}
      /\ h.raw = call.raw /\ h.callerId = call.callerId
      /\ h.recordings = call.recordings
      /\ h.date = call.date /\ h.end = call.end
  BY DEF RawCallShape, IsRawCall, RawField, XivoFromS
<1>3. h.infos = call.infos /\ h.requestedType = call.requestedType /\ h.answer = call.answer
  BY DEF RawCallShape, IsRawCall, RawField, XivoFromS
<1> HIDE DEF h
<1>4. Kept(h)
  BY <1>1, <1>2 DEF Kept, RawCallShape
<1>5. RawCallShape(h) /\ OfCaller(h, now)
  BY <1>3, <1>4, SameUsersAndAnswer
<1> QED BY <1>5 DEF h

LEMMA XivoOutcallKeeps ==
    ASSUME RawCallShape(call), OfCaller(call, now), NEW num
    PROVE  RawCallShape(XivoOutcall(num)) /\ OfCaller(XivoOutcall(num), now)
<1> DEFINE h == XivoOutcall(num)
<1>1. IsRawCall(h)
  BY DEF RawCallShape, IsRawCall, XivoOutcall
<1>2. /\ h.tenant = call.tenant /\ h.hidden \subseteq call.hidden \cup {Meeting}
      /\ h.details \in {call.details, "none"}
      /\ h.raw = call.raw /\ h.callerId = call.callerId
      /\ h.recordings = call.recordings
      /\ h.date = call.date /\ h.end = call.end
  BY DEF RawCallShape, IsRawCall, RawField, XivoOutcall
<1>3. h.infos = call.infos /\ h.requestedType = call.requestedType /\ h.answer = call.answer
  BY DEF RawCallShape, IsRawCall, RawField, XivoOutcall
<1> HIDE DEF h
<1>4. Kept(h)
  BY <1>1, <1>2 DEF Kept, RawCallShape
<1>5. RawCallShape(h) /\ OfCaller(h, now)
  BY <1>3, <1>4, SameUsersAndAnswer
<1> QED BY <1>5 DEF h

LEMMA XivoUserFwdKeeps ==
    ASSUME RawCallShape(call), OfCaller(call, now), NEW exten
    PROVE  RawCallShape(XivoUserFwd(exten)) /\ OfCaller(XivoUserFwd(exten), now)
<1> DEFINE h == XivoUserFwd(exten)
<1>1. IsRawCall(h)
  BY DEF RawCallShape, IsRawCall, XivoUserFwd
<1>2. /\ h.tenant = call.tenant /\ h.hidden \subseteq call.hidden \cup {Meeting}
      /\ h.details \in {call.details, "none"}
      /\ h.raw = call.raw /\ h.callerId = call.callerId
      /\ h.recordings = call.recordings
      /\ h.date = call.date /\ h.end = call.end
  BY DEF RawCallShape, IsRawCall, RawField, XivoUserFwd
<1>3. h.infos = call.infos /\ h.requestedType = call.requestedType /\ h.answer = call.answer
  BY DEF RawCallShape, IsRawCall, RawField, XivoUserFwd
<1> HIDE DEF h
<1>4. Kept(h)
  BY <1>1, <1>2 DEF Kept, RawCallShape
<1>5. RawCallShape(h) /\ OfCaller(h, now)
  BY <1>3, <1>4, SameUsersAndAnswer
<1> QED BY <1>5 DEF h

LEMMA WazoConferenceKeeps ==
    ASSUME RawCallShape(call), OfCaller(call, now)
    PROVE  RawCallShape(WazoConference) /\ OfCaller(WazoConference, now)
<1> DEFINE h == WazoConference
<1>1. IsRawCall(h)
  BY DEF RawCallShape, IsRawCall, WazoConference
<1>2. /\ h.tenant = call.tenant /\ h.hidden \subseteq call.hidden \cup {Meeting}
      /\ h.details \in {call.details, "none"}
      /\ h.raw = call.raw /\ h.callerId = call.callerId
      /\ h.recordings = call.recordings
      /\ h.date = call.date /\ h.end = call.end
  BY DEF RawCallShape, IsRawCall, RawField, WazoConference
<1>3. h.infos = call.infos /\ h.requestedType = call.requestedType /\ h.answer = call.answer
  BY DEF RawCallShape, IsRawCall, RawField, WazoConference
<1> HIDE DEF h
<1>4. Kept(h)
  BY <1>1, <1>2 DEF Kept, RawCallShape
<1>5. RawCallShape(h) /\ OfCaller(h, now)
  BY <1>3, <1>4, SameUsersAndAnswer
<1> QED BY <1>5 DEF h

LEMMA WazoMeetingNameKeeps ==
    ASSUME RawCallShape(call), OfCaller(call, now)
    PROVE  RawCallShape(WazoMeetingName) /\ OfCaller(WazoMeetingName, now)
<1> DEFINE h == WazoMeetingName
<1>1. IsRawCall(h)
  BY DEF RawCallShape, IsRawCall, WazoMeetingName
<1>2. /\ h.tenant = call.tenant /\ h.hidden \subseteq call.hidden \cup {Meeting}
      /\ h.details \in {call.details, "none"}
      /\ h.raw = call.raw /\ h.callerId = call.callerId
      /\ h.recordings = call.recordings
      /\ h.date = call.date /\ h.end = call.end
  BY DEF RawCallShape, IsRawCall, RawField, WazoMeetingName
<1>3. h.infos = call.infos /\ h.requestedType = call.requestedType /\ h.answer = call.answer
  BY DEF RawCallShape, IsRawCall, RawField, WazoMeetingName
<1> HIDE DEF h
<1>4. Kept(h)
  BY <1>1, <1>2 DEF Kept, RawCallShape
<1>5. RawCallShape(h) /\ OfCaller(h, now)
  BY <1>3, <1>4, SameUsersAndAnswer
<1> QED BY <1>5 DEF h

LEMMA RequestedInternalKeeps ==
    ASSUME RawCallShape(call), OfCaller(call, now), NEW num, NEW context
    PROVE  LET h == RequestedInternal(num, context) IN RawCallShape(h) /\ OfCaller(h, now)
<1> DEFINE h == RequestedInternal(num, context)
<1>1. IsRawCall(h)
  BY DEF RawCallShape, IsRawCall, RequestedInternal
<1>2. /\ h.tenant = call.tenant /\ h.hidden \subseteq call.hidden \cup {Meeting}
      /\ h.details \in {call.details, "none"}
      /\ h.raw = call.raw /\ h.callerId = call.callerId
      /\ h.recordings = call.recordings
      /\ h.date = call.date /\ h.end = call.end
  BY DEF RawCallShape, IsRawCall, RawField, RequestedInternal
<1>3. h.infos = call.infos /\ h.requestedType = call.requestedType /\ h.answer = call.answer
  BY DEF RawCallShape, IsRawCall, RawField, RequestedInternal
<1> HIDE DEF h
<1>4. Kept(h)
  BY <1>1, <1>2 DEF Kept, RawCallShape
<1>5. RawCallShape(h) /\ OfCaller(h, now)
  BY <1>3, <1>4, SameUsersAndAnswer
<1> QED BY <1>5 DEF h

LEMMA BridgeEnterKeeps ==
    ASSUME RawCallShape(call), OfCaller(call, now), now \in Nat, NEW num, NEW holding
    PROVE  RawCallShape(BridgeEnter(num, holding)) /\ OfCaller(BridgeEnter(num, holding), now)
<1> DEFINE h == BridgeEnter(num, holding)
<1>1. IsRawCall(h)
  BY DEF RawCallShape, IsRawCall, BridgeEnter
<1>2. /\ h.tenant = call.tenant /\ h.hidden = call.hidden /\ h.details = call.details
      /\ h.raw = call.raw /\ h.callerId = call.callerId
      /\ h.recordings = call.recordings
      /\ h.date = call.date /\ h.end = call.end
      /\ h.infos = call.infos /\ h.requestedType = call.requestedType
  BY DEF RawCallShape, IsRawCall, RawField, BridgeEnter
<1>3. h.answer \in {call.answer, now}
  BY DEF RawCallShape, IsRawCall, RawField, BridgeEnter
<1> HIDE DEF h
<1>4. Kept(h)
  BY <1>1, <1>2 DEF Kept, RawCallShape
<1>5. h.answer # NULL => h.answer \in 0..now
  BY <1>3 DEF OfCaller
<1>6. RequestedOnce(h)
  BY <1>2, SameUsers DEF RawCallShape
<1>7. RawCallShape(h) /\ OfCaller(h, now)
  BY <1>4, <1>5, <1>6, KeptByCaller
<1> QED BY <1>7 DEF h

LEMMA XivoIncallKeeps ==
    ASSUME RawCallShape(call), OfCaller(call, now), NEW t \in Tenant
    PROVE  RawCallShape(XivoIncall(t)) /\ OfCaller(XivoIncall(t), now)
<1> DEFINE h == XivoIncall(t)
<1>1. IsRawCall(h)
  BY DEF RawCallShape, IsRawCall, XivoIncall
<1>2. /\ h.tenant \in {call.tenant, t} /\ h.hidden = call.hidden /\ h.details = call.details
      /\ h.raw = call.raw /\ h.callerId = call.callerId
      /\ h.recordings = call.recordings
      /\ h.date = call.date /\ h.end = call.end
      /\ h.infos = call.infos /\ h.requestedType = call.requestedType /\ h.answer = call.answer
  BY DEF RawCallShape, IsRawCall, RawField, XivoIncall, SetTenant
<1> HIDE DEF h
<1>4. Kept(h)
  BY <1>1, <1>2 DEF Kept, RawCallShape
<1>5. RawCallShape(h) /\ OfCaller(h, now)
  BY <1>2, <1>4, SameUsersAndAnswer
<1> QED BY <1>5 DEF h

LEMMA MissedCallKeeps ==
    ASSUME RawCallShape(call), OfCaller(call, now), NEW source, source \in Known \cup {Empty},
           NEW user, user \in Known \cup {Empty}, NEW num, NEW t \in Tenant
    PROVE  LET h == WazoUserMissedCall(source, user, num, t)
           IN RawCallShape(h) /\ OfCaller(h, now)
<1> DEFINE h == WazoUserMissedCall(source, user, num, t)
           one == MissedBy(call.infos, source, "source")
           two == MissedBy(one, user, "destination")
<1>1. IsRawCall(h)
  BY DEF RawCallShape, IsRawCall, WazoUserMissedCall
<1>2. /\ h.tenant \in {call.tenant, t} /\ h.hidden = call.hidden /\ h.details = call.details
      /\ h.raw = call.raw /\ h.callerId = call.callerId
      /\ h.recordings = call.recordings
      /\ h.date = call.date /\ h.end = call.end
      /\ h.requestedType = call.requestedType /\ h.answer = call.answer
  BY DEF RawCallShape, IsRawCall, RawField, WazoUserMissedCall, SetTenant
<1>3. h.infos = two
  BY DEF RawCallShape, IsRawCall, RawField, WazoUserMissedCall
<1> HIDE DEF h
<1>4. Kept(h)
  BY <1>1, <1>2 DEF Kept, RawCallShape
<1>5. Requests(call.infos, one)
  BY MissedByRequestsNobody DEF RawCallShape, RequestedOnce
<1> HIDE DEF one
<1>6. Requests(one, two)
  BY <1>5, MissedByRequestsNobody DEF Requests
<1> HIDE DEF two
<1>7. Requests(call.infos, h.infos)
  BY <1>3, <1>5, <1>6 DEF Requests
<1>8. RequestedOnce(h)
  BY <1>2, <1>7, RequestedStaysOnce DEF RawCallShape
<1>9. RawCallShape(h) /\ OfCaller(h, now)
  BY <1>2, <1>4, <1>8, KeptByCaller DEF OfCaller
<1> QED BY <1>9 DEF h

LEMMA BlockedCallKeeps ==
    ASSUME RawCallShape(call), OfCaller(call, now), NEW user \in Known, NEW num,
           NEW t \in Tenant
    PROVE  LET h == WazoUserBlockedCall(user, num, t)
           IN RawCallShape(h) /\ OfCaller(h, now)
<1> DEFINE h == WazoUserBlockedCall(user, num, t)
<1>1. IsRawCall(h)
  BY DEF RawCallShape, IsRawCall, WazoUserBlockedCall
<1>2. /\ h.tenant \in {call.tenant, t} /\ h.hidden = call.hidden /\ h.details = call.details
      /\ h.raw = call.raw /\ h.callerId = call.callerId
      /\ h.recordings = call.recordings
      /\ h.date = call.date /\ h.end = call.end
      /\ h.requestedType = call.requestedType /\ h.answer = call.answer
  BY DEF RawCallShape, IsRawCall, RawField, WazoUserBlockedCall, SetTenant
<1>3. h.infos = MissedBy(call.infos, user, "destination")
  BY DEF RawCallShape, IsRawCall, RawField, WazoUserBlockedCall
<1> HIDE DEF h
<1>4. Kept(h)
  BY <1>1, <1>2 DEF Kept, RawCallShape
<1>5. Requests(call.infos, h.infos)
  BY <1>3, MissedByRequestsNobody DEF RawCallShape, RequestedOnce
<1>6. RequestedOnce(h)
  BY <1>2, <1>5, RequestedStaysOnce DEF RawCallShape
<1>7. RawCallShape(h) /\ OfCaller(h, now)
  BY <1>2, <1>4, <1>6, KeptByCaller DEF OfCaller
<1> QED BY <1>7 DEF h

LEMMA CallLogDestinationKeeps ==
    ASSUME RawCallShape(call), OfCaller(call, now), NEW type \in Announced, NEW user \in Known
    PROVE  LET h == WazoCallLogDestination(type, user)
           IN RawCallShape(h) /\ OfCaller(h, now)
<1> DEFINE h == WazoCallLogDestination(type, user)
<1>1. IsRawCall(h)
  BY DEF RawCallShape, IsRawCall, WazoCallLogDestination
<1>2. /\ h.tenant = call.tenant /\ h.hidden = call.hidden /\ h.details = type
      /\ h.raw = call.raw /\ h.callerId = call.callerId
      /\ h.recordings = call.recordings
      /\ h.date = call.date /\ h.end = call.end
      /\ h.requestedType /\ h.answer = call.answer
  BY DEF RawCallShape, IsRawCall, RawField, WazoCallLogDestination
<1>3. h.infos = IF type = "user"
                THEN Append(call.infos, Info(user, "destination", ~call.requestedType))
                ELSE call.infos
  BY DEF RawCallShape, IsRawCall, RawField, WazoCallLogDestination
<1> HIDE DEF h
<1>4. Kept(h)
  BY <1>1, <1>2 DEF Kept, RawCallShape
<1>5. RequestedOnce(h)
  <2>1. CASE type = "user"
    BY <1>2, <1>3, <2>1, AnnouncedRequestsOnce DEF RawCallShape
  <2>2. CASE type # "user"
    BY <1>2, <1>3, <2>2, SameUsers DEF RawCallShape
  <2> QED BY <2>1, <2>2
<1>6. RawCallShape(h) /\ OfCaller(h, now)
  BY <1>2, <1>4, <1>5, KeptByCaller DEF OfCaller
<1> QED BY <1>6 DEF h

(* What the handlers of recordings leave as it is.                         *)
OtherThanRecordings(h) ==
    /\ IsRawCall(h)
    /\ h.tenant = call.tenant /\ h.details = call.details
    /\ h.raw = call.raw /\ h.callerId = call.callerId
    /\ h.infos = call.infos /\ h.requestedType = call.requestedType
    /\ h.date = call.date /\ h.answer = call.answer /\ h.hidden = call.hidden

LEMMA RecordingsAlone ==
    ASSUME RawCallShape(call), NEW h, OtherThanRecordings(h), FilesOrdered(h)
    PROVE  RawCallShape(h)
BY DEF RawCallShape, OtherThanRecordings, LegsShape, RequestedOnce

LEMMA MixmonitorStartChanges ==
    ASSUME RawCallShape(call), NEW file, NEW side
    PROVE  LET h == MixmonitorStart(file, side)
           IN /\ OtherThanRecordings(h)
              /\ h.end = call.end /\ h.source = call.source /\ h.requested = call.requested
              /\ h.recordings = Append(call.recordings,
                     [uuid |-> file, start |-> now, end |-> NULL, final |-> FALSE, side |-> side])
<1> DEFINE h == MixmonitorStart(file, side)
<1>1. IsRawCall(h)
  BY DEF RawCallShape, IsRawCall, MixmonitorStart
<1>2. /\ h.tenant = call.tenant /\ h.details = call.details
      /\ h.raw = call.raw /\ h.callerId = call.callerId
      /\ h.infos = call.infos /\ h.requestedType = call.requestedType
      /\ h.date = call.date /\ h.answer = call.answer /\ h.hidden = call.hidden
      /\ h.end = call.end /\ h.source = call.source /\ h.requested = call.requested
      /\ h.recordings = Append(call.recordings,
             [uuid |-> file, start |-> now, end |-> NULL, final |-> FALSE, side |-> side])
  BY DEF RawCallShape, IsRawCall, RawField, MixmonitorStart
<1> HIDE DEF h
<1>3. OtherThanRecordings(h)
  BY <1>1, <1>2 DEF OtherThanRecordings
<1> QED BY <1>2, <1>3 DEF h

(* A recording may start: its file, if any, is of the side that starts it. *)
LEMMA StartKeepsOrder ==
    ASSUME RawCallShape(call), now \in Nat, NEW file, file \in File \cup {"none"},
           NEW side, side \in {"caller", "callee"},
           \A i \in DOMAIN call.recordings :
               call.recordings[i].uuid = file =>
                   call.recordings[i].side = side /\ call.recordings[i].start <= now
    PROVE  LET h == MixmonitorStart(file, side)
           IN /\ RawCallShape(h)
              /\ \A i \in DOMAIN h.recordings :
                     \/ i \in DOMAIN call.recordings /\ h.recordings[i] = call.recordings[i]
                     \/ /\ h.recordings[i].side = side /\ h.recordings[i].uuid = file
                        /\ h.recordings[i].start = now /\ h.recordings[i].end = NULL
<1> DEFINE h == MixmonitorStart(file, side)
           e == [uuid |-> file, start |-> now, end |-> NULL, final |-> FALSE, side |-> side]
           s == call.recordings
           t == h.recordings
<1>0. OtherThanRecordings(h) /\ t = Append(s, e)
  BY MixmonitorStartChanges
<1> HIDE DEF h
<1>1. /\ e \in Entry /\ e.uuid = file /\ e.start = now /\ e.end = NULL /\ e.side = side
  BY DEF Entry, Time
<1>2. s \in Seq(Entry)
  BY DEF RawCallShape, FilesOrdered
<1>3. \A i \in DOMAIN s : s[i].start \in Nat
  BY EntriesAreTyped DEF RawCallShape
<1>4. \A i, j \in DOMAIN s : s[i].uuid = s[j].uuid /\ i <= j =>
          s[i].side = s[j].side /\ s[i].start <= s[j].start
  BY DEF RawCallShape, FilesOrdered
<1>5. \A i \in DOMAIN s : s[i].uuid = file => s[i].side = side /\ s[i].start <= now
  OBVIOUS
<1>6. SUFFICES /\ t \in Seq(Entry)
               /\ \A i, j \in DOMAIN t : t[i].uuid = t[j].uuid /\ i <= j =>
                      t[i].side = t[j].side /\ t[i].start <= t[j].start
               /\ \A i \in DOMAIN t : (i \in DOMAIN s /\ t[i] = s[i]) \/ t[i] = e
  <2>1. RawCallShape(h)
    BY <1>0, RecordingsAlone DEF FilesOrdered
  <2> QED BY <1>1, <2>1 DEF h
<1> HIDE DEF e, s, t
<1>7. /\ t \in Seq(Entry)
      /\ DOMAIN t = 1..(Len(s) + 1) /\ DOMAIN s = 1..Len(s) /\ Len(s) \in Nat
      /\ \A i \in DOMAIN s : t[i] = s[i]
      /\ t[Len(s) + 1] = e
  BY <1>0, <1>1, <1>2, AppendElements
<1>8. \A i \in DOMAIN t : i \in DOMAIN s \/ i = Len(s) + 1
  BY <1>7
<1>9. ASSUME NEW i \in DOMAIN t, NEW j \in DOMAIN t, t[i].uuid = t[j].uuid, i <= j
      PROVE  t[i].side = t[j].side /\ t[i].start <= t[j].start
  <2>1. CASE i \in DOMAIN s /\ j \in DOMAIN s
    BY <1>4, <1>7, <1>9, <2>1
  <2>2. CASE i \in DOMAIN s /\ j = Len(s) + 1
    BY <1>1, <1>5, <1>7, <1>9, <2>2
  <2>3. CASE i = Len(s) + 1 /\ j = Len(s) + 1
    BY <1>1, <1>7, <2>3
  <2>4. CASE i = Len(s) + 1 /\ j \in DOMAIN s
    BY <1>7, <1>9, <2>4
  <2> QED BY <1>8, <2>1, <2>2, <2>3, <2>4
<1> QED BY <1>7, <1>8, <1>9

Stopped(recordings, i, n) ==
    [recordings EXCEPT ![i] = [@ EXCEPT !.end = n, !.final = TRUE]]

LEMMA MixmonitorStopChanges ==
    ASSUME RawCallShape(call), NEW i \in DOMAIN call.recordings
    PROVE  LET h == MixmonitorStop(i)
           IN /\ OtherThanRecordings(h)
              /\ h.end = call.end /\ h.source = call.source /\ h.requested = call.requested
              /\ h.recordings = Stopped(call.recordings, i, now)
<1> DEFINE h == MixmonitorStop(i)
<1>1. IsRawCall(h)
  BY DEF RawCallShape, IsRawCall, MixmonitorStop
<1>2. /\ h.tenant = call.tenant /\ h.details = call.details
      /\ h.raw = call.raw /\ h.callerId = call.callerId
      /\ h.infos = call.infos /\ h.requestedType = call.requestedType
      /\ h.date = call.date /\ h.answer = call.answer /\ h.hidden = call.hidden
      /\ h.end = call.end /\ h.source = call.source /\ h.requested = call.requested
  BY DEF RawCallShape, IsRawCall, RawField, MixmonitorStop
<1>3. h.recordings = Stopped(call.recordings, i, now)
  BY DEF RawCallShape, IsRawCall, RawField, MixmonitorStop, Stopped
<1> HIDE DEF h
<1>4. OtherThanRecordings(h)
  BY <1>1, <1>2 DEF OtherThanRecordings
<1> QED BY <1>2, <1>3, <1>4 DEF h

(* The entry that is stopped alone changes, and only its end.              *)
LEMMA StopKeepsOrder ==
    ASSUME RawCallShape(call), now \in Nat, NEW i \in DOMAIN call.recordings
    PROVE  LET h == MixmonitorStop(i)
           IN /\ RawCallShape(h) /\ DOMAIN h.recordings = DOMAIN call.recordings
              /\ \A j \in DOMAIN call.recordings :
                     /\ h.recordings[j].start = call.recordings[j].start
                     /\ h.recordings[j].side = call.recordings[j].side
                     /\ h.recordings[j].uuid = call.recordings[j].uuid
                     /\ h.recordings[j].end \in {now, call.recordings[j].end}
                     /\ j # i => h.recordings[j] = call.recordings[j]
<1> DEFINE h == MixmonitorStop(i)
           s == call.recordings
           t == h.recordings
           e == [s[i] EXCEPT !.end = now, !.final = TRUE]
<1>1. OtherThanRecordings(h) /\ t = Stopped(s, i, now)
  BY MixmonitorStopChanges
<1>2. FilesOrdered(call)
  BY DEF RawCallShape
<1>3. \A j \in DOMAIN s : s[j] \in Entry
  BY <1>2, EntriesAreTyped
<1> HIDE DEF h
<1>4. t = [j \in DOMAIN s |-> t[j]]
  BY <1>1 DEF Stopped
<1>5. \A j \in DOMAIN s : t[j] = IF j = i THEN e ELSE s[j]
  BY <1>1 DEF Stopped
<1>6. e \in Entry /\ e.uuid = s[i].uuid /\ e.start = s[i].start /\ e.side = s[i].side
      /\ e.end = now
  <2>1. s[i] \in Entry
    BY <1>3
  <2> HIDE DEF s
  <2> QED BY <2>1 DEF Entry, Time
<1> HIDE DEF e, s, t
<1>7. \A j \in DOMAIN s : /\ t[j] \in Entry /\ t[j].uuid = s[j].uuid
                          /\ t[j].start = s[j].start /\ t[j].side = s[j].side
                          /\ t[j].end \in {now, s[j].end}
                          /\ j # i => t[j] = s[j]
  BY <1>3, <1>5, <1>6
<1>8. FilesOrdered(h) /\ DOMAIN t = DOMAIN s
  BY <1>2, <1>4, <1>7, EndsDisturbNoOrder DEF s, t
<1>9. RawCallShape(h)
  BY <1>1, <1>8, RecordingsAlone
<1> QED BY <1>7, <1>8, <1>9 DEF h, s, t

LEMMA CallerStartsRecording ==
    ASSUME RawCallShape(call), OfCaller(call, now), now \in Nat,
           NEW file \in File, MayRecord(file, "caller")
    PROVE  LET h == MixmonitorStart(file, "caller") IN RawCallShape(h) /\ OfCaller(h, now)
<1> DEFINE h == MixmonitorStart(file, "caller")
<1>1. /\ OtherThanRecordings(h) /\ h.end = call.end
      /\ h.recordings = Append(call.recordings,
            [uuid |-> file, start |-> now, end |-> NULL, final |-> FALSE, side |-> "caller"])
  BY MixmonitorStartChanges
<1> HIDE DEF h
<1>2. \A i \in DOMAIN call.recordings :
          call.recordings[i].uuid = file =>
              call.recordings[i].side = "caller" /\ call.recordings[i].start <= now
  BY DEF OfCaller
<1>3. /\ RawCallShape(h)
      /\ \A i \in DOMAIN h.recordings :
             \/ i \in DOMAIN call.recordings /\ h.recordings[i] = call.recordings[i]
             \/ /\ h.recordings[i].side = "caller" /\ h.recordings[i].uuid = file
                /\ h.recordings[i].start = now /\ h.recordings[i].end = NULL
  BY <1>2, StartKeepsOrder DEF h
<1>5. OfCaller(h, now)
  BY <1>1, <1>3 DEF OfCaller, OtherThanRecordings, Ended
<1> QED BY <1>3, <1>5 DEF h

LEMMA CallerStopsRecording ==
    ASSUME RawCallShape(call), OfCaller(call, now), now \in Nat,
           NEW i \in DOMAIN call.recordings
    PROVE  RawCallShape(MixmonitorStop(i)) /\ OfCaller(MixmonitorStop(i), now)
<1> DEFINE h == MixmonitorStop(i)
<1>1. /\ RawCallShape(h) /\ DOMAIN h.recordings = DOMAIN call.recordings
      /\ \A j \in DOMAIN call.recordings :
             /\ h.recordings[j].start = call.recordings[j].start
             /\ h.recordings[j].side = call.recordings[j].side
             /\ h.recordings[j].uuid = call.recordings[j].uuid
             /\ h.recordings[j].end \in {now, call.recordings[j].end}
  BY StopKeepsOrder
<1>2. OtherThanRecordings(h) /\ h.end = call.end
  BY MixmonitorStopChanges
<1> HIDE DEF h
<1>3. OfCaller(h, now)
  BY <1>1, <1>2 DEF OfCaller, OtherThanRecordings, Ended
<1> QED BY <1>1, <1>3 DEF h

LEMMA EmptyIsShown == Empty # "s" /\ Empty # Meeting
BY Zenon DEF Empty, Meeting

LEMMA NoUsersYet == ASSUME NEW k, k.infos = <<>> PROVE RequestedOnce(k)
BY DEF RequestedOnce

LEMMA NoRecordingsYet == ASSUME NEW k, k.recordings = <<>> PROVE FilesOrdered(k)
BY DEF FilesOrdered

LEMMA NewCallShape == RawCallShape(NewCall)
<1>1. IsRawCall(NewCall)
  BY DEF IsRawCall, NewCall, RawField
<1>2. /\ NewCall.details = "none" /\ NewCall.tenant = Empty /\ NewCall.hidden = {"s"}
      /\ NewCall.infos = <<>> /\ NewCall.recordings = <<>>
  BY DEF NewCall
<1>3. LegsShape(NewCall)
  <2>1. /\ NewCall.raw = [c \in {} |-> {}] /\ DOMAIN NewCall.raw = {}
        /\ DOMAIN NewCall.callerId = {}
    BY DEF NewCall
  <2>2. NewCall.raw \in [{} -> Leg]
    BY <2>1
  <2>3. NewCall.raw \in Partial(Leg)
    BY <2>2, PartialMember
  <2> QED BY <2>1, <2>3 DEF LegsShape
<1> HIDE DEF NewCall
<1> QED BY <1>1, <1>2, <1>3, NoUsersYet, NoRecordingsYet DEF RawCallShape

LEMMA ChanStartKeeps ==
    ASSUME now \in Nat, NEW num, NEW exten
    PROVE  RawCallShape(ChanStart(num, exten)) /\ OfCaller(ChanStart(num, exten), now)
<1> DEFINE h == ChanStart(num, exten)
           raw == [c \in {1} |-> [role |-> "source", answered |-> FALSE]]
<1>1. IsRawCall(NewCall)
  BY NewCallShape DEF RawCallShape
<1>2. IsRawCall(h)
  BY <1>1 DEF IsRawCall, ChanStart
<1>3. /\ h.tenant = NewCall.tenant /\ h.hidden = NewCall.hidden
      /\ h.details = NewCall.details /\ h.callerId = NewCall.callerId
      /\ h.infos = NewCall.infos /\ h.recordings = NewCall.recordings
      /\ h.date = 0 /\ h.end = NewCall.end /\ h.answer = NewCall.answer
  BY <1>1 DEF IsRawCall, RawField, ChanStart
<1>4. h.raw = raw
  BY <1>1 DEF IsRawCall, RawField, ChanStart
<1>5. raw \in [{1} -> Leg] /\ DOMAIN raw = {1} /\ raw[1].role = "source"
  BY DEF Leg
<1> HIDE DEF h, raw
<1>6. /\ NewCall.infos = <<>> /\ NewCall.recordings = <<>>
      /\ NewCall.end = NULL /\ NewCall.answer = NULL /\ DOMAIN NewCall.callerId = {}
  BY DEF NewCall
<1>7. LegsShape(h)
  BY <1>3, <1>4, <1>5, <1>6, ChannelsAreNumbers, PartialMember DEF LegsShape
<1>8. RequestedOnce(h) /\ FilesOrdered(h)
  BY <1>3, <1>6, NoUsersYet, NoRecordingsYet
<1>9. RawCallShape(h)
  BY <1>2, <1>3, <1>7, <1>8, NewCallShape DEF RawCallShape
<1>10. OfCaller(h, now)
  BY <1>3, <1>4, <1>5, <1>6 DEF OfCaller
<1> QED BY <1>9, <1>10 DEF h

(* The caller's CELs may stop without their end.                           *)
LEMMA CallerEndUnwritten ==
    ASSUME RawCallShape(call), OfCaller(call, now)
    PROVE  OfCallee(call, 0)
BY DEF OfCaller, OfCallee, FieldsOrdered, CallerEntry

LEMMA ChanEndKeeps ==
    ASSUME RawCallShape(call), OfCaller(call, now), now \in Nat
    PROVE  RawCallShape(ChanEnd) /\ OfCallee(ChanEnd, 0)
<1> DEFINE h == ChanEnd
           s == call.recordings
           t == h.recordings
<1>1. IsRawCall(h)
  BY DEF RawCallShape, IsRawCall, ChanEnd
<1>2. /\ h.tenant = call.tenant /\ h.details = call.details
      /\ h.raw = call.raw /\ h.callerId = call.callerId
      /\ h.infos = call.infos /\ h.requestedType = call.requestedType
      /\ h.date = call.date /\ h.answer = call.answer /\ h.hidden = call.hidden
      /\ h.end = now /\ h.source = Filter(call.source) /\ h.requested = Filter(call.requested)
  BY DEF RawCallShape, IsRawCall, RawField, ChanEnd
<1>3. t = [i \in DOMAIN s |-> IF s[i].end = NULL THEN [s[i] EXCEPT !.end = now] ELSE s[i]]
  BY DEF RawCallShape, IsRawCall, RawField, ChanEnd
<1> HIDE DEF h
<1>4. OtherThanRecordings(h)
  BY <1>1, <1>2 DEF OtherThanRecordings
<1>5. FilesOrdered(call)
  BY DEF RawCallShape
<1>6. \A i \in DOMAIN s : /\ s[i] \in Entry /\ s[i].start \in Nat
                          /\ s[i].end = NULL \/ s[i].end \in Nat
  BY <1>5, EntriesAreTyped
<1>7. \A i \in DOMAIN s :
          s[i].side = "caller" /\ s[i].uuid \in File /\ s[i].start <= now /\ Ended(s[i])
  BY DEF OfCaller
<1> HIDE DEF s, t
<1>8. \A i \in DOMAIN s : /\ t[i] \in Entry /\ t[i].uuid = s[i].uuid
                          /\ t[i].start = s[i].start /\ t[i].side = s[i].side
                          /\ t[i].end = IF s[i].end = NULL THEN now ELSE s[i].end
  BY <1>3, <1>6 DEF Entry, Time
<1>9. t = [i \in DOMAIN s |-> t[i]]
  BY <1>3
<1>10. FilesOrdered(h) /\ DOMAIN t = DOMAIN s
  BY <1>5, <1>8, <1>9, EndsDisturbNoOrder DEF s, t
<1>11. RawCallShape(h)
  BY <1>4, <1>10, RecordingsAlone
<1>12. \A i \in DOMAIN t : t[i].side = "caller" /\ t[i].uuid \in File /\ t[i].start <= t[i].end
  BY <1>6, <1>7, <1>8, <1>10 DEF Ended
<1>13. FieldsOrdered(h)
  <2>1. h.source \notin h.hidden /\ h.requested \notin h.hidden
    <3>1. Empty \notin call.hidden
      BY EmptyIsShown DEF RawCallShape
    <3> QED BY <1>2, <3>1 DEF Filter
  <2>2. h.date <= h.end /\ (h.answer # NULL => h.date <= h.answer /\ h.answer <= h.end)
    BY <1>2 DEF OfCaller
  <2> QED BY <2>1, <2>2 DEF FieldsOrdered
<1>14. OfCallee(h, 0)
  BY <1>2, <1>12, <1>13 DEF OfCallee, OfCaller, CallerEntry, t
<1> QED BY <1>11, <1>14 DEF h

-----------------------------------------------------------------------------
(***************************************************************************)
(* The callees' CELs.                                                      *)
(***************************************************************************)
KeptByCalleeHandler(h) ==
    /\ IsRawCall(h)
    /\ h.tenant = call.tenant /\ h.details = call.details /\ h.hidden = call.hidden
    /\ h.infos = call.infos /\ h.requestedType = call.requestedType
    /\ h.date = call.date /\ h.answer = call.answer /\ h.end = call.end
    /\ h.source = call.source /\ h.requested = call.requested
    /\ h.recordings = call.recordings

LEMMA KeptByCallee ==
    ASSUME RawCallShape(call), OfCallee(call, now), NEW h, KeptByCalleeHandler(h),
           LegsShape(h), 1 \in DOMAIN h.raw
    PROVE  RawCallShape(h) /\ OfCallee(h, now)
<1>1. RequestedOnce(h)
  BY SameUsers DEF RawCallShape, KeptByCalleeHandler
<1>2. FilesOrdered(h)
  BY DEF RawCallShape, KeptByCalleeHandler, FilesOrdered
<1>3. RawCallShape(h)
  BY <1>1, <1>2 DEF RawCallShape, KeptByCalleeHandler
<1>4. FieldsOrdered(h)
  BY DEF OfCallee, FieldsOrdered, KeptByCalleeHandler
<1>5. OfCallee(h, now)
  BY <1>4 DEF OfCallee, CallerEntry, KeptByCalleeHandler
<1> QED BY <1>3, <1>5

LEMMA SameLegs ==
    ASSUME RawCallShape(call), OfCallee(call, now), NEW h, KeptByCalleeHandler(h),
           h.raw = call.raw, h.callerId = call.callerId
    PROVE  RawCallShape(h) /\ OfCallee(h, now)
<1>1. LegsShape(h)
  BY DEF RawCallShape, LegsShape
<1> QED BY <1>1, KeptByCallee DEF OfCallee

LEMMA CalleeVoicemailKeeps ==
    ASSUME RawCallShape(call), OfCallee(call, now)
    PROVE  RawCallShape(VoicemailAppStart) /\ OfCallee(VoicemailAppStart, now)
<1> DEFINE h == VoicemailAppStart
<1>1. IsRawCall(h)
  BY DEF RawCallShape, IsRawCall, VoicemailAppStart
<1>2. KeptByCalleeHandler(h)
  BY <1>1 DEF RawCallShape, IsRawCall, RawField, VoicemailAppStart, KeptByCalleeHandler
<1>3. h.raw = call.raw /\ h.callerId = call.callerId
  BY DEF RawCallShape, IsRawCall, RawField, VoicemailAppStart
<1> HIDE DEF h
<1>4. RawCallShape(h) /\ OfCallee(h, now)
  BY <1>2, <1>3, SameLegs
<1> QED BY <1>4 DEF h

LEMMA CalleeRequestedKeeps ==
    ASSUME RawCallShape(call), OfCallee(call, now), NEW num, NEW context
    PROVE  LET h == RequestedInternal(num, context) IN RawCallShape(h) /\ OfCallee(h, now)
<1> DEFINE h == RequestedInternal(num, context)
<1>1. IsRawCall(h)
  BY DEF RawCallShape, IsRawCall, RequestedInternal
<1>2. KeptByCalleeHandler(h)
  BY <1>1 DEF RawCallShape, IsRawCall, RawField, RequestedInternal, KeptByCalleeHandler
<1>3. h.raw = call.raw /\ h.callerId = call.callerId
  BY DEF RawCallShape, IsRawCall, RawField, RequestedInternal
<1> HIDE DEF h
<1>4. RawCallShape(h) /\ OfCallee(h, now)
  BY <1>2, <1>3, SameLegs
<1> QED BY <1>4 DEF h

LEMMA LegsAreTyped ==
    ASSUME NEW k, LegsShape(k)
    PROVE  /\ DOMAIN k.raw \subseteq Channel
           /\ k.raw = [c \in DOMAIN k.raw |-> k.raw[c]]
           /\ \A c \in DOMAIN k.raw :
                  /\ k.raw[c] \in Leg
                  /\ k.raw[c].role \in {"source", "destination"}
                  /\ k.raw[c].answered \in BOOLEAN
                  /\ k.raw[c].role = "source" <=> c = 1
<1>1. k.raw \in [DOMAIN k.raw -> Leg] /\ DOMAIN k.raw \subseteq Channel
  BY PartialElement DEF LegsShape
<1>2. \A c \in DOMAIN k.raw : k.raw[c] \in Leg
  BY <1>1
<1>3. k.raw = [c \in DOMAIN k.raw |-> k.raw[c]]
  BY <1>1
<1> QED BY <1>1, <1>2, <1>3 DEF LegsShape, Leg

LEMMA CalleeStartKeeps ==
    ASSUME RawCallShape(call), OfCallee(call, now), NEW c \in Channel, c # 1,
           NEW num, NEW kind
    PROVE  LET h == CalleeChanStart(c, num, kind) IN RawCallShape(h) /\ OfCallee(h, now)
<1> DEFINE h == CalleeChanStart(c, num, kind)
           raw == Participant(c, "destination")
<1>1. IsRawCall(h)
  BY DEF RawCallShape, IsRawCall, CalleeChanStart
<1>2. KeptByCalleeHandler(h)
  BY <1>1 DEF RawCallShape, IsRawCall, RawField, CalleeChanStart, KeptByCalleeHandler
<1>3. h.raw = raw
  BY DEF RawCallShape, IsRawCall, RawField, CalleeChanStart
<1>4. DOMAIN h.callerId = DOMAIN call.callerId \cup {c}
  BY DEF RawCallShape, IsRawCall, RawField, CalleeChanStart
<1>5. LegsShape(call)
  BY DEF RawCallShape
<1>6. \A d \in DOMAIN call.raw \cup {c} :
          /\ raw[d] \in Leg
          /\ raw[d].role = "source" <=> d = 1
  <2> SUFFICES ASSUME NEW d \in DOMAIN call.raw \cup {c}
               PROVE  raw[d] \in Leg /\ (raw[d].role = "source" <=> d = 1)
    OBVIOUS
  <2>1. CASE d # c
    <3>1. raw[d] = call.raw[d]
      BY <2>1 DEF Participant
    <3>2. d \in DOMAIN call.raw
      BY <2>1
    <3>3. call.raw[d] \in Leg /\ (call.raw[d].role = "source" <=> d = 1)
      BY <1>5, <3>2, LegsAreTyped
    <3> QED BY <3>1, <3>3
  <2>2. CASE d = c
    <3> DEFINE answered == d \in DOMAIN call.raw /\ call.raw[d].answered
    <3>1. raw[d] = [role |-> "destination", answered |-> answered]
      BY <2>2 DEF Participant
    <3>2. answered \in BOOLEAN
      OBVIOUS
    <3> HIDE DEF raw, answered
    <3> QED BY <2>2, <3>1, <3>2 DEF Leg
  <2> QED BY <2>1, <2>2
<1>7. raw = [d \in DOMAIN call.raw \cup {c} |-> raw[d]]
  BY DEF Participant
<1> HIDE DEF h, raw
<1>8. raw \in Partial(Leg) /\ DOMAIN raw = DOMAIN call.raw \cup {c}
  <2> DEFINE C == DOMAIN call.raw \cup {c}
  <2>1. C \in SUBSET Channel
    BY <1>5, LegsAreTyped
  <2>2. raw \in [C -> Leg] /\ DOMAIN raw = C
    BY <1>6, <1>7
  <2> HIDE DEF C
  <2>3. raw \in Partial(Leg)
    BY <2>1, <2>2, PartialMember
  <2> QED BY <2>2, <2>3 DEF C
<1>9. LegsShape(h)
  BY <1>3, <1>4, <1>5, <1>6, <1>8 DEF LegsShape
<1>10. 1 \in DOMAIN h.raw
  BY <1>3, <1>8 DEF OfCallee
<1>11. RawCallShape(h) /\ OfCallee(h, now)
  BY <1>2, <1>9, <1>10, KeptByCallee
<1> QED BY <1>11 DEF h

LEMMA CalleeBridgeKeeps ==
    ASSUME RawCallShape(call), OfCallee(call, now), NEW c, NEW num, NEW peers
    PROVE  LET h == CalleeBridgeEnter(c, num, peers) IN RawCallShape(h) /\ OfCallee(h, now)
<1> DEFINE h == CalleeBridgeEnter(c, num, peers)
           raw == Answered({c} \cup peers)
<1>1. IsRawCall(h)
  BY DEF RawCallShape, IsRawCall, CalleeBridgeEnter
<1>2. KeptByCalleeHandler(h)
  BY <1>1 DEF RawCallShape, IsRawCall, RawField, CalleeBridgeEnter, KeptByCalleeHandler
<1>3. h.raw = raw /\ h.callerId = call.callerId
  BY DEF RawCallShape, IsRawCall, RawField, CalleeBridgeEnter
<1>5. LegsShape(call)
  BY DEF RawCallShape
<1>6. \A d \in DOMAIN call.raw : raw[d] \in Leg /\ raw[d].role = call.raw[d].role
  <2> SUFFICES ASSUME NEW d \in DOMAIN call.raw
               PROVE  raw[d] \in Leg /\ raw[d].role = call.raw[d].role
    OBVIOUS
  <2>1. call.raw[d] \in Leg
    BY <1>5, LegsAreTyped
  <2>2. raw[d] \in {call.raw[d], [call.raw[d] EXCEPT !.answered = TRUE]}
    BY DEF Answered
  <2> HIDE DEF raw
  <2> QED BY <2>1, <2>2 DEF Leg
<1>7. raw = [d \in DOMAIN call.raw |-> raw[d]]
  BY DEF Answered
<1> HIDE DEF h, raw
<1>8. raw \in Partial(Leg) /\ DOMAIN raw = DOMAIN call.raw
  <2> DEFINE C == DOMAIN call.raw
  <2>1. C \in SUBSET Channel
    BY <1>5, LegsAreTyped
  <2>2. raw \in [C -> Leg] /\ DOMAIN raw = C
    BY <1>6, <1>7
  <2> HIDE DEF C
  <2>3. raw \in Partial(Leg)
    BY <2>1, <2>2, PartialMember
  <2> QED BY <2>2, <2>3 DEF C
<1>9. LegsShape(h)
  BY <1>3, <1>5, <1>6, <1>8 DEF LegsShape
<1>10. 1 \in DOMAIN h.raw
  BY <1>3, <1>8 DEF OfCallee
<1>11. RawCallShape(h) /\ OfCallee(h, now)
  BY <1>2, <1>9, <1>10, KeptByCallee
<1> QED BY <1>11 DEF h

LEMMA CalleeStartsRecording ==
    ASSUME RawCallShape(call), OfCallee(call, now), now \in Nat,
           NEW file \in File \cup {"none"}, file = "none" \/ MayRecord(file, "callee")
    PROVE  LET h == MixmonitorStart(file, "callee") IN RawCallShape(h) /\ OfCallee(h, now)
<1> DEFINE h == MixmonitorStart(file, "callee")
<1>1. /\ OtherThanRecordings(h)
      /\ h.end = call.end /\ h.source = call.source /\ h.requested = call.requested
      /\ h.recordings = Append(call.recordings,
            [uuid |-> file, start |-> now, end |-> NULL, final |-> FALSE, side |-> "callee"])
  BY MixmonitorStartChanges
<1> HIDE DEF h
<1>2. ASSUME NEW i \in DOMAIN call.recordings, call.recordings[i].uuid = file
      PROVE  call.recordings[i].side = "callee" /\ call.recordings[i].start <= now
  <2> DEFINE r == call.recordings[i]
  <2>1. \/ r.side = "caller" /\ r.uuid \in File
        \/ r.side = "callee" /\ r.start <= now
    BY DEF OfCallee, CallerEntry
  <2>2. file \in File => r.side = "callee"
    BY <1>2, InterpretationAssumption DEF MayRecord
  <2>3. file = "none" => r.uuid \notin File
    BY <1>2, InterpretationAssumption
  <2> HIDE DEF r
  <2>4. r.side = "callee" /\ r.start <= now
    BY <2>1, <2>2, <2>3
  <2> QED BY <2>4 DEF r
<1>3. /\ RawCallShape(h)
      /\ \A i \in DOMAIN h.recordings :
             \/ i \in DOMAIN call.recordings /\ h.recordings[i] = call.recordings[i]
             \/ /\ h.recordings[i].side = "callee" /\ h.recordings[i].uuid = file
                /\ h.recordings[i].start = now /\ h.recordings[i].end = NULL
  BY <1>2, StartKeepsOrder DEF h
<1>5. FieldsOrdered(h) /\ 1 \in DOMAIN h.raw
  BY <1>1 DEF OfCallee, FieldsOrdered, OtherThanRecordings
<1>6. OfCallee(h, now)
  BY <1>1, <1>3, <1>5 DEF OfCallee, CallerEntry, Ended
<1> QED BY <1>3, <1>6 DEF h

LEMMA CalleeStopsRecording ==
    ASSUME RawCallShape(call), OfCallee(call, now), now \in Nat,
           NEW i \in DOMAIN call.recordings, call.recordings[i].side = "callee"
    PROVE  RawCallShape(MixmonitorStop(i)) /\ OfCallee(MixmonitorStop(i), now)
<1> DEFINE h == MixmonitorStop(i)
<1>1. /\ RawCallShape(h) /\ DOMAIN h.recordings = DOMAIN call.recordings
      /\ \A j \in DOMAIN call.recordings :
             /\ h.recordings[j].start = call.recordings[j].start
             /\ h.recordings[j].side = call.recordings[j].side
             /\ h.recordings[j].end \in {now, call.recordings[j].end}
             /\ j # i => h.recordings[j] = call.recordings[j]
  BY StopKeepsOrder
<1>2. OtherThanRecordings(h) /\ h.end = call.end
      /\ h.source = call.source /\ h.requested = call.requested
  BY MixmonitorStopChanges
<1> HIDE DEF h
<1>3. FieldsOrdered(h) /\ 1 \in DOMAIN h.raw
  BY <1>2 DEF OfCallee, FieldsOrdered, OtherThanRecordings
<1>4. \A j \in DOMAIN h.recordings :
          \/ CallerEntry(h, h.recordings[j])
          \/ /\ h.recordings[j].side = "callee" /\ h.recordings[j].start <= now
             /\ Ended(h.recordings[j])
  <2> SUFFICES ASSUME NEW j \in DOMAIN call.recordings
               PROVE  \/ CallerEntry(h, h.recordings[j])
                      \/ /\ h.recordings[j].side = "callee" /\ h.recordings[j].start <= now
                         /\ Ended(h.recordings[j])
    BY <1>1
  <2>1. CASE j = i
    BY <1>1, <2>1 DEF OfCallee, CallerEntry, Ended
  <2>2. CASE j # i
    BY <1>1, <1>2, <2>2 DEF OfCallee, CallerEntry
  <2> QED BY <2>1, <2>2
<1>5. OfCallee(h, now)
  BY <1>3, <1>4 DEF OfCallee
<1> QED BY <1>1, <1>5 DEF h

LEMMA CalleeEndKeeps ==
    ASSUME RawCallShape(call), OfCallee(call, now), now \in Nat
    PROVE  RawCallShape(CalleeChanEnd) /\ OfCallee(CalleeChanEnd, now)
<1> DEFINE h == CalleeChanEnd
           s == call.recordings
           t == h.recordings
<1>1. IsRawCall(h)
  BY DEF RawCallShape, IsRawCall, CalleeChanEnd
<1>2. /\ h.tenant = call.tenant /\ h.details = call.details
      /\ h.raw = call.raw /\ h.callerId = call.callerId
      /\ h.infos = call.infos /\ h.requestedType = call.requestedType
      /\ h.date = call.date /\ h.answer = call.answer /\ h.hidden = call.hidden
      /\ h.end = call.end /\ h.source = call.source /\ h.requested = call.requested
  BY DEF RawCallShape, IsRawCall, RawField, CalleeChanEnd
<1>3. t = [i \in DOMAIN s |-> IF ~s[i].final /\ s[i].end < now
                             THEN [s[i] EXCEPT !.end = now] ELSE s[i]]
  BY DEF RawCallShape, IsRawCall, RawField, CalleeChanEnd
<1> HIDE DEF h
<1>4. OtherThanRecordings(h)
  BY <1>1, <1>2 DEF OtherThanRecordings
<1>5. FilesOrdered(call)
  BY DEF RawCallShape
<1>6. \A i \in DOMAIN s : /\ s[i] \in Entry /\ s[i].start \in Nat
                          /\ s[i].end = NULL \/ s[i].end \in Nat
  BY <1>5, EntriesAreTyped
<1>7. \A i \in DOMAIN s :
          \/ CallerEntry(call, s[i])
          \/ s[i].side = "callee" /\ s[i].start <= now /\ Ended(s[i])
  BY DEF OfCallee
<1> HIDE DEF s, t
<1>8. \A i \in DOMAIN s : /\ t[i] \in Entry /\ t[i].uuid = s[i].uuid
                          /\ t[i].start = s[i].start /\ t[i].side = s[i].side
                          /\ t[i].end = s[i].end \/ (t[i].end = now /\ s[i].end < now)
  <2> SUFFICES ASSUME NEW i \in DOMAIN s
               PROVE  /\ t[i] \in Entry /\ t[i].uuid = s[i].uuid
                      /\ t[i].start = s[i].start /\ t[i].side = s[i].side
                      /\ t[i].end = s[i].end \/ (t[i].end = now /\ s[i].end < now)
    OBVIOUS
  <2>1. t[i] = s[i] \/ (t[i] = [s[i] EXCEPT !.end = now] /\ s[i].end < now)
    BY <1>3
  <2> QED BY <1>6, <2>1 DEF Entry, Time
<1>9. t = [i \in DOMAIN s |-> t[i]]
  BY <1>3
<1>10. FilesOrdered(h) /\ DOMAIN t = DOMAIN s
  BY <1>5, <1>8, <1>9, EndsDisturbNoOrder DEF s, t
<1>11. RawCallShape(h)
  BY <1>4, <1>10, RecordingsAlone
<1>12. \A i \in DOMAIN t :
          \/ CallerEntry(h, t[i])
          \/ t[i].side = "callee" /\ t[i].start <= now /\ Ended(t[i])
  <2> SUFFICES ASSUME NEW i \in DOMAIN s
               PROVE  \/ CallerEntry(h, t[i])
                      \/ t[i].side = "callee" /\ t[i].start <= now /\ Ended(t[i])
    BY <1>10
  <2>1. CASE CallerEntry(call, s[i])
    <3>1. t[i].side = "caller" /\ t[i].uuid \in File /\ t[i].start = s[i].start
      BY <1>8, <2>1 DEF CallerEntry
    <3>2. CASE call.end = NULL
      BY <1>2, <2>1, <3>1, <3>2 DEF CallerEntry
    <3>3. CASE s[i].start <= s[i].end
      <4>1. s[i].start \in Nat /\ s[i].end \in Int
        BY <1>6 DEF NULL
      <4>2. s[i].start <= t[i].end
        BY <1>8, <3>3, <4>1
      <4> QED BY <3>1, <4>2 DEF CallerEntry
    <3> QED BY <2>1, <3>2, <3>3 DEF CallerEntry
  <2>2. CASE s[i].side = "callee" /\ s[i].start <= now /\ Ended(s[i])
    BY <1>6, <1>8, <2>2 DEF Ended, NULL
  <2> QED BY <1>7, <2>1, <2>2
<1>13. FieldsOrdered(h) /\ 1 \in DOMAIN h.raw
  BY <1>2 DEF OfCallee, FieldsOrdered
<1>14. OfCallee(h, now)
  BY <1>12, <1>13 DEF OfCallee, t
<1> QED BY <1>11, <1>14 DEF h

-----------------------------------------------------------------------------
(***************************************************************************)
(* Calls the server originates.                                            *)
(***************************************************************************)
LEMMA OriginatedKeeps ==
    ASSUME NEW num, NEW exten, NEW C, C \subseteq Channel \ {1}, NEW answer, NEW end \in Nat,
           NEW s \in Seq(Entry),
           \A i \in DOMAIN s : s[i].start <= end /\ Ended(s[i]),
           \A i, j \in DOMAIN s : s[i].side = s[j].side
                                  /\ (i <= j => s[i].start <= s[j].start),
           NEW voicemail, NEW direction, NEW user, user \in Known \cup {Empty},
           NEW t, t \in Tenant \cup {Empty}
    PROVE  LET h == Originated(num, exten, C, answer, end, s, voicemail, direction, user, t)
           IN RawCallShape(h) /\ OfOriginated(h)
<1> DEFINE h == Originated(num, exten, C, answer, end, s, voicemail, direction, user, t)
           raw == [c \in {1} \cup C |-> [role |-> IF c = 1 THEN "source" ELSE "destination",
                                        answered |-> FALSE]]
           ended == [i \in DOMAIN s |-> IF s[i].end = NULL THEN [s[i] EXCEPT !.end = end] ELSE s[i]]
<1>1. IsRawCall(NewCall)
  BY NewCallShape DEF RawCallShape
<1>2. IsRawCall(h)
  BY <1>1 DEF IsRawCall, Originated
<1>3. /\ h.tenant = t /\ h.hidden = NewCall.hidden
      /\ h.details = NewCall.details /\ h.callerId = NewCall.callerId
      /\ h.infos = IF user = Empty THEN <<>> ELSE <<Info(user, "source", TRUE)>>
      /\ h.requestedType = (user # Empty) /\ h.originated = TRUE
  BY <1>1 DEF IsRawCall, RawField, Originated
<1>4. h.raw = raw /\ h.recordings = ended
  BY <1>1 DEF IsRawCall, RawField, Originated
<1>5. /\ raw \in [{1} \cup C -> Leg] /\ DOMAIN raw = {1} \cup C
      /\ \A c \in {1} \cup C : raw[c].role = "source" <=> c = 1
  BY DEF Leg
<1> HIDE DEF h, raw
<1>6. /\ DOMAIN NewCall.callerId = {}
  BY DEF NewCall
<1>7. LegsShape(h)
  <2>1. {1} \cup C \in SUBSET Channel
    BY ChannelsAreNumbers
  <2>2. raw \in Partial(Leg)
    BY <1>5, <2>1, PartialMember
  <2> QED BY <1>3, <1>4, <1>5, <1>6, <2>2 DEF LegsShape
<1>8. RequestedOnce(h)
  <2>1. CASE user = Empty
    BY <1>3, <2>1, NoUsersYet
  <2>2. CASE user # Empty
    <3> DEFINE info == Info(user, "source", TRUE)
    <3>1. info \in UserInfo
      BY <2>2 DEF Info, UserInfo
    <3> HIDE DEF info
    <3>2. h.infos = <<info>> /\ h.requestedType
      BY <1>3, <2>2 DEF info
    <3>3. h.infos \in Seq(UserInfo) /\ DOMAIN h.infos = {1}
      BY <3>1, <3>2
    <3> QED BY <3>2, <3>3 DEF RequestedOnce
  <2> QED BY <2>1, <2>2
<1>9. DOMAIN s = 1..Len(s) /\ Len(s) \in Nat /\ \A i \in DOMAIN s : s[i] \in Entry
  BY LenProperties, ElementOfSeq
<1>10. \A i \in DOMAIN s : /\ ended[i] \in Entry /\ ended[i].start <= ended[i].end
                           /\ ended[i].side = s[i].side /\ ended[i].start = s[i].start
  <2> SUFFICES ASSUME NEW i \in DOMAIN s
               PROVE  /\ ended[i] \in Entry /\ ended[i].start <= ended[i].end
                      /\ ended[i].side = s[i].side /\ ended[i].start = s[i].start
    OBVIOUS
  <2>1. CASE s[i].end = NULL
    <3>1. ended[i] = [s[i] EXCEPT !.end = end]
      BY <2>1
    <3> HIDE DEF ended
    <3> DEFINE was == s[i]
               cut == [was EXCEPT !.end = end]
    <3>2. was \in Entry /\ was.start <= end
      BY <1>9
    <3>3. ended[i] = cut
      BY <3>1
    <3> HIDE DEF was
    <3>4. cut \in Entry /\ cut.end = end /\ cut.side = was.side /\ cut.start = was.start
      BY <3>2 DEF Entry, Time
    <3> QED BY <3>2, <3>3, <3>4 DEF was
  <2>2. CASE s[i].end # NULL
    <3>1. ended[i] = s[i]
      BY <2>2
    <3> HIDE DEF ended
    <3> QED BY <1>9, <2>2, <3>1 DEF Ended
  <2> QED BY <2>1, <2>2
<1>11. ended = [i \in DOMAIN s |-> ended[i]]
  OBVIOUS
<1> HIDE DEF ended
<1>12. ended \in Seq(Entry) /\ DOMAIN ended = DOMAIN s
  BY <1>10, <1>11, SameDomainIsSequence
<1>13. FilesOrdered(h)
  <2>1. \A i, j \in DOMAIN ended : /\ ended[i].side = ended[j].side
                                   /\ i <= j => ended[i].start <= ended[j].start
    BY <1>10, <1>12
  <2> QED BY <1>4, <1>12, <2>1 DEF FilesOrdered
<1>14. RawCallShape(h)
  BY <1>2, <1>3, <1>7, <1>8, <1>13, NewCallShape DEF RawCallShape
<1>15. OfOriginated(h)
  BY <1>3, <1>4, <1>6, <1>10, <1>12 DEF OfOriginated, Ended
<1> QED BY <1>14, <1>15 DEF h

-----------------------------------------------------------------------------
(***************************************************************************)
(* The completion of the call log.                                         *)
(***************************************************************************)

(* The last of some channels of the call.                                  *)
LEMMA LastChannelOf ==
    ASSUME LegsShape(call), NEW S, S \subseteq DOMAIN call.raw, S # {}
    PROVE  Max(S) \in S /\ \A m \in S : m <= Max(S)
<1>1. S \subseteq Channel
  BY LegsAreTyped
<1>2. S \subseteq Nat /\ \A c \in S : c <= Cardinality(Channel)
  BY <1>1, ChannelsAreNumbers
<1> QED BY <1>2, LastOf, ChannelsAreNumbers

(* Each line of the call keeps a channel, one that answered if one did,    *)
(* and then none that is before the others that answered.                  *)
LEMMA KeptChannelOfLine ==
    ASSUME LegsShape(call), NEW c \in DOMAIN call.raw
    PROVE  LET k == KeptChannel(Line[c])
           IN /\ k \in DOMAIN call.raw /\ k \in RemoveDuplicateParticipants
              /\ Line[k] = Line[c]
              /\ call.raw[c].answered => call.raw[k].answered /\ c <= k
<1> DEFINE channels == ChannelsOf(Line[c])
           answered == {d \in channels : call.raw[d].answered}
           k == KeptChannel(Line[c])
<1>1. /\ c \in channels /\ channels \subseteq DOMAIN call.raw
      /\ \A d \in channels : Line[d] = Line[c]
  BY DEF ChannelsOf
<1>2. k = Max(IF answered # {} THEN answered ELSE channels)
  BY DEF KeptChannel
<1>3. k \in RemoveDuplicateParticipants
  BY DEF RemoveDuplicateParticipants
<1>4. answered \subseteq channels /\ \A d \in channels : call.raw[d].answered => d \in answered
  OBVIOUS
<1>5. \A d \in answered : call.raw[d].answered
  OBVIOUS
<1> HIDE DEF k, channels, answered
<1>6. CASE answered # {}
  <2>1. k \in answered /\ \A d \in answered : d <= k
    BY <1>1, <1>2, <1>4, <1>6, LastChannelOf
  <2> QED BY <1>1, <1>3, <1>4, <1>5, <2>1 DEF k
<1>7. CASE answered = {}
  <2>1. k \in channels
    BY <1>1, <1>2, <1>7, LastChannelOf
  <2> QED BY <1>1, <1>3, <1>4, <1>7, <2>1 DEF k
<1> QED BY <1>6, <1>7

LEMMA KeptChannelsAreOfCall ==
    ASSUME LegsShape(call) PROVE RemoveDuplicateParticipants \subseteq DOMAIN call.raw
<1> SUFFICES ASSUME NEW c \in DOMAIN call.raw PROVE KeptChannel(Line[c]) \in DOMAIN call.raw
  BY DEF RemoveDuplicateParticipants
<1> QED BY KeptChannelOfLine

(* A requested participant is of the user, and at the place, of the only   *)
(* info that says so.                                                      *)
LEMMA OneRequestedParticipant ==
    ASSUME LegsShape(call), RequestedOnce(call),
           NEW p \in FetchParticipants, p.requested, NEW q \in FetchParticipants, q.requested
    PROVE  p = q
<1> DEFINE kept == RemoveDuplicateParticipants
           legs(user) == {c \in kept : User[Line[c]] = user}
           infos(user) == {i \in DOMAIN call.infos : call.infos[i].user = user}
           leg(user, c) == [channel |-> c, user |-> user, role |-> call.raw[c].role,
                            answered |-> call.raw[c].answered, requested |-> TRUE]
           told(user, i) == [channel |-> 0, user |-> user, role |-> call.infos[i].role,
                             answered |-> FALSE, requested |-> TRUE]
           ofLeg(user, r, c, i) ==
               /\ c \in legs(user) /\ r = leg(user, c)
               /\ Place(i, infos(user)) = Place(c, legs(user))
           ofInfo(user, r, i) == legs(user) = {} /\ r = told(user, i)
<1>1. \A i \in DOMAIN call.infos : call.infos[i] \in UserInfo
  BY ElementOfSeq, LenProperties DEF RequestedOnce
<1>2. ASSUME NEW r \in FetchParticipants, r.requested
      PROVE  \E user \in Known : \E i \in infos(user) :
                 /\ call.infos[i].requested
                 /\ (\E c \in kept : ofLeg(user, r, c, i)) \/ ofInfo(user, r, i)
  <2>1. PICK user \in Known : r \in ParticipantsOf(user, kept)
    BY DEF FetchParticipants
  <2>2. CASE legs(user) # {}
    <3> DEFINE same(c) ==
                   Cardinality(legs(user)) = Cardinality(infos(user)) /\
                   \E i \in infos(user) : /\ call.infos[i].requested
                                          /\ Place(i, infos(user)) = Place(c, legs(user))
    <3>1. PICK c \in legs(user) :
              r = [channel |-> c, user |-> user, role |-> call.raw[c].role,
                   answered |-> call.raw[c].answered, requested |-> same(c)]
      BY <2>1, <2>2 DEF ParticipantsOf
    <3>2. same(c)
      BY <1>2, <3>1
    <3>3. r = leg(user, c)
      BY <3>1, <3>2
    <3>4. PICK i \in infos(user) : /\ call.infos[i].requested
                                  /\ Place(i, infos(user)) = Place(c, legs(user))
      BY <3>2
    <3>5. ofLeg(user, r, c, i)
      BY <3>3, <3>4
    <3> QED BY <3>4, <3>5
  <2>3. CASE legs(user) = {}
    <3>1. PICK i \in infos(user) :
              r = [channel |-> 0, user |-> user, role |-> call.infos[i].role,
                   answered |-> FALSE, requested |-> call.infos[i].requested]
      BY <2>1, <2>3 DEF ParticipantsOf
    <3>2. call.infos[i].requested
      BY <1>2, <3>1
    <3>3. call.infos[i].requested = TRUE
      BY <1>1, <3>2 DEF UserInfo
    <3>4. ofInfo(user, r, i)
      BY <2>3, <3>1, <3>3
    <3> QED BY <3>2, <3>4
  <2> QED BY <2>2, <2>3
<1> HIDE DEF ofLeg, ofInfo, legs, kept
<1>3. PICK u \in Known, i \in DOMAIN call.infos :
          /\ call.infos[i].requested /\ call.infos[i].user = u
          /\ (\E c \in kept : ofLeg(u, p, c, i)) \/ ofInfo(u, p, i)
  BY <1>2
<1>4. PICK v \in Known, j \in DOMAIN call.infos :
          /\ call.infos[j].requested /\ call.infos[j].user = v
          /\ (\E c \in kept : ofLeg(v, q, c, j)) \/ ofInfo(v, q, j)
  BY <1>2
<1>5. i = j /\ u = v
  <2>1. i = j
    <3>1. call.infos[i].requested /\ call.infos[j].requested
      BY <1>3, <1>4
    <3> QED BY <3>1 DEF RequestedOnce
  <2>2. call.infos[i].user = u /\ call.infos[j].user = v
    BY <1>3, <1>4
  <2> QED BY <2>1, <2>2
<1>6. CASE legs(u) = {}
  <2>1. ofInfo(u, p, i) /\ ofInfo(v, q, j)
    BY <1>3, <1>4, <1>5, <1>6 DEF ofLeg
  <2>2. p = told(u, i) /\ q = told(v, j)
    BY <2>1 DEF ofInfo
  <2> QED BY <1>5, <2>2
<1>7. CASE legs(u) # {}
  <2>1. PICK c : ofLeg(u, p, c, i)
    BY <1>3, <1>7 DEF ofInfo
  <2>2. PICK d : ofLeg(v, q, d, j)
    BY <1>4, <1>5, <1>7 DEF ofInfo
  <2>3. Place(c, legs(u)) = Place(d, legs(u)) /\ c \in legs(u) /\ d \in legs(u)
    BY <1>5, <2>1, <2>2 DEF ofLeg
  <2>4. legs(u) \subseteq Channel
    BY KeptChannelsAreOfCall, LegsAreTyped DEF legs, kept
  <2>5. legs(u) \subseteq Nat /\ IsFiniteSet(legs(u))
    BY <2>4, ChannelsAreNumbers, FS_Subset
  <2>6. c = d
    BY <2>3, <2>5, PlacesDiffer
  <2>7. p = leg(u, c) /\ q = leg(v, d)
    BY <2>1, <2>2 DEF ofLeg
  <2> QED BY <1>5, <2>6, <2>7
<1> QED BY <1>6, <1>7

(* Who answered is listed, with a line that answered as the destination.   *)
LEMMA AnsweredUserCompleted ==
    ASSUME LegsShape(call), NEW c \in DOMAIN call.raw, call.raw[c].answered, KnownUser(c)
    PROVE  /\ \E p \in FetchParticipants : p.user = User[Line[c]] /\ p.answered
           /\ call.raw[c].role = "destination" /\ Extension[Line[c]] # Empty =>
                  \E d \in DOMAIN call.raw :
                      call.raw[d].answered /\ FillExtensions.destination = Main(d)
<1> DEFINE kept == RemoveDuplicateParticipants
           k == KeptChannel(Line[c])
<1>1. /\ k \in DOMAIN call.raw /\ k \in kept /\ Line[k] = Line[c]
      /\ call.raw[k].answered /\ c <= k
  BY KeptChannelOfLine
<1> HIDE DEF k
<1>2. \E p \in FetchParticipants : p.user = User[Line[c]] /\ p.answered
  <2> DEFINE user == User[Line[c]]
             legs == {d \in kept : User[Line[d]] = user}
  <2>1. k \in legs
    BY <1>1
  <2>2. PICK p \in ParticipantsOf(user, kept) : /\ p.user = user
                                               /\ p.answered = call.raw[k].answered
    <3> DEFINE infos == {i \in DOMAIN call.infos : call.infos[i].user = user}
               told(d) == Cardinality(legs) = Cardinality(infos) /\
                   \E i \in infos : call.infos[i].requested /\ Place(i, infos) = Place(d, legs)
               p == [channel |-> k, user |-> user, role |-> call.raw[k].role,
                     answered |-> call.raw[k].answered, requested |-> told(k)]
    <3>1. ParticipantsOf(user, kept) =
              {[channel |-> d, user |-> user, role |-> call.raw[d].role,
                answered |-> call.raw[d].answered, requested |-> told(d)] : d \in legs}
      BY <2>1 DEF ParticipantsOf
    <3>2. p \in ParticipantsOf(user, kept)
      BY <2>1, <3>1
    <3>3. p.user = user /\ p.answered = call.raw[k].answered
      OBVIOUS
    <3> HIDE DEF p
    <3> QED BY <3>2, <3>3
  <2>3. p \in FetchParticipants
    BY <2>2 DEF FetchParticipants, KnownUser
  <2> QED BY <1>1, <2>2, <2>3
<1>3. ASSUME call.raw[c].role = "destination", Extension[Line[c]] # Empty
      PROVE  \E d \in DOMAIN call.raw :
                 call.raw[d].answered /\ FillExtensions.destination = Main(d)
  <2> DEFINE called == {d \in kept : call.raw[d].role = "destination" /\ KnownUser(d)
                                    /\ Extension[Line[d]] # Empty}
             answered == {d \in called : call.raw[d].answered}
  <2>1. call.raw[k].role = "destination"
    <3>1. c # 1 /\ c \in Channel /\ k \in Channel
      BY <1>1, <1>3, LegsAreTyped
    <3>2. k # 1
      BY <1>1, <3>1, ChannelsAreNumbers
    <3> QED BY <1>1, <3>2, LegsAreTyped
  <2>2. k \in answered
    BY <1>1, <1>3, <2>1 DEF KnownUser
  <2>3. answered \subseteq DOMAIN call.raw /\ \A d \in answered : call.raw[d].answered
    BY KeptChannelsAreOfCall
  <2>4. FillExtensions.destination = Main(Max(answered))
    BY <2>2 DEF FillExtensions
  <2> HIDE DEF answered
  <2>5. Max(answered) \in answered
    BY <2>2, <2>3, LastChannelOf
  <2> QED BY <2>3, <2>4, <2>5
<1> QED BY <1>2, <1>3

LEMMA TenantCompleted ==
    ASSUME RawCallShape(call), NEW participant \in Tenant, NEW context \in Tenant
    PROVE  EnsureTenantUuidIsSet(participant, context) \in Tenant
BY DEF RawCallShape, EnsureTenantUuidIsSet

(* One entry for each file, from its first start to its last end.          *)
LEMMA RecordingsCompleted ==
    ASSUME FilesOrdered(call),
           \A i \in DOMAIN call.recordings : call.end = NULL \/ Ended(call.recordings[i])
    PROVE  LET list == CompleteRecordings
               ended == {call.recordings[i].uuid : i \in RemoveIncompleteRecordings}
           IN /\ \A i, j \in DOMAIN list : list[i].uuid = list[j].uuid => i = j
              /\ \A i \in DOMAIN list : list[i].start <= list[i].end \/ call.end = NULL
              /\ {list[i].uuid : i \in DOMAIN list} = IF CallWasAnswered THEN ended ELSE {}
<1> DEFINE s == call.recordings
           K == RemoveRecordingsForUnansweredCalls(RemoveIncompleteRecordings)
           same(i) == {j \in K : s[j].uuid = s[i].uuid}
           first == {i \in K : \A j \in same(i) : i <= j}
           list == CompleteRecordings
<1>1. /\ DOMAIN list = first
      /\ \A i \in first : list[i] = [s[i] EXCEPT !.end = s[Max(same(i))].end]
  BY DEF CompleteRecordings, HandleRecordingPauses
<1>2. K \subseteq DOMAIN s /\ \A i \in K : s[i].end # NULL
  BY DEF RemoveRecordingsForUnansweredCalls, RemoveIncompleteRecordings
<1>3. K = IF CallWasAnswered THEN RemoveIncompleteRecordings ELSE {}
  BY DEF RemoveRecordingsForUnansweredCalls
<1>4. DOMAIN s = 1..Len(s) /\ Len(s) \in Nat
  BY LenProperties DEF FilesOrdered
<1>5. \A i \in DOMAIN s : /\ s[i] \in Entry /\ s[i].start \in Nat
                          /\ s[i].end = NULL \/ s[i].end \in Nat
  BY EntriesAreTyped
<1>6. \A i, j \in DOMAIN s : s[i].uuid = s[j].uuid /\ i <= j => s[i].start <= s[j].start
  BY DEF FilesOrdered
<1>7. \A i \in DOMAIN s : call.end = NULL \/ Ended(s[i])
  OBVIOUS
<1> HIDE DEF list, K, s
<1>8. K \subseteq Nat /\ \A i \in K : i <= Len(s)
  BY <1>2, <1>4
<1>9. \A i \in K : i \in same(i) /\ same(i) \subseteq K
  OBVIOUS
<1>10. \A i \in K : Max(same(i)) \in same(i) /\ \A m \in same(i) : m <= Max(same(i))
  <2> SUFFICES ASSUME NEW i \in K
               PROVE  Max(same(i)) \in same(i) /\ \A m \in same(i) : m <= Max(same(i))
    OBVIOUS
  <2> DEFINE S == same(i)
  <2>1. S \subseteq Nat /\ S # {} /\ \A n \in S : n <= Len(s)
    BY <1>8
  <2> HIDE DEF S
  <2>2. Max(S) \in S /\ \A m \in S : m <= Max(S)
    BY <1>4, <2>1, LastOf
  <2> QED BY <2>2 DEF S
<1>11. \A i \in first : list[i].uuid = s[i].uuid /\ list[i].start = s[i].start
                        /\ list[i].end = s[Max(same(i))].end
  <2> SUFFICES ASSUME NEW i \in first
               PROVE  list[i].uuid = s[i].uuid /\ list[i].start = s[i].start
                        /\ list[i].end = s[Max(same(i))].end
    OBVIOUS
  <2> DEFINE e == s[Max(same(i))].end
  <2>1. list[i] = [s[i] EXCEPT !.end = e]
    BY <1>1
  <2>2. s[i] \in Entry
    BY <1>2, <1>5
  <2> HIDE DEF e
  <2>3. list[i].uuid = s[i].uuid /\ list[i].start = s[i].start /\ list[i].end = e
    BY <2>1, <2>2 DEF Entry
  <2> QED BY <2>3 DEF e
<1>12. ASSUME NEW i \in DOMAIN list, NEW j \in DOMAIN list, list[i].uuid = list[j].uuid
       PROVE  i = j
  <2>1. i \in K /\ j \in K /\ s[i].uuid = s[j].uuid
    BY <1>1, <1>11, <1>12
  <2>2. i \in first /\ j \in first
    BY <1>1
  <2>3. j \in same(i) /\ i \in same(j)
    BY <2>1
  <2>4. i <= j /\ j <= i
    BY <2>2, <2>3
  <2>5. i \in Nat /\ j \in Nat
    BY <1>8, <2>1
  <2> QED BY <2>4, <2>5
<1>13. ASSUME NEW i \in DOMAIN list
       PROVE  list[i].start <= list[i].end \/ call.end = NULL
  <2> DEFINE m == Max(same(i))
  <2>1. i \in K /\ m \in same(i) /\ i <= m
    BY <1>1, <1>9, <1>10
  <2>2. m \in K /\ s[m].uuid = s[i].uuid /\ s[m].end # NULL
    BY <1>2, <2>1
  <2>3. list[i].start = s[i].start /\ list[i].end = s[m].end
    BY <1>1, <1>11
  <2> HIDE DEF m
  <2>4. s[i].start <= s[m].start
    BY <1>2, <1>6, <2>1, <2>2
  <2>5. s[m].start <= s[m].end \/ call.end = NULL
    BY <1>2, <1>7, <2>2 DEF Ended
  <2>6. s[i].start \in Nat /\ s[m].start \in Nat /\ s[m].end \in Nat
    BY <1>2, <1>5, <2>1, <2>2
  <2> QED BY <2>3, <2>4, <2>5, <2>6
<1>14. {list[i].uuid : i \in DOMAIN list} = {s[i].uuid : i \in K}
  <2>1. \A i \in DOMAIN list : i \in K /\ list[i].uuid = s[i].uuid
    BY <1>1, <1>11
  <2>2. ASSUME NEW i \in K PROVE \E j \in DOMAIN list : list[j].uuid = s[i].uuid
    <3> DEFINE S == same(i)
    <3>1. S \subseteq Nat /\ S # {}
      BY <1>8
    <3>2. PICK j \in S : \A n \in S : j <= n
      <4> HIDE DEF S
      <4> QED BY <3>1, NatHasMinimum
    <3>3. j \in K /\ s[j].uuid = s[i].uuid
      BY <3>2
    <3>4. same(j) = S
      BY <3>3
    <3>5. j \in first
      BY <3>2, <3>3, <3>4
    <3> QED BY <1>1, <1>11, <3>3, <3>5
  <2> QED BY <2>1, <2>2
<1>15. {list[i].uuid : i \in DOMAIN list} =
           IF CallWasAnswered THEN {s[i].uuid : i \in RemoveIncompleteRecordings} ELSE {}
  BY <1>3, <1>14
<1> QED BY <1>12, <1>13, <1>15 DEF list, s

-----------------------------------------------------------------------------
(***************************************************************************)
(* The steps.                                                              *)
(***************************************************************************)
LEMMA InitKeeps == InterpretationInit => InterpretationInv
<1> SUFFICES ASSUME InterpretationInit PROVE InterpretationInv
  OBVIOUS
<1>1. /\ scenario \in Scenario /\ phase = "start" /\ now \in Nat
      /\ call = NewCall /\ log.participants = {}
  BY DEF InterpretationInit, NoLog
<1> QED BY <1>1, NewCallShape DEF InterpretationInv

LEMMA ByCaller ==
    ASSUME InterpretationInv, phase = "caller", UNCHANGED <<scenario, phase, now, log>>,
           RawCallShape(call'), OfCaller(call', now)
    PROVE  InterpretationInv'
BY DEF InterpretationInv

LEMMA ByCallee ==
    ASSUME InterpretationInv, phase = "callee", UNCHANGED <<scenario, phase, now, log>>,
           RawCallShape(call'), OfCallee(call', now)
    PROVE  InterpretationInv'
BY DEF InterpretationInv

LEMMA DispatchKeeps == ASSUME InterpretationInv, Dispatch PROVE InterpretationInv'
<1>1. PICK num, exten : call' = ChanStart(num, exten)
  BY DEF Dispatch
<1>2. now \in Nat /\ phase' = "caller" /\ UNCHANGED <<scenario, now, log>>
  BY DEF Dispatch, InterpretationInv
<1>3. RawCallShape(call') /\ OfCaller(call', now)
  BY <1>1, <1>2, ChanStartKeeps
<1> QED BY <1>2, <1>3 DEF InterpretationInv

LEMMA TickKeeps == ASSUME InterpretationInv, Tick PROVE InterpretationInv'
<1>1. /\ phase \in {"caller", "callee"} /\ UNCHANGED <<scenario, phase, call, log>>
      /\ now \in Nat /\ now' = now + 1
  BY DEF Tick, InterpretationInv
<1>2. RawCallShape(call)
  BY DEF InterpretationInv
<1>3. \A i \in DOMAIN call.recordings : call.recordings[i].start \in Nat
  BY <1>2, EntriesAreTyped DEF RawCallShape
<1>4. CASE phase = "caller"
  <2>1. OfCaller(call, now)
    BY <1>4 DEF InterpretationInv
  <2>2. OfCaller(call, now + 1)
    BY <1>1, <1>3, <2>1 DEF OfCaller
  <2> QED BY <1>1, <1>2, <1>4, <2>2 DEF InterpretationInv
<1>5. CASE phase = "callee"
  <2>1. OfCallee(call, now)
    BY <1>5 DEF InterpretationInv
  <2>2. OfCallee(call, now + 1)
    BY <1>1, <1>3, <2>1 DEF OfCallee
  <2> QED BY <1>1, <1>2, <1>5, <2>2 DEF InterpretationInv
<1> QED BY <1>1, <1>4, <1>5

LEMMA CallerEndsKeeps ==
    ASSUME InterpretationInv, NEW written \in BOOLEAN, CallerEnds(written)
    PROVE  InterpretationInv'
<1>1. /\ phase = "caller" /\ phase' = "callee" /\ now' = 0 /\ UNCHANGED <<scenario, log>>
      /\ call' = ChanEnd \/ call' = call
  BY DEF CallerEnds
<1>2. RawCallShape(call) /\ OfCaller(call, now) /\ now \in Nat
  BY <1>1 DEF InterpretationInv
<1>3. RawCallShape(call') /\ OfCallee(call', 0)
  BY <1>1, <1>2, ChanEndKeeps, CallerEndUnwritten
<1> QED BY <1>1, <1>3 DEF InterpretationInv

LEMMA FailKeeps == ASSUME InterpretationInv, Fail PROVE InterpretationInv'
BY DEF Fail, InterpretationInv

LEMMA CalleeStartsKeeps ==
    ASSUME InterpretationInv, NEW num, NEW kind, CalleeStarts(num, kind)
    PROVE  InterpretationInv'
<1>1. phase = "callee" /\ UNCHANGED <<scenario, phase, now, log>>
  BY DEF CalleeStarts
<1>2. PICK c \in Channel : /\ c = Cardinality(DOMAIN call.raw) + 1
                          /\ call' = CalleeChanStart(c, num, kind)
  BY DEF CalleeStarts
<1>3. RawCallShape(call) /\ OfCallee(call, now)
  BY <1>1 DEF InterpretationInv
<1>4. c # 1
  <2>1. DOMAIN call.raw \subseteq Channel /\ 1 \in DOMAIN call.raw
    BY <1>3, LegsAreTyped DEF RawCallShape, OfCallee
  <2>2. IsFiniteSet(DOMAIN call.raw)
    BY <2>1, ChannelsAreNumbers, FS_Subset
  <2>3. Cardinality(DOMAIN call.raw) \in Nat /\ Cardinality(DOMAIN call.raw) # 0
    BY <2>1, <2>2, FS_CardinalityType, FS_EmptySet
  <2> QED BY <1>2, <2>3
<1>5. RawCallShape(call') /\ OfCallee(call', now)
  BY <1>2, <1>3, <1>4, CalleeStartKeeps
<1> QED BY <1>1, <1>5, ByCallee

LEMMA CalleeEndsKeeps == ASSUME InterpretationInv, CalleeEnds PROVE InterpretationInv'
<1>1. phase = "callee" /\ UNCHANGED <<scenario, phase, now, log>> /\ call' = CalleeChanEnd
  BY DEF CalleeEnds
<1>2. RawCallShape(call) /\ OfCallee(call, now) /\ now \in Nat
  BY <1>1 DEF InterpretationInv
<1>3. RawCallShape(call') /\ OfCallee(call', now)
  BY <1>1, <1>2, CalleeEndKeeps
<1> QED BY <1>1, <1>3, ByCallee

LEMMA CallerNextKeeps == ASSUME InterpretationInv, CallerNext PROVE InterpretationInv'
<1>1. phase = "caller" /\ UNCHANGED <<scenario, phase, now, log>>
  BY DEF CallerNext, InterpretCaller, Interpret
<1>2. RawCallShape(call) /\ OfCaller(call, now) /\ now \in Nat
  BY <1>1 DEF InterpretationInv
<1>3. SUFFICES RawCallShape(call') /\ OfCaller(call', now)
  BY <1>1, ByCaller
<1>4. CASE \E num \in scenario.extens, voicemail \in BOOLEAN :
               InterpretCaller("APP_START", AppStart(num, voicemail))
  BY <1>2, <1>4, AppStartKeeps DEF InterpretCaller, Interpret
<1>5. CASE \E num \in scenario.extens : InterpretCaller("ANSWER", Answer(num))
  BY <1>2, <1>5, AnswerKeeps DEF InterpretCaller, Interpret
<1>6. CASE \E num \in scenario.extens, holding \in BOOLEAN :
               InterpretCaller("BRIDGE_ENTER", BridgeEnter(num, holding))
  BY <1>2, <1>6, BridgeEnterKeeps DEF InterpretCaller, Interpret
<1>7. CASE \E num \in scenario.extens : InterpretCaller("XIVO_FROM_S", XivoFromS(num))
  BY <1>2, <1>7, XivoFromSKeeps DEF InterpretCaller, Interpret
<1>8. CASE \E num \in scenario.extens : InterpretCaller("XIVO_OUTCALL", XivoOutcall(num))
  BY <1>2, <1>8, XivoOutcallKeeps DEF InterpretCaller, Interpret
<1>9. CASE \E num \in scenario.extens \cup {Empty}, context \in BOOLEAN :
               InterpretCaller("WAZO_CALL_LOG_REQUESTED_INTERNAL",
                               RequestedInternal(num, context))
  BY <1>2, <1>9, RequestedInternalKeeps DEF InterpretCaller, Interpret
<1>10. CASE \E t \in Tenant : InterpretCaller("XIVO_INCALL", XivoIncall(t))
  BY <1>2, <1>10, XivoIncallKeeps DEF InterpretCaller, Interpret
<1>11. CASE \E t \in Tenant, num \in scenario.extens, source, user \in Known \cup {Empty} :
               InterpretCaller("WAZO_USER_MISSED_CALL", WazoUserMissedCall(source, user, num, t))
  BY <1>2, <1>11, MissedCallKeeps DEF InterpretCaller, Interpret
<1>12. CASE \E t \in Tenant, num \in scenario.extens, user \in Known :
               InterpretCaller("WAZO_USER_BLOCKED_CALL", WazoUserBlockedCall(user, num, t))
  BY <1>2, <1>12, BlockedCallKeeps DEF InterpretCaller, Interpret
<1>13. CASE \E file \in File : /\ MayRecord(file, "caller")
                           /\ InterpretCaller("MIXMONITOR_START", MixmonitorStart(file, "caller"))
  BY <1>2, <1>13, CallerStartsRecording DEF InterpretCaller, Interpret
<1>14. CASE \E i \in DOMAIN call.recordings :
               /\ ~call.recordings[i].final
               /\ InterpretCaller("MIXMONITOR_STOP", MixmonitorStop(i))
  BY <1>2, <1>14, CallerStopsRecording DEF InterpretCaller, Interpret
<1>15. CASE \E exten \in scenario.extens \cup {Empty} :
               InterpretCaller("XIVO_USER_FWD", XivoUserFwd(exten))
  BY <1>2, <1>15, XivoUserFwdKeeps DEF InterpretCaller, Interpret
<1>16. CASE InterpretCaller("WAZO_CONFERENCE", WazoConference)
  BY <1>2, <1>16, WazoConferenceKeeps DEF InterpretCaller, Interpret
<1>17. CASE InterpretCaller("WAZO_MEETING_NAME", WazoMeetingName)
  BY <1>2, <1>17, WazoMeetingNameKeeps DEF InterpretCaller, Interpret
<1>18. CASE \E type \in Announced, user \in Known :
               InterpretCaller("WAZO_CALL_LOG_DESTINATION", WazoCallLogDestination(type, user))
  BY <1>2, <1>18, CallLogDestinationKeeps DEF InterpretCaller, Interpret
<1> QED
  BY <1>4, <1>5, <1>6, <1>7, <1>8, <1>9, <1>10, <1>11, <1>12, <1>13, <1>14, <1>15, <1>16, <1>17,
     <1>18
  DEF CallerNext

LEMMA CalleeNextKeeps == ASSUME InterpretationInv, CalleeNext PROVE InterpretationInv'
<1>1. phase = "callee" /\ UNCHANGED <<scenario, phase, now, log>>
  BY DEF CalleeNext, InterpretCallee, Interpret
<1>2. RawCallShape(call) /\ OfCallee(call, now) /\ now \in Nat
  BY <1>1 DEF InterpretationInv
<1>3. SUFFICES RawCallShape(call') /\ OfCallee(call', now)
  BY <1>1, ByCallee
<1>4. CASE InterpretCallee("APP_START", VoicemailAppStart)
  BY <1>2, <1>4, CalleeVoicemailKeeps DEF InterpretCallee, Interpret
<1>5. CASE \E num \in scenario.extens \cup {Empty}, context \in BOOLEAN :
              InterpretCallee("WAZO_CALL_LOG_REQUESTED_INTERNAL", RequestedInternal(num, context))
  BY <1>2, <1>5, CalleeRequestedKeeps DEF InterpretCallee, Interpret
<1>6. CASE \E c \in DOMAIN call.raw \ {1}, num \in scenario.extens,
              peers \in SUBSET (DOMAIN call.raw \cup {Stranger}) :
              /\ c \notin peers
              /\ InterpretCallee("BRIDGE_ENTER", CalleeBridgeEnter(c, num, peers))
  BY <1>2, <1>6, CalleeBridgeKeeps DEF InterpretCallee, Interpret
<1>7. CASE \E file \in File \cup {"none"} :
              /\ DOMAIN call.raw # {1}
              /\ file = "none" \/ MayRecord(file, "callee")
              /\ InterpretCallee("MIXMONITOR_START", MixmonitorStart(file, "callee"))
  BY <1>2, <1>7, CalleeStartsRecording DEF InterpretCallee, Interpret
<1>8. CASE \E i \in DOMAIN call.recordings :
              /\ call.recordings[i].side = "callee" /\ ~call.recordings[i].final
              /\ InterpretCallee("MIXMONITOR_STOP", MixmonitorStop(i))
  BY <1>2, <1>8, CalleeStopsRecording DEF InterpretCallee, Interpret
<1> QED BY <1>4, <1>5, <1>6, <1>7, <1>8 DEF CalleeNext

LEMMA OriginateKeeps == ASSUME InterpretationInv, Originate PROVE InterpretationInv'
<1>1. scenario.maxTime \in Nat
  BY InterpretationAssumption DEF InterpretationInv
<1>2. PICK num \in scenario.extens \ {Empty}, destination \in SUBSET (Channel \ {1}),
           answer \in 0..scenario.maxTime, end \in 0..scenario.maxTime,
           user \in Known \cup {Empty}, t \in Tenant,
           voicemail \in BOOLEAN, direction \in {"internal", "inbound", "outbound"},
           n \in 0..MaxRecordings :
       \E times \in [1..n -> (0..end) \X ({NULL} \cup 0..scenario.maxTime)] :
           /\ Cardinality(destination) <= 1
           /\ \A i \in 1..n :
                  /\ times[i][2] # NULL => times[i][1] <= times[i][2]
                  /\ \A j \in 1..i : times[j][1] <= times[i][1]
           /\ call' = Originated(num, num, destination, answer, end,
                  [i \in 1..n |-> [uuid |-> "none", start |-> times[i][1],
                                   end |-> times[i][2], final |-> times[i][2] # NULL,
                                   side |-> "originated"]],
                  voicemail, direction, user, IF user = Empty THEN Empty ELSE t)
  BY DEF Originate
<1>3. PICK times \in [1..n -> (0..end) \X ({NULL} \cup 0..scenario.maxTime)] :
           /\ \A i \in 1..n :
                  /\ times[i][2] # NULL => times[i][1] <= times[i][2]
                  /\ \A j \in 1..i : times[j][1] <= times[i][1]
           /\ call' = Originated(num, num, destination, answer, end,
                  [i \in 1..n |-> [uuid |-> "none", start |-> times[i][1],
                                   end |-> times[i][2], final |-> times[i][2] # NULL,
                                   side |-> "originated"]],
                  voicemail, direction, user, IF user = Empty THEN Empty ELSE t)
  BY <1>2
<1> DEFINE s == [i \in 1..n |-> [uuid |-> "none", start |-> times[i][1],
                                 end |-> times[i][2], final |-> times[i][2] # NULL,
                                 side |-> "originated"]]
           tenant == IF user = Empty THEN Empty ELSE t
<1>4. end \in Nat /\ n \in Nat
  BY <1>1, InterpretationAssumption
<1>5. \A i \in 1..n : times[i][1] \in 0..end /\ times[i][2] \in {NULL} \cup 0..scenario.maxTime
  OBVIOUS
<1>6. \A i \in 1..n : s[i] \in Entry /\ s[i].start = times[i][1] /\ s[i].end = times[i][2]
                      /\ s[i].side = "originated"
  BY <1>1, <1>4, <1>5 DEF Entry, Time
<1>7. s = [i \in 1..n |-> s[i]] /\ DOMAIN s = 1..n
  OBVIOUS
<1>8. call' = Originated(num, num, destination, answer, end, s, voicemail, direction, user, tenant)
  BY <1>3
<1>9. tenant \in Tenant \cup {Empty} /\ destination \subseteq Channel \ {1}
  OBVIOUS
<1> HIDE DEF s, tenant
<1>10. s \in Seq(Entry)
  <2>1. s \in [1..n -> Entry]
    BY <1>6, <1>7
  <2> QED BY <1>4, <2>1, SeqDef
<1>11. \A i \in DOMAIN s : s[i].start <= end /\ Ended(s[i])
  BY <1>3, <1>4, <1>5, <1>6, <1>7 DEF Ended
<1>12. RawCallShape(call') /\ OfOriginated(call')
  <2>1. \A i, j \in DOMAIN s : s[i].side = s[j].side /\ (i <= j => s[i].start <= s[j].start)
    BY <1>3, <1>4, <1>6, <1>7
  <2> QED BY <1>4, <1>8, <1>9, <1>10, <1>11, <2>1, OriginatedKeeps
<1>13. phase' = "originated" /\ UNCHANGED <<scenario, now, log>>
  BY DEF Originate
<1> QED BY <1>12, <1>13 DEF InterpretationInv

LEMMA CompleteKeeps == ASSUME InterpretationInv, Complete PROVE InterpretationInv'
<1>1. /\ phase \in {"callee", "originated"} /\ phase' \in {"done", "failed"}
      /\ UNCHANGED <<scenario, now, call>>
  BY DEF Complete
<1>2. PICK participant \in Tenant, context \in Tenant :
          /\ log'.participants = FetchParticipants
          /\ log'.recordings = CompleteRecordings
          /\ log'.tenant = EnsureTenantUuidIsSet(participant, context)
          /\ log'.destination = FillExtensions.destination
  BY DEF Complete
<1>3. /\ RawCallShape(call) /\ LegsShape(call) /\ RequestedOnce(call) /\ FilesOrdered(call)
      /\ phase = "callee" => OfCallee(call, now)
      /\ phase = "originated" => OfOriginated(call)
  BY DEF InterpretationInv, RawCallShape
<1>4. log'.tenant \in Tenant
  BY <1>2, <1>3, TenantCompleted
<1>5. \A p, q \in log'.participants : p.requested /\ q.requested => p = q
  BY <1>2, <1>3, OneRequestedParticipant
<1>6. AnsweredUserIsListed'
  <2>1. ASSUME NEW c \in DOMAIN call.raw, call.raw[c].answered, KnownUser(c)
        PROVE  /\ \E p \in log'.participants : p.user = User[Line[c]] /\ p.answered
               /\ call.raw[c].role = "destination" /\ Extension[Line[c]] # Empty =>
                      \E d \in DOMAIN call.raw :
                          call.raw[d].answered /\ log'.destination = Main(d)
    BY <1>2, <1>3, <2>1, AnsweredUserCompleted
  <2> QED BY <1>1, <2>1 DEF AnsweredUserIsListed, KnownUser, Main, Line
<1>7. RecordingsSound'
  <2>1. \A i \in DOMAIN call.recordings : call.end = NULL \/ Ended(call.recordings[i])
    BY <1>1, <1>3 DEF OfCallee, OfOriginated, CallerEntry, Ended
  <2> DEFINE list == log'.recordings
             ended == {call.recordings[i].uuid : i \in RemoveIncompleteRecordings}
  <2>2. /\ \A i, j \in DOMAIN list : list[i].uuid = list[j].uuid => i = j
        /\ \A i \in DOMAIN list : list[i].start <= list[i].end \/ call.end = NULL
        /\ {list[i].uuid : i \in DOMAIN list} = IF CallWasAnswered THEN ended ELSE {}
    BY <1>2, <1>3, <2>1, RecordingsCompleted
  <2>3. CallWasAnswered' = CallWasAnswered
    BY <1>1 DEF CallWasAnswered, RemoveDuplicateParticipants, KeptChannel, ChannelsOf, Line
  <2>4. RemoveIncompleteRecordings' = RemoveIncompleteRecordings
    BY <1>1 DEF RemoveIncompleteRecordings
  <2> QED BY <1>1, <2>2, <2>3, <2>4 DEF RecordingsSound
<1>8. CallerFieldsSound'
  BY <1>1, <1>3 DEF CallerFieldsSound, OfCallee, OfOriginated, FieldsOrdered
<1>9. OfDone'
  BY <1>4, <1>6, <1>7, <1>8 DEF OfDone
<1> QED BY <1>1, <1>3, <1>5, <1>9 DEF InterpretationInv

LEMMA StutterKeeps ==
    ASSUME InterpretationInv, UNCHANGED interpretation PROVE InterpretationInv'
<1>1. UNCHANGED <<scenario, phase, now, events, call, log>>
  BY DEF interpretation
<1>2. AnsweredUserIsListed => AnsweredUserIsListed'
  BY <1>1 DEF AnsweredUserIsListed, KnownUser, Main, Line
<1>3. RecordingsSound => RecordingsSound'
  <2>1. CallWasAnswered' = CallWasAnswered
    BY <1>1 DEF CallWasAnswered, RemoveDuplicateParticipants, KeptChannel, ChannelsOf, Line
  <2>2. RemoveIncompleteRecordings' = RemoveIncompleteRecordings
    BY <1>1 DEF RemoveIncompleteRecordings
  <2> QED BY <1>1, <2>1, <2>2 DEF RecordingsSound
<1>4. CallerFieldsSound => CallerFieldsSound'
  BY <1>1 DEF CallerFieldsSound
<1>5. OfDone => OfDone'
  BY <1>1, <1>2, <1>3, <1>4 DEF OfDone
<1> QED BY <1>1, <1>5 DEF InterpretationInv

LEMMA NextKeeps ==
    ASSUME InterpretationInv, [InterpretationNext]_interpretation PROVE InterpretationInv'
<1>1. CASE Dispatch BY <1>1, DispatchKeeps
<1>2. CASE Originate BY <1>2, OriginateKeeps
<1>3. CASE Tick BY <1>3, TickKeeps
<1>4. CASE CallerNext BY <1>4, CallerNextKeeps
<1>5. CASE \E written \in BOOLEAN : CallerEnds(written) BY <1>5, CallerEndsKeeps
<1>6. CASE \E num \in scenario.extens, kind \in {"line", "wait", "mobile"} :
               CalleeStarts(num, kind)
  BY <1>6, CalleeStartsKeeps
<1>7. CASE CalleeNext BY <1>7, CalleeNextKeeps
<1>8. CASE CalleeEnds BY <1>8, CalleeEndsKeeps
<1>9. CASE Fail BY <1>9, FailKeeps
<1>10. CASE Complete BY <1>10, CompleteKeeps
<1>11. CASE UNCHANGED interpretation BY <1>11, StutterKeeps
<1> QED BY <1>1, <1>2, <1>3, <1>4, <1>5, <1>6, <1>7, <1>8, <1>9, <1>10, <1>11
        DEF InterpretationNext

LEMMA InterpretationStaysSound == InterpretationSpec => []InterpretationInv
<1>1. InterpretationInit => InterpretationInv
  BY InitKeeps
<1>2. InterpretationInv /\ [InterpretationNext]_interpretation => InterpretationInv'
  BY NextKeeps
<1> QED BY <1>1, <1>2, PTL DEF InterpretationSpec

-----------------------------------------------------------------------------
(***************************************************************************)
(* What follows for the specification.                                     *)
(***************************************************************************)

(* The phases, the channels, the details and the tenant keep their types,  *)
(* whatever handlers of cel_interpretor.py run, in whatever order.         *)
THEOREM InterpretationStaysTyped == InterpretationSpec => []InterpretationTypeOK
<1>1. InterpretationInv => InterpretationTypeOK
  <2> SUFFICES ASSUME InterpretationInv PROVE InterpretationTypeOK
    OBVIOUS
  <2>1. LegsShape(call) /\ call.details \in Announced \cup {"none"}
    BY DEF InterpretationInv, RawCallShape
  <2>2. DOMAIN call.callerId \subseteq DOMAIN call.raw /\ DOMAIN call.raw \subseteq Channel
    BY <2>1, LegsAreTyped DEF LegsShape
  <2> QED BY <2>1, <2>2 DEF InterpretationInv, InterpretationTypeOK, OfDone
<1> QED BY <1>1, InterpretationStaysSound, PTL

(* A user that wazo-confd knows and whose channel entered a bridge is      *)
(* listed as having answered, and the destination is of a line that did:   *)
(* _remove_duplicate_participants and _fill_extensions_from_participants   *)
(* lose no answer, for any lines, channels and order of CELs.              *)
THEOREM AnsweredUsersAreListed == InterpretationSpec => []AnsweredUserIsListed
<1>1. InterpretationInv => AnsweredUserIsListed
  BY DEF InterpretationInv, OfDone, AnsweredUserIsListed
<1> QED BY <1>1, InterpretationStaysSound, PTL

(* No order of announcements, missed calls and channels makes two          *)
(* participants the requested one, so that requested_user_uuid reads one.  *)
THEOREM OneParticipantIsRequested == InterpretationSpec => []AtMostOneRequested
<1>1. InterpretationInv => AtMostOneRequested
  <2> DEFINE requested == {p \in log.participants : p.requested}
  <2> SUFFICES ASSUME InterpretationInv PROVE Cardinality(requested) <= 1
    BY DEF AtMostOneRequested
  <2>1. \A p, q \in requested : p = q
    BY DEF InterpretationInv
  <2> HIDE DEF requested
  <2>2. CASE requested = {}
    BY <2>2, FS_EmptySet
  <2>3. CASE requested # {}
    <3>1. PICK p : p \in requested
      BY <2>3
    <3>2. requested = {p}
      BY <2>1, <3>1
    <3>3. Cardinality({p}) = 1
      BY FS_Singleton
    <3>4. Cardinality(requested) = 1
      BY <3>2, <3>3
    <3> QED BY <3>4
  <2> QED BY <2>2, <2>3
<1> QED BY <1>1, InterpretationStaysSound, PTL

(* Each file is listed once, from its first start to its last end, and if  *)
(* and only if the call was answered, in whatever order the recordings of  *)
(* the caller and of the callees start, pause, resume and are cut off, and *)
(* however many recordings an originated call has: they count as one.      *)
THEOREM RecordingsStaySound == InterpretationSpec => []RecordingsSound
<1>1. InterpretationInv => RecordingsSound
  BY DEF InterpretationInv, OfDone, RecordingsSound
<1> QED BY <1>1, InterpretationStaysSound, PTL

(* The answer lies within the call, and no order of the caller's CELs      *)
(* leaves a hidden extension as the source or as what was requested, be it *)
(* a call to a meeting that has no other channel.                          *)
THEOREM CallerFieldsStaySound == InterpretationSpec => []CallerFieldsSound
<1>1. InterpretationInv => CallerFieldsSound
  BY DEF InterpretationInv, OfDone, CallerFieldsSound
<1> QED BY <1>1, InterpretationStaysSound, PTL

LEMMA BridgeKeepsAnnounced ==
    ASSUME IsRawCall(call), call.authoritative, ~call.forwarded, NEW c, NEW num, NEW peers
    PROVE  LET h == CalleeBridgeEnter(c, num, peers)
           IN h.destination = call.destination /\ h.details = call.details /\ h.name = call.name
BY DEF IsRawCall, RawField, CalleeBridgeEnter

LEMMA StartKeepsAnnounced ==
    ASSUME IsRawCall(call), call.authoritative, NEW c, NEW num, NEW kind
    PROVE  LET h == CalleeChanStart(c, num, kind)
           IN /\ h.destination = call.destination /\ h.details = call.details
              /\ call.direction # "outbound" => h.name = call.name
BY DEF IsRawCall, RawField, CalleeChanStart

LEMMA OthersKeepAnnounced ==
    ASSUME IsRawCall(call), NEW num, NEW context, NEW file, NEW i,
           NEW h \in {VoicemailAppStart, RequestedInternal(num, context), CalleeChanEnd,
                      MixmonitorStart(file, "callee"), MixmonitorStop(i)}
    PROVE  h.destination = call.destination /\ h.details = call.details /\ h.name = call.name
BY DEF IsRawCall, RawField, VoicemailAppStart, RequestedInternal, CalleeChanEnd, MixmonitorStart,
       MixmonitorStop

(* After WAZO_CALL_LOG_DESTINATION no CEL of a callee changes the          *)
(* destination it announced, unless the call was forwarded: each handler   *)
(* of the callees honours authoritative_destination.                       *)
THEOREM AnnouncedDestinationStays == InterpretationSpec => AnnouncedDestinationKept
<1> DEFINE Honoured == /\ call'.destination = call.destination
                       /\ call'.details = call.details
                       /\ call.direction # "outbound" => call'.name = call.name
           A == phase = "callee" /\ call.authoritative /\ ~call.forwarded => Honoured
<1>1. InterpretationInv /\ [InterpretationNext]_interpretation => [A]_interpretation
  <2> SUFFICES ASSUME InterpretationInv, InterpretationNext,
                      phase = "callee", call.authoritative, ~call.forwarded
               PROVE  Honoured
    BY Zenon
  <2>1. IsRawCall(call)
    BY DEF InterpretationInv, RawCallShape
  <2>2. CASE call' = call
    BY <2>2
  <2>3. CASE \E num, kind : CalleeStarts(num, kind)
    <3>1. PICK c, num, kind : call' = CalleeChanStart(c, num, kind)
      BY <2>3 DEF CalleeStarts
    <3> QED BY <2>1, <3>1, StartKeepsAnnounced
  <2>4. CASE CalleeNext
    <3>1. CASE \E c, num, peers : call' = CalleeBridgeEnter(c, num, peers)
      BY <2>1, <3>1, BridgeKeepsAnnounced
    <3>2. CASE \E num, context, file, i :
                   call' \in {VoicemailAppStart, RequestedInternal(num, context),
                      CalleeChanEnd, MixmonitorStart(file, "callee"), MixmonitorStop(i)}
      BY <2>1, <3>2, OthersKeepAnnounced
    <3> QED BY <2>4, <3>1, <3>2 DEF CalleeNext, InterpretCallee, Interpret
  <2>5. CASE CalleeEnds
    BY <2>1, <2>5, OthersKeepAnnounced DEF CalleeEnds
  <2>6. CASE Tick \/ Fail \/ Complete
    BY <2>2, <2>6 DEF Tick, Fail, Complete
  <2>7. ~Dispatch /\ ~Originate /\ ~CallerNext /\ ~ \E written : CallerEnds(written)
    BY DEF Dispatch, Originate, CallerNext, InterpretCaller, Interpret, CallerEnds
  <2> QED BY <2>3, <2>4, <2>5, <2>6, <2>7 DEF InterpretationNext
<1> QED BY <1>1, InterpretationStaysSound, PTL DEF AnnouncedDestinationKept, InterpretationSpec
=============================================================================
