----------------------- MODULE CallLogGenerationProofs -----------------------
(***************************************************************************)
(* The safety of call log generation, for any set of CELs, any number of   *)
(* faults and deletions, and any interleaving of the daemon, the command,  *)
(* retention and the removal of tenants.                                   *)
(***************************************************************************)
EXTENDS CallLogGeneration, NatLemmas, FiniteSetTheorems, FunctionTheorems

-----------------------------------------------------------------------------
(***************************************************************************)
(* Facts about the operators.                                              *)
(***************************************************************************)
LEMMA SmallestOfNaturals ==
    ASSUME NEW S, S \subseteq Nat, S # {}
    PROVE  Smallest(S) \in S
BY NatHasMinimum DEF Smallest

LEMMA LargestOfBounded ==
    ASSUME NEW S, S \subseteq Nat, S # {}, NEW b \in Nat, \A n \in S : n <= b
    PROVE  Largest(S) \in S
BY BoundedNatHasMaximum DEF Largest

(* There are finitely many linkedids, as many as the ids a batch reserves. *)
LEMMA BatchSizeIsNatural == BatchSize \in Nat
<1> DEFINE f == [c \in Cel |-> c.linkedid]
<1>1. f \in Surjection(Cel, LinkedIds(Cel))
  BY DEF Surjection, LinkedIds
<1>2. IsFiniteSet(LinkedIds(Cel))
  BY <1>1, FS_Surjection, CelAssumption
<1> QED BY <1>2, FS_CardinalityType DEF BatchSize

(* A CEL is a record of natural numbers and of one of the event types.     *)
LEMMA CelFields ==
    \A c \in Cel : /\ c.linkedid \in Nat /\ c.uniqueid \in Nat /\ c.eventtime \in Nat
BY CelAssumption

LEMMA TenantOfCels ==
    ASSUME NEW r, r.cels \subseteq Cel, r.cels # {}
    PROVE  TenantUuid(r) \in Tenant
<1>1. /\ LinkedIds(r.cels) \subseteq LinkedIds(Cel)
      /\ LinkedIds(r.cels) \subseteq Nat
      /\ LinkedIds(r.cels) # {}
  BY CelFields DEF LinkedIds
<1>2. Smallest(LinkedIds(r.cels)) \in LinkedIds(Cel)
  BY <1>1, SmallestOfNaturals
<1> QED BY <1>2, CelAssumption DEF TenantUuid

(* What is in a batch: rows of T that are not empty, each batch index      *)
(* once.                                                                   *)
LEMMA BatchElements ==
    ASSUME NEW T, NEW r \in Batch(T)
    PROVE  /\ r = [id |-> r.id, cels |-> r.cels]
           /\ r.id \in 1 .. BatchSize
           /\ r.cels \subseteq T
           /\ r.cels # {}
           /\ r.cels = OfLinkedIds(T, LinkedIds(r.cels))
           /\ Terminated(r.cels)
<1> DEFINE groups == GroupCelsBySharedChannels(T)
           e(i)   == [id |-> i, cels |-> OfLinkedIds(T, groups[i].linkedids)]
<1>1. PICK i \in DOMAIN groups \cap (1 .. BatchSize) : r = e(i)
  BY DEF Batch
<1>2. r.id = i /\ r.cels = OfLinkedIds(T, groups[i].linkedids) /\ Recordable(r.cels)
  BY <1>1 DEF Batch
<1> HIDE DEF groups
<1>3. r.cels \subseteq T /\ r.cels = OfLinkedIds(T, LinkedIds(r.cels))
  BY <1>2 DEF OfLinkedIds, LinkedIds
<1> QED BY <1>1, <1>2, <1>3 DEF Recordable

LEMMA BatchNumberedOnce ==
    ASSUME NEW T, NEW r \in Batch(T), NEW s \in Batch(T), r.id = s.id
    PROVE  r = s
BY DEF Batch

(* The id a CEL is given is its own, or that of a call log that lists it.  *)
LEMMA AssociatedIds ==
    ASSUME NEW batch \in SUBSET CallLog, NEW c,
           NEW b \in Nat, \A r \in batch : r.id <= b
    PROVE  \/ IdGivenTo(c, batch) = callLogIdOf[c]
           \/ \E r \in batch : c \in r.cels /\ IdGivenTo(c, batch) = r.id
<1> DEFINE listing == Ids({r \in batch : c \in r.cels})
<1>1. CASE listing = {}
  BY <1>1 DEF IdGivenTo
<1>2. CASE listing # {}
  <2>1. listing \subseteq Nat /\ \A n \in listing : n <= b
    BY DEF Ids, CallLog
  <2>2. Largest(listing) \in listing
    <3> HIDE DEF listing
    <3> QED BY <1>2, <2>1, LargestOfBounded
  <2> QED BY <1>2, <2>2 DEF IdGivenTo, Ids
<1> QED BY <1>1, <1>2

-----------------------------------------------------------------------------
(***************************************************************************)
(* Types.  A call log that is being made has at least one CEL: its tenant  *)
(* is looked up by the smallest of its linkedids.                          *)
(***************************************************************************)
NewNotEmpty == \A p \in Process : \A r \in new[p] : r.cels # {}

(* Until they are created its call logs are numbered within the batch,     *)
(* then their ids are ones the sequence has given out.                     *)
NewNumbered ==
    \A p \in Process : \A r \in new[p] :
        /\ pc[p] \in {"delete", "unassociate", "tenants", "create"} => r.id \in 1 .. BatchSize
        /\ pc[p] = "associate" => r.id \in 1 .. (nextId - 1)

TypeInv == TypeOK /\ NewNotEmpty /\ NewNumbered

LEMMA TypeInit == Init => TypeInv
BY CelAssumption DEF Init, TypeInv, TypeOK, NewNotEmpty, NewNumbered, Message, CallLog, Step, NULL

LEMMA TypeStep == TypeInv /\ [Next]_vars => (TypeOK /\ NewNotEmpty)'
<1> DEFINE Good == TypeOK /\ NewNotEmpty
<1> SUFFICES ASSUME TypeInv, [Next]_vars PROVE Good'
  OBVIOUS
<1> USE DEF TypeInv, TypeOK, NewNotEmpty, database, job, history
<1>1. ASSUME NEW c \in Cel, WriteCel(c) PROVE Good'
  <2>1. [name |-> "LINKEDID_END", linkedid |-> c.linkedid] \in Message
    BY CelFields DEF Message
  <2>2. events' \in Seq(Message)
    BY <1>1, <2>1 DEF WriteCel
  <2> QED BY <1>1, <2>2 DEF WriteCel
<1>2. ASSUME NEW t \in Tenant, AuthDeletesTenant(t) PROVE Good'
  <2>1. [name |-> "auth_tenant_deleted", tenant |-> t] \in Message
    BY DEF Message
  <2>2. events' \in Seq(Message)
    BY <1>2, <2>1 DEF AuthDeletesTenant
  <2> QED BY <1>2, <2>2 DEF AuthDeletesTenant
<1>3. ASSUME NEW p \in Process, NEW base \in SUBSET Cel, Generate(p, base),
             events' \in Seq(Message)
      PROVE  Good'
  <2>1. Channels(base) \in SUBSET Nat
    BY CelFields DEF Channels
  <2> QED BY <1>3, <2>1 DEF Generate, Begin, AtWork, Step, PipelineStep
<1>4. CASE HandleLinkedIdEnd
  <2>1. OfLinkedIds(cels, {Head(events).linkedid}) \in SUBSET Cel
    BY DEF OfLinkedIds
  <2>2. events' \in Seq(Message)
    BY <1>4 DEF HandleLinkedIdEnd
  <2> QED BY <1>3, <1>4, <2>1, <2>2 DEF HandleLinkedIdEnd, MayStart
<1>5. CASE GenerateFromCount
  <2>1. MostRecent(Unprocessed, CelCount) \in SUBSET Cel
    BY DEF MostRecent, Unprocessed
  <2> QED BY <1>3, <1>5, <2>1 DEF GenerateFromCount, MayStart
<1>6. ASSUME NEW date \in GenerateSince, GenerateFromDays(date) PROVE Good'
  <2>1. {c \in Unprocessed : c.eventtime >= date} \in SUBSET Cel
    BY DEF Unprocessed
  <2> QED BY <1>3, <1>6, <2>1 DEF GenerateFromDays, MayStart
<1>7. ASSUME NEW date \in DeleteSince, StartDelete(date) PROVE Good'
  <2>1. Ids({r \in callLogs : Date(r) >= date}) \in SUBSET Nat
    BY DEF Ids, CallLog
  <2>2. date \in Nat
    BY ParameterAssumption
  <2>3. "wipe" \in Step
    BY DEF Step, WipeStep
  <2>4. shared' \subseteq Process /\ UNCHANGED <<purged, stranded, halted, tangled>>
    BY <1>7 DEF StartDelete, MayStart, Begin, AtWork
  <2>5. toDelete' \in [Process -> SUBSET Nat] /\ since' \in Nat /\ deletes' \in Nat
    <3>1. PICK ids \in SUBSET Nat : toDelete' = [toDelete EXCEPT !["cli"] = ids]
      BY <1>7, <2>1 DEF StartDelete
    <3>2. since' = date /\ deletes' = deletes + 1
      BY <1>7 DEF StartDelete
    <3>3. deletes \in Nat /\ toDelete \in [Process -> SUBSET Nat]
      OBVIOUS
    <3> HIDE DEF TypeInv, TypeOK, NewNotEmpty
    <3>4. deletes' \in Nat
      BY <3>2, <3>3
    <3>5. toDelete' \in [Process -> SUBSET Nat]
      BY <3>1, <3>3
    <3> QED BY <2>2, <3>2, <3>4, <3>5
  <2>6. pc' \in [Process -> Step]
    BY <1>7, <2>3 DEF StartDelete
  <2> QED BY <1>7, <2>4, <2>5, <2>6 DEF StartDelete
<1>8. ASSUME NEW p \in Process, Correlate(p) PROVE Good'
  <2>1. CorrelatedLinkedIds(cels, channels[p]) \in SUBSET Nat
    BY CelFields DEF CorrelatedLinkedIds, LinkedIds
  <2> QED BY <1>8, <2>1 DEF Correlate, Advance, Step, PipelineStep
<1>9. ASSUME NEW p \in Process, Read(p) PROVE Good'
  <2> DEFINE T == OfLinkedIds(cels, links[p])
  <2>1. CallLogIds(T) \in SUBSET Nat
    BY DEF CallLogIds, OfLinkedIds
  <2>2. \A r \in Batch(T) : r \in CallLog /\ r.cels # {}
    <3>1. T \subseteq Cel
      BY DEF OfLinkedIds
    <3> HIDE DEF T
    <3> QED BY <3>1, BatchElements, BatchSizeIsNatural DEF CallLog
  <2> HIDE DEF T
  <2>3. PICK yield \in SUBSET Batch(T) :
          /\ faults' = IF yield = Batch(T) THEN faults ELSE faults + 1
          /\ new' = [new EXCEPT ![p] = yield]
    BY <1>9 DEF Read, T
  <2>4. /\ faults' \in Nat
        /\ new' \in [Process -> SUBSET CallLog] /\ NewNotEmpty'
    <3>1. faults' \in Nat
      BY <2>3
    <3>2. yield \in SUBSET CallLog /\ \A r \in yield : r.cels # {}
      BY <2>2
    <3>3. new' \in [Process -> SUBSET CallLog] /\ NewNotEmpty'
      BY <2>3, <3>2
    <3> QED BY <3>1, <3>3
  <2>5. toDelete' = [toDelete EXCEPT ![p] = CallLogIds(T)]
    BY <1>9 DEF Read, T
  <2> QED BY <1>9, <2>1, <2>4, <2>5 DEF Read, Advance, Step, PipelineStep
<1>10. ASSUME NEW p \in Process, Delete(p) PROVE Good'
  BY <1>10 DEF Delete, Advance, Step, PipelineStep
<1>11. ASSUME NEW p \in Process, Unassociate(p) PROVE Good'
  <2>1. callLogIdOf' \in [Cel -> Nat]
    BY <1>11 DEF Unassociate, Release, NULL
  <2> QED BY <1>11, <2>1 DEF Unassociate, Advance, Step, PipelineStep
<1>12. ASSUME NEW p \in Process, CreateTenants(p) PROVE Good'
  <2>1. \A r \in new[p] : TenantUuid(r) \in Tenant
    BY TenantOfCels DEF CallLog
  <2>2. tenants' \subseteq Tenant
    BY <1>12, <2>1 DEF CreateTenants
  <2> QED BY <1>12, <2>2 DEF CreateTenants, Advance, Step, PipelineStep
<1>13. ASSUME NEW p \in Process, Create(p) PROVE Good'
  <2> DEFINE created == {[id |-> nextId + r.id, cels |-> r.cels] : r \in new[p]}
  <2>1. \A r \in created : r \in CallLog /\ r.cels # {}
    BY DEF CallLog
  <2>2. nextId' \in Nat
    BY <1>13, BatchSizeIsNatural DEF Create
  <2>4. tangled' \subseteq Cel
    BY <1>13 DEF Create, Tangles
  <2> HIDE DEF created
  <2>3. callLogs' = callLogs \cup created /\ new' = [new EXCEPT ![p] = created]
    BY <1>13 DEF Create, created
  <2> QED BY <1>13, <2>1, <2>2, <2>3, <2>4 DEF Create, Advance, Step, PipelineStep
<1>14. ASSUME NEW p \in Process, Associate(p) PROVE Good'
  <2>1. /\ new[p] \in SUBSET CallLog /\ nextId \in Nat
        /\ \A r \in new[p] : r.id \in Nat /\ r.id <= nextId
    BY <1>14 DEF Associate, Advance, CallLog, NewNumbered
  <2>2. ASSUME NEW c \in Cel PROVE IdGivenTo(c, new[p]) \in Nat
    <3>1. \/ IdGivenTo(c, new[p]) = callLogIdOf[c]
          \/ \E r \in new[p] : c \in r.cels /\ IdGivenTo(c, new[p]) = r.id
      BY <2>1, AssociatedIds
    <3> QED BY <2>1, <3>1
  <2>3. callLogIdOf' \in [Cel -> Nat]
    BY <1>14, <2>2 DEF Associate
  <2> QED BY <1>14, <2>3 DEF Associate, Advance, Step, PipelineStep
<1>15. ASSUME NEW p \in Process, Publish(p) PROVE Good'
  <2>1. Ids(new[p]) \subseteq Nat
    BY DEF Ids, CallLog
  <2> QED BY <1>15, <2>1 DEF Publish, Advance, End, Step
<1>16. ASSUME NEW p \in Process, Wipe(p) PROVE Good'
  <2>1. \A logs \in SUBSET callLogs : Ids(logs) \subseteq Nat
    BY DEF Ids, CallLog
  <2> QED BY <1>16, <2>1 DEF Wipe, Advance, Step, WipeStep
<1>17. ASSUME NEW p \in Process, WipeUnassociate(p) PROVE Good'
  <2>1. callLogIdOf' \in [Cel -> Nat]
    BY <1>17 DEF WipeUnassociate, Release, NULL
  <2> QED BY <1>17, <2>1 DEF WipeUnassociate, EndWipe, Advance, End, Step
<1>18. ASSUME NEW p \in Process, WipeUnassociateAll(p) PROVE Good'
  BY <1>18 DEF WipeUnassociateAll, EndWipe, Advance, End, Step, NULL
<1>19. ASSUME NEW p \in Process, EndJob(p), events' \in Seq(Message), faults' \in Nat
       PROVE  Good'
  <2>1. Ids(new[p]) \subseteq Nat /\ toDelete[p] \subseteq Nat
    BY DEF Ids, CallLog
  <2>2. stranded' \subseteq Nat /\ halted' \subseteq Nat
    BY <1>19, <2>1 DEF EndJob
  <2> QED BY <1>19, <2>2 DEF EndJob, Step
<1>20. ASSUME NEW p \in Process, Abort(p) PROVE Good'
  <2>1. EndJob(p) /\ events' \in Seq(Message) /\ faults' \in Nat
    BY <1>20 DEF Abort
  <2> HIDE DEF TypeInv, TypeOK, NewNotEmpty
  <2> QED BY <1>19, <2>1
<1>21. CASE Restart
  <2>1. "daemon" \in Process /\ EndJob("daemon") /\ events' \in Seq(Message) /\ faults' \in Nat
    BY <1>21 DEF Restart
  <2> HIDE DEF TypeInv, TypeOK, NewNotEmpty
  <2> QED BY <1>19, <2>1
<1>22. ASSUME NEW p \in Process, CreateFails(p) PROVE Good'
  <2>1. EndJob(p) /\ events' \in Seq(Message) /\ faults' \in Nat
    BY <1>22 DEF CreateFails
  <2> HIDE DEF TypeInv, TypeOK, NewNotEmpty
  <2> QED BY <1>19, <2>1
<1>23. ASSUME NEW t \in Tenant, NEW date \in PurgeBefore, PurgeCallLogs(t, date)
       PROVE  Good'
  BY <1>23 DEF PurgeCallLogs, Ids, CallLog
<1>24. ASSUME NEW removed, RemoveTenants(removed), events' \in Seq(Message)
       PROVE  Good'
  BY <1>24 DEF RemoveTenants, Ids, CallLog
<1>25. CASE HandleTenantDeleted
  <2>1. RemoveTenants({Head(events).tenant}) /\ events' \in Seq(Message)
    BY <1>25 DEF HandleTenantDeleted
  <2> HIDE DEF TypeInv, TypeOK, NewNotEmpty
  <2> QED BY <1>24, <2>1
<1>26. CASE SyncDb
  <2>1. RemoveTenants(tenants \ authTenants) /\ events' \in Seq(Message)
    BY <1>26 DEF SyncDb
  <2> HIDE DEF TypeInv, TypeOK, NewNotEmpty
  <2> QED BY <1>24, <2>1
<1>27. CASE UNCHANGED vars
  BY <1>27 DEF vars
<1> QED BY <1>1, <1>2, <1>4, <1>5, <1>6, <1>7, <1>8, <1>9, <1>10, <1>11, <1>12, <1>13,
           <1>14, <1>15, <1>16, <1>17, <1>18, <1>20, <1>21, <1>22, <1>23, <1>25, <1>26,
           <1>27
        DEF Next, PipelineNext, WipeNext

(***************************************************************************)
(* What a step may be to the ids that are in use.  Rest is a step of no    *)
(* job; Shift one by which a job moves on without touching an id.          *)
(***************************************************************************)
Settled == {"idle", "correlate", "read", "tenants", "create", "publish"}

Rest ==
    /\ UNCHANGED <<callLogIdOf, nextId, pc, toDelete, new, stranded>>
    /\ callLogs' \subseteq callLogs
    /\ Ids(callLogs) \subseteq Ids(callLogs') \cup purged'
    /\ purged \subseteq purged'

Shift(p) ==
    /\ pc[p] \in Settled \ {"read", "create"}
    /\ \E s \in Settled \ {"tenants"} :
         /\ pc' = [pc EXCEPT ![p] = s]
         /\ s = "create" => pc[p] = "tenants"
    /\ new' = new \/ new' = [new EXCEPT ![p] = {}]
    /\ UNCHANGED <<cels, callLogs, callLogIdOf, nextId, toDelete, purged, stranded>>

Selects ==
    /\ "cli" \in Process
    /\ pc["cli"] = "idle"
    /\ pc' = [pc EXCEPT !["cli"] = "wipe"]
    /\ \E ids \in SUBSET Ids(callLogs) : toDelete' = [toDelete EXCEPT !["cli"] = ids]
    /\ UNCHANGED <<cels, callLogs, callLogIdOf, nextId, new, purged, stranded>>

JobStep(p) ==
    \/ Shift(p) \/ Read(p) \/ Delete(p) \/ Unassociate(p) \/ Create(p) \/ Associate(p)
    \/ Wipe(p) \/ WipeUnassociate(p) \/ WipeUnassociateAll(p) \/ EndJob(p)

LEMMA StepCases ==
    ASSUME TypeInv, [Next]_vars
    PROVE  \/ Rest /\ cels' = cels
           \/ Rest /\ callLogs' = callLogs /\ \E c \in Cel : WriteCel(c)
           \/ Selects
           \/ \E p \in Process : JobStep(p)
<1> DEFINE Goal == \/ Rest /\ cels' = cels
                   \/ Rest /\ callLogs' = callLogs /\ \E c \in Cel : WriteCel(c)
                   \/ Selects
                   \/ \E p \in Process : JobStep(p)
<1> SUFFICES Goal
  OBVIOUS
<1> USE DEF database, job, history
<1>0. ASSUME NEW p \in Process, NEW s \in Settled \ {"tenants"},
             pc[p] \in Settled \ {"read", "create"},
             pc' = [pc EXCEPT ![p] = s], s = "create" => pc[p] = "tenants",
             new' = new \/ new' = [new EXCEPT ![p] = {}],
             UNCHANGED <<cels, callLogs, callLogIdOf, nextId, toDelete, purged, stranded>>
      PROVE  Goal
  BY <1>0 DEF JobStep, Shift
<1>1. ASSUME NEW c \in Cel, WriteCel(c) PROVE Goal
  BY <1>1 DEF WriteCel, Rest
<1>2. ASSUME NEW t \in Tenant, AuthDeletesTenant(t) PROVE Goal
  BY <1>2 DEF AuthDeletesTenant, Rest
<1>3. ASSUME NEW p \in Process, NEW base, MayStart(p), Generate(p, base) PROVE Goal
  BY <1>0, <1>3 DEF MayStart, Generate, Begin, Settled
<1>4. CASE HandleLinkedIdEnd
  BY <1>3, <1>4 DEF HandleLinkedIdEnd, MayStart
<1>5. CASE GenerateFromCount
  BY <1>3, <1>5 DEF GenerateFromCount, MayStart
<1>6. ASSUME NEW date \in GenerateSince, GenerateFromDays(date) PROVE Goal
  BY <1>3, <1>6 DEF GenerateFromDays, MayStart
<1>7. ASSUME NEW date \in DeleteSince, StartDelete(date) PROVE Goal
  <2>1. Ids({r \in callLogs : Date(r) >= date}) \subseteq Ids(callLogs)
    BY DEF Ids
  <2>2. Selects
    BY <1>7, <2>1 DEF StartDelete, MayStart, Begin, Selects
  <2> QED BY <2>2
<1>8. ASSUME NEW p \in Process, PipelineNext(p) PROVE Goal
  <2>1. CASE Correlate(p)
    BY <1>0, <2>1 DEF Correlate, Advance, Settled
  <2>2. CASE CreateTenants(p)
    BY <1>0, <2>2 DEF CreateTenants, Advance, Settled
  <2>3. CASE Publish(p)
    BY <1>0, <2>3 DEF Publish, Advance, End, Settled
  <2>4. CASE CreateFails(p)
    BY <2>4 DEF CreateFails, JobStep
  <2> QED BY <1>8, <2>1, <2>2, <2>3, <2>4 DEF PipelineNext, JobStep
<1>9. ASSUME NEW p \in Process, WipeNext(p) PROVE Goal
  BY <1>9 DEF WipeNext, JobStep
<1>10. ASSUME NEW p \in Process, Abort(p) PROVE Goal
  BY <1>10 DEF Abort, JobStep
<1>11. CASE Restart
  BY <1>11 DEF Restart, JobStep
<1>12. ASSUME NEW t \in Tenant, NEW date \in PurgeBefore, PurgeCallLogs(t, date)
       PROVE  Goal
  BY <1>12 DEF PurgeCallLogs, Rest, Ids
<1>13. ASSUME NEW removed, RemoveTenants(removed) PROVE Goal
  BY <1>13 DEF RemoveTenants, Rest, Ids
<1>14. CASE HandleTenantDeleted
  BY <1>13, <1>14 DEF HandleTenantDeleted
<1>15. CASE SyncDb
  BY <1>13, <1>15 DEF SyncDb
<1>16. CASE UNCHANGED vars
  BY <1>16 DEF vars, Rest
<1> HIDE DEF Goal, database, job, history
<1> QED BY <1>1, <1>2, <1>4, <1>5, <1>6, <1>7, <1>8, <1>9, <1>10, <1>11, <1>12, <1>14,
           <1>15, <1>16
        DEF Next

(* The variables of the jobs, as the job steps leave them.                 *)
LEMMA NumberStep == TypeInv /\ [Next]_vars => NewNumbered'
<1> SUFFICES ASSUME TypeInv, [Next]_vars,
                    NEW q \in Process, NEW r \in new'[q]
             PROVE  /\ pc'[q] \in {"delete", "unassociate", "tenants", "create"} =>
                           r.id \in 1 .. BatchSize
                    /\ pc'[q] = "associate" => r.id \in 1 .. (nextId' - 1)
  BY DEF NewNumbered
<1> DEFINE Numbered == /\ pc'[q] \in {"delete", "unassociate", "tenants", "create"} =>
                              r.id \in 1 .. BatchSize
                       /\ pc'[q] = "associate" => r.id \in 1 .. (nextId' - 1)
<1> USE DEF TypeInv, TypeOK, NewNumbered
<1>1. CASE Rest
  BY <1>1 DEF Rest
<1>2. CASE Selects
  BY <1>2 DEF Selects
<1>3. ASSUME NEW p \in Process, JobStep(p) PROVE Numbered
  <2>1. CASE Shift(p)
    BY <2>1 DEF Shift, Settled
  <2>2. CASE Read(p)
    <3> DEFINE T == OfLinkedIds(cels, links[p])
    <3>1. PICK yield \in SUBSET Batch(T) : new' = [new EXCEPT ![p] = yield]
      BY <2>2 DEF Read
    <3>2. pc' = [pc EXCEPT ![p] = "delete"] /\ nextId' = nextId
      BY <2>2 DEF Read, Advance, database
    <3> HIDE DEF T
    <3>3. \A s \in yield : s.id \in 1 .. BatchSize
      BY <3>1, BatchElements
    <3> QED BY <3>1, <3>2, <3>3
  <2>3. CASE Delete(p)
    BY <2>3 DEF Delete, Advance
  <2>4. CASE Unassociate(p)
    BY <2>4 DEF Unassociate, Advance
  <2>5. CASE Create(p)
    BY <2>5, BatchSizeIsNatural DEF Create, Advance
  <2>6. CASE Associate(p)
    BY <2>6 DEF Associate, Advance
  <2>7. CASE Wipe(p)
    BY <2>7 DEF Wipe, Advance
  <2>8. CASE WipeUnassociate(p) \/ WipeUnassociateAll(p)
    BY <2>8 DEF WipeUnassociate, WipeUnassociateAll, EndWipe, Advance
  <2>9. CASE EndJob(p)
    BY <2>9 DEF EndJob, database
  <2> QED BY <1>3, <2>1, <2>2, <2>3, <2>4, <2>5, <2>6, <2>7, <2>8, <2>9 DEF JobStep
<1> QED BY <1>1, <1>2, <1>3, StepCases

LEMMA TypeInvariant == Spec => []TypeInv
<1>1. TypeInv /\ [Next]_vars => TypeInv'
  BY TypeStep, NumberStep DEF TypeInv
<1> QED BY <1>1, TypeInit, PTL DEF Spec

(* The variables keep their shapes, whatever the constants.                *)
THEOREM TypeCorrect == Spec => []TypeOK
<1>1. TypeInv => TypeOK
  BY DEF TypeInv
<1> QED BY <1>1, TypeInvariant, PTL

-----------------------------------------------------------------------------
(***************************************************************************)
(* Ids.  The ids a job has created and not yet associated are in nobody    *)
(* else's hands: no CEL refers to them, no other job creates them, and no  *)
(* generation is about to delete them, because it only deletes what a CEL  *)
(* refers to.  That the sequence never gives out an id twice is what       *)
(* carries the argument over the interleavings.                            *)
(***************************************************************************)
ReleasedWhenDone ==
    \A p \in Process :
        pc[p] \notin {"delete", "unassociate"} \cup WipeStep => toDelete[p] = {}

IdsGivenOut ==
    /\ 0 < nextId
    /\ \A c \in Cel : callLogIdOf[c] < nextId
    /\ \A n \in Ids(callLogs) : 0 < n /\ n < nextId
    /\ \A p \in Process : \A n \in toDelete[p] : n < nextId

UnfinishedUnreferenced == \A c \in Cel : callLogIdOf[c] \notin Unfinished

UnfinishedDisjoint ==
    \A p, q \in Process :
        p # q /\ pc[p] = "associate" /\ pc[q] = "associate" =>
            Ids(new[p]) \cap Ids(new[q]) = {}

IdInv ==
    /\ ReleasedWhenDone
    /\ IdsGivenOut
    /\ UnfinishedUnreferenced
    /\ UnfinishedDisjoint
    /\ UnfinishedCallLogUntouched

LEMMA UnfinishedElements ==
    \A n : n \in Unfinished <=>
              \E p \in Process : pc[p] = "associate" /\ n \in Ids(new[p])
BY DEF Unfinished

(* Steps that leave the unfinished call logs alone.                        *)
LEMMA UnfinishedKept ==
    ASSUME TypeInv,
           \/ Rest
           \/ Selects
           \/ \E p \in Process : \/ Shift(p) \/ Read(p) \/ Delete(p) \/ Unassociate(p)
                               \/ Wipe(p) \/ WipeUnassociate(p) \/ WipeUnassociateAll(p)
    PROVE  /\ Unfinished' = Unfinished
           /\ \A p \in Process : pc'[p] = "associate" <=> pc[p] = "associate"
           /\ \A p \in Process : pc[p] = "associate" => new'[p] = new[p]
<1>1. /\ \A p \in Process : pc'[p] = "associate" <=> pc[p] = "associate"
      /\ \A p \in Process : pc[p] = "associate" => new'[p] = new[p]
  <2> USE DEF TypeInv, TypeOK
  <2>1. CASE Rest
    BY <2>1 DEF Rest
  <2>2. CASE Selects
    BY <2>2 DEF Selects
  <2>3. ASSUME NEW p \in Process, Shift(p)
        PROVE  /\ \A q \in Process : pc'[q] = "associate" <=> pc[q] = "associate"
               /\ \A q \in Process : pc[q] = "associate" => new'[q] = new[q]
    BY <2>3 DEF Shift, Settled
  <2>4. ASSUME NEW p \in Process, Read(p)
        PROVE  /\ \A q \in Process : pc'[q] = "associate" <=> pc[q] = "associate"
               /\ \A q \in Process : pc[q] = "associate" => new'[q] = new[q]
    BY <2>4 DEF Read, Advance
  <2>5. ASSUME NEW p \in Process, Delete(p) \/ Unassociate(p)
        PROVE  /\ \A q \in Process : pc'[q] = "associate" <=> pc[q] = "associate"
               /\ \A q \in Process : pc[q] = "associate" => new'[q] = new[q]
    BY <2>5 DEF Delete, Unassociate, Advance
  <2>6. ASSUME NEW p \in Process, Wipe(p) \/ WipeUnassociate(p) \/ WipeUnassociateAll(p)
        PROVE  /\ \A q \in Process : pc'[q] = "associate" <=> pc[q] = "associate"
               /\ \A q \in Process : pc[q] = "associate" => new'[q] = new[q]
    BY <2>6 DEF Wipe, WipeUnassociate, WipeUnassociateAll, EndWipe, Advance
  <2> HIDE DEF TypeInv, TypeOK
  <2> QED BY <2>1, <2>2, <2>3, <2>4, <2>5, <2>6
<1>2. Unfinished' = Unfinished
  BY <1>1 DEF Unfinished
<1> QED BY <1>1, <1>2

(* The ids of the call logs a job creates are new.                         *)
LEMMA CreatedIds ==
    ASSUME TypeInv, IdsGivenOut, NEW p \in Process, Create(p)
    PROVE  /\ nextId < nextId' \/ nextId' = nextId
           /\ \A n \in Ids(new'[p]) : nextId < n /\ n < nextId'
           /\ callLogs' = callLogs \cup new'[p]
           /\ pc[p] = "create"
           /\ pc' = [pc EXCEPT ![p] = "associate"]
           /\ \A q \in Process : q # p => new'[q] = new[q]
           /\ Unfinished' = Unfinished \cup Ids(new'[p])
<1> DEFINE created == {[id |-> nextId + r.id, cels |-> r.cels] : r \in new[p]}
<1>1. /\ callLogs' = callLogs \cup created
      /\ new' = [new EXCEPT ![p] = created]
      /\ nextId' = IF new[p] = {} THEN nextId ELSE nextId + BatchSize + 1
      /\ pc[p] = "create" /\ pc' = [pc EXCEPT ![p] = "associate"]
  BY DEF Create, Advance
<1>2. \A n \in Ids(created) : \E r \in new[p] : n = nextId + r.id
  BY DEF Ids
<1>3. \A r \in new[p] : r.id \in 1 .. BatchSize
  BY <1>1 DEF TypeInv, NewNumbered
<1>4. nextId \in Nat /\ new'[p] = created /\ \A q \in Process : q # p => new'[q] = new[q]
  BY <1>1 DEF TypeInv, TypeOK
<1>5. \A n \in Ids(created) : nextId < n /\ n < nextId'
  BY <1>1, <1>2, <1>3, <1>4, BatchSizeIsNatural
<1>6. nextId < nextId' \/ nextId' = nextId
  BY <1>1, <1>4, BatchSizeIsNatural
<1> HIDE DEF created
<1>7. \A q \in Process : q # p => pc'[q] = pc[q]
  BY <1>1 DEF TypeInv, TypeOK
<1>8. pc'[p] = "associate"
  BY <1>1 DEF TypeInv, TypeOK
<1>9. \A n : n \in Unfinished' <=> n \in Unfinished \cup Ids(created)
  BY <1>1, <1>4, <1>7, <1>8 DEF Unfinished
<1>10. Unfinished' = Unfinished \cup Ids(created)
  BY <1>9
<1> QED BY <1>1, <1>4, <1>5, <1>6, <1>10

LEMMA IdInit == Init => IdInv
BY DEF Init, IdInv, ReleasedWhenDone, IdsGivenOut, UnfinishedUnreferenced,
       UnfinishedDisjoint, UnfinishedCallLogUntouched, Unfinished, Ids, NULL, WipeStep,
       PipelineStep

LEMMA IdStep == TypeInv /\ IdInv /\ [Next]_vars => IdInv'
<1> SUFFICES ASSUME TypeInv, IdInv, [Next]_vars PROVE IdInv'
  OBVIOUS
<1> USE DEF TypeInv, TypeOK, IdInv
<1>1. CASE Rest
  <2>1. Unfinished' = Unfinished
    BY <1>1, UnfinishedKept
  <2>2. ReleasedWhenDone' /\ UnfinishedDisjoint'
    BY <1>1 DEF Rest, ReleasedWhenDone, UnfinishedDisjoint
  <2>3. IdsGivenOut'
    BY <1>1 DEF Rest, IdsGivenOut, Ids
  <2>4. UnfinishedUnreferenced' /\ UnfinishedCallLogUntouched'
    BY <1>1, <2>1 DEF Rest, UnfinishedUnreferenced, UnfinishedCallLogUntouched
  <2> QED BY <2>2, <2>3, <2>4
<1>2. CASE Selects
  <2>1. /\ Unfinished' = Unfinished
        /\ \A p \in Process : pc'[p] = "associate" <=> pc[p] = "associate"
        /\ \A p \in Process : pc[p] = "associate" => new'[p] = new[p]
    BY <1>2, UnfinishedKept
  <2>2. PICK ids \in SUBSET Ids(callLogs) : toDelete' = [toDelete EXCEPT !["cli"] = ids]
    BY <1>2 DEF Selects
  <2>3. ReleasedWhenDone'
    BY <1>2, <2>2 DEF Selects, ReleasedWhenDone, WipeStep
  <2>4. IdsGivenOut'
    BY <1>2, <2>2 DEF Selects, IdsGivenOut
  <2>5. UnfinishedUnreferenced' /\ UnfinishedDisjoint'
    BY <1>2, <2>1 DEF Selects, UnfinishedUnreferenced, UnfinishedDisjoint
  <2>6. UnfinishedCallLogUntouched'
    BY <1>2, <2>1, <2>2 DEF Selects, UnfinishedCallLogUntouched, PipelineStep
  <2> QED BY <2>3, <2>4, <2>5, <2>6
<1>3. ASSUME NEW p \in Process, Shift(p) PROVE IdInv'
  <2>1. /\ Unfinished' = Unfinished
        /\ \A q \in Process : pc'[q] = "associate" <=> pc[q] = "associate"
        /\ \A q \in Process : pc[q] = "associate" => new'[q] = new[q]
    BY <1>3, UnfinishedKept
  <2>2. /\ \A q \in Process : q # p => pc'[q] = pc[q]
        /\ pc'[p] \in Settled
        /\ pc[p] \in Settled
        /\ toDelete' = toDelete
    BY <1>3 DEF Shift
  <2>3. ReleasedWhenDone' /\ toDelete[p] = {}
    BY <2>2 DEF ReleasedWhenDone, WipeStep, Settled
  <2>4. IdsGivenOut' /\ UnfinishedUnreferenced' /\ UnfinishedDisjoint'
    BY <1>3, <2>1 DEF Shift, IdsGivenOut, UnfinishedUnreferenced, UnfinishedDisjoint
  <2>5. UnfinishedCallLogUntouched'
    BY <2>1, <2>2, <2>3 DEF UnfinishedCallLogUntouched
  <2> QED BY <2>3, <2>4, <2>5
<1>4. ASSUME NEW p \in Process, Read(p) PROVE IdInv'
  <2>1. /\ Unfinished' = Unfinished
        /\ \A q \in Process : pc'[q] = "associate" <=> pc[q] = "associate"
        /\ \A q \in Process : pc[q] = "associate" => new'[q] = new[q]
    BY <1>4, UnfinishedKept
  <2>2. PICK T \in SUBSET Cel : toDelete' = [toDelete EXCEPT ![p] = CallLogIds(T)]
    <3>1. OfLinkedIds(cels, links[p]) \in SUBSET Cel
      BY DEF OfLinkedIds
    <3> QED BY <1>4, <3>1 DEF Read
  <2>3. \A n \in CallLogIds(T) : \E c \in Cel : n = callLogIdOf[c]
    BY DEF CallLogIds
  <2>4. /\ pc[p] = "read" /\ pc' = [pc EXCEPT ![p] = "delete"]
        /\ UNCHANGED <<callLogs, callLogIdOf, nextId>>
    BY <1>4 DEF Read, Advance, database
  <2>5. ReleasedWhenDone'
    BY <2>2, <2>4 DEF ReleasedWhenDone
  <2>6. IdsGivenOut'
    BY <2>2, <2>3, <2>4 DEF IdsGivenOut
  <2>7. UnfinishedUnreferenced' /\ UnfinishedDisjoint'
    BY <2>1, <2>4 DEF UnfinishedUnreferenced, UnfinishedDisjoint
  <2>8. UnfinishedCallLogUntouched'
    BY <2>1, <2>2, <2>3, <2>4 DEF UnfinishedCallLogUntouched, UnfinishedUnreferenced
  <2> QED BY <2>5, <2>6, <2>7, <2>8
<1>5. ASSUME NEW p \in Process, Delete(p) PROVE IdInv'
  <2>1. /\ Unfinished' = Unfinished
        /\ \A q \in Process : pc'[q] = "associate" <=> pc[q] = "associate"
        /\ \A q \in Process : pc[q] = "associate" => new'[q] = new[q]
    BY <1>5, UnfinishedKept
  <2>2. /\ pc[p] = "delete" /\ pc' = [pc EXCEPT ![p] = "unassociate"]
        /\ callLogs' \subseteq callLogs
        /\ UNCHANGED <<callLogIdOf, nextId, toDelete>>
    BY <1>5 DEF Delete, Advance
  <2>3. ReleasedWhenDone' /\ UnfinishedUnreferenced' /\ UnfinishedDisjoint'
    BY <2>1, <2>2 DEF ReleasedWhenDone, UnfinishedUnreferenced, UnfinishedDisjoint
  <2>4. IdsGivenOut'
    BY <2>2 DEF IdsGivenOut, Ids
  <2>5. UnfinishedCallLogUntouched'
    BY <2>1, <2>2 DEF UnfinishedCallLogUntouched, PipelineStep
  <2> QED BY <2>3, <2>4, <2>5
<1>6. ASSUME NEW p \in Process,
             Unassociate(p) \/ WipeUnassociate(p) \/ WipeUnassociateAll(p)
      PROVE  IdInv'
  <2>1. /\ Unfinished' = Unfinished
        /\ \A q \in Process : pc'[q] = "associate" <=> pc[q] = "associate"
        /\ \A q \in Process : pc[q] = "associate" => new'[q] = new[q]
    BY <1>6, UnfinishedKept
  <2>2. /\ \/ pc[p] = "unassociate" /\ pc' = [pc EXCEPT ![p] = "tenants"]
           \/ pc[p] \in WipeStep /\ pc' = [pc EXCEPT ![p] = "idle"]
        /\ toDelete' = [toDelete EXCEPT ![p] = {}]
        /\ \A c \in Cel : callLogIdOf'[c] \in {NULL, callLogIdOf[c]}
        /\ UNCHANGED <<callLogs, nextId>>
    BY <1>6 DEF Unassociate, WipeUnassociate, WipeUnassociateAll, EndWipe, Release, Advance,
                WipeStep
  <2>3. ReleasedWhenDone'
    BY <2>2 DEF ReleasedWhenDone
  <2>4. IdsGivenOut'
    BY <2>2 DEF IdsGivenOut, NULL
  <2>5. NULL \notin Unfinished
    BY DEF Unfinished, Ids, NewNumbered, NULL
  <2>6. UnfinishedUnreferenced' /\ UnfinishedDisjoint'
    BY <2>1, <2>2, <2>5 DEF UnfinishedUnreferenced, UnfinishedDisjoint
  <2>7. UnfinishedCallLogUntouched'
    BY <2>1, <2>2 DEF UnfinishedCallLogUntouched, PipelineStep
  <2> QED BY <2>3, <2>4, <2>6, <2>7
<1>7. ASSUME NEW p \in Process, Create(p) PROVE IdInv'
  <2>1. /\ nextId < nextId' \/ nextId' = nextId
        /\ \A n \in Ids(new'[p]) : nextId < n /\ n < nextId'
        /\ callLogs' = callLogs \cup new'[p]
        /\ pc[p] = "create"
        /\ pc' = [pc EXCEPT ![p] = "associate"]
        /\ \A q \in Process : q # p => new'[q] = new[q]
        /\ Unfinished' = Unfinished \cup Ids(new'[p])
    BY <1>7, CreatedIds
  <2>2. UNCHANGED <<callLogIdOf, toDelete>>
    BY <1>7 DEF Create
  <2>3. /\ nextId \in Nat /\ nextId' \in Nat
        /\ Ids(new'[p]) \subseteq Nat /\ Ids(callLogs) \subseteq Nat
        /\ \A c \in Cel : callLogIdOf[c] \in Nat
        /\ \A q \in Process : Ids(new[q]) \subseteq Nat /\ toDelete[q] \subseteq Nat
    BY TypeStep DEF Ids, CallLog
  <2>4. ReleasedWhenDone'
    BY <2>1, <2>2 DEF ReleasedWhenDone, WipeStep
  <2>5. Ids(callLogs') = Ids(callLogs) \cup Ids(new'[p])
    BY <2>1 DEF Ids
  <2>6. IdsGivenOut'
    <3>1. 0 < nextId' /\ \A n \in Nat : n < nextId => n < nextId'
      BY <2>1, <2>3 DEF IdsGivenOut
    <3>2. \A n \in Ids(callLogs') : 0 < n /\ n < nextId'
      BY <2>1, <2>3, <2>5, <3>1 DEF IdsGivenOut
    <3>3. \A c \in Cel : callLogIdOf[c] < nextId'
      BY <2>3, <3>1 DEF IdsGivenOut
    <3>4. \A q \in Process : \A n \in toDelete[q] : n < nextId'
      BY <2>3, <3>1 DEF IdsGivenOut
    <3> QED BY <2>2, <3>1, <3>2, <3>3, <3>4 DEF IdsGivenOut
  <2>7. UnfinishedUnreferenced'
    <3>1. \A c \in Cel : callLogIdOf[c] \notin Ids(new'[p])
      BY <2>1, <2>3 DEF IdsGivenOut
    <3> QED BY <2>1, <2>2, <3>1 DEF UnfinishedUnreferenced
  <2>8. \A q \in Process : q # p /\ pc[q] = "associate" =>
           Ids(new[q]) \cap Ids(new'[p]) = {}
    <3>1. \A q \in Process : pc[q] = "associate" => \A n \in Ids(new[q]) : n < nextId
      BY <2>3 DEF NewNumbered, Ids
    <3> QED BY <2>1, <2>3, <3>1
  <2>9. UnfinishedDisjoint'
    BY <2>1, <2>8 DEF UnfinishedDisjoint
  <2>10. UnfinishedCallLogUntouched'
    <3>1. \A q \in Process : toDelete[q] \cap Ids(new'[p]) = {}
      BY <2>1, <2>3 DEF IdsGivenOut
    <3> QED BY <2>1, <2>2, <3>1 DEF UnfinishedCallLogUntouched, PipelineStep
  <2> QED BY <2>4, <2>6, <2>7, <2>9, <2>10
<1>8. ASSUME NEW p \in Process, Associate(p) PROVE IdInv'
  <2>1. /\ pc[p] = "associate" /\ pc' = [pc EXCEPT ![p] = "publish"]
        /\ callLogIdOf' = [c \in Cel |-> IdGivenTo(c, new[p])]
        /\ UNCHANGED <<callLogs, nextId, toDelete, new>>
    BY <1>8 DEF Associate, Advance
  <2>2. \A c \in Cel : callLogIdOf'[c] \in {callLogIdOf[c]} \cup Ids(new[p])
    <3>1. \A r \in new[p] : r.id <= nextId
      BY <2>1 DEF NewNumbered
    <3>2. \A c \in Cel : IdGivenTo(c, new[p]) \in {callLogIdOf[c]} \cup Ids(new[p])
      BY <3>1, AssociatedIds DEF Ids
    <3> QED BY <2>1, <3>2
  <2>3. \A n : n \in Unfinished' <=>
                 \E q \in Process \ {p} : pc[q] = "associate" /\ n \in Ids(new[q])
    BY <2>1 DEF Unfinished
  <2>4. Unfinished' \subseteq Unfinished /\ Unfinished' \cap Ids(new[p]) = {}
    BY <2>1, <2>3 DEF Unfinished, UnfinishedDisjoint
  <2>5. ReleasedWhenDone' /\ UnfinishedDisjoint'
    BY <2>1 DEF ReleasedWhenDone, UnfinishedDisjoint, WipeStep
  <2>6. IdsGivenOut'
    <3>1. \A n \in Ids(new[p]) : n < nextId
      BY <2>1 DEF NewNumbered, Ids
    <3> QED BY <2>1, <2>2, <3>1 DEF IdsGivenOut
  <2>7. UnfinishedUnreferenced'
    BY <2>2, <2>4 DEF UnfinishedUnreferenced
  <2>8. UnfinishedCallLogUntouched'
    BY <2>1, <2>4 DEF UnfinishedCallLogUntouched, PipelineStep
  <2> QED BY <2>5, <2>6, <2>7, <2>8
<1>9. ASSUME NEW p \in Process, Wipe(p) PROVE IdInv'
  <2>1. /\ Unfinished' = Unfinished
        /\ \A q \in Process : pc'[q] = "associate" <=> pc[q] = "associate"
        /\ \A q \in Process : pc[q] = "associate" => new'[q] = new[q]
    BY <1>9, UnfinishedKept
  <2>2. /\ pc'[p] \in WipeStep
        /\ \A q \in Process : q # p => pc'[q] = pc[q]
        /\ callLogs' \subseteq callLogs
        /\ UNCHANGED <<callLogIdOf, nextId>>
    BY <1>9 DEF Wipe, Advance, WipeStep
  <2>3. PICK ids \in SUBSET (Ids(callLogs) \cup toDelete[p]) :
          toDelete' = [toDelete EXCEPT ![p] = ids]
    <3>1. Ids({r \in callLogs : Date(r) >= since}) \subseteq Ids(callLogs)
      BY DEF Ids
    <3> QED BY <1>9, <3>1 DEF Wipe
  <2>4. ReleasedWhenDone'
    BY <2>2, <2>3 DEF ReleasedWhenDone
  <2>5. IdsGivenOut'
    BY <2>2, <2>3 DEF IdsGivenOut, Ids
  <2>6. UnfinishedUnreferenced' /\ UnfinishedDisjoint'
    BY <2>1, <2>2 DEF UnfinishedUnreferenced, UnfinishedDisjoint
  <2>7. UnfinishedCallLogUntouched'
    BY <2>1, <2>2, <2>3 DEF UnfinishedCallLogUntouched, PipelineStep, WipeStep
  <2> QED BY <2>4, <2>5, <2>6, <2>7
<1>10. ASSUME NEW p \in Process, EndJob(p) PROVE IdInv'
  <2>1. /\ pc' = [pc EXCEPT ![p] = "idle"]
        /\ toDelete' = [toDelete EXCEPT ![p] = {}]
        /\ new' = [new EXCEPT ![p] = {}]
        /\ UNCHANGED <<callLogs, callLogIdOf, nextId>>
    BY <1>10 DEF EndJob, database
  <2>2. Unfinished' \subseteq Unfinished
    BY <2>1 DEF Unfinished
  <2>3. ReleasedWhenDone' /\ UnfinishedDisjoint'
    BY <2>1 DEF ReleasedWhenDone, UnfinishedDisjoint
  <2>4. IdsGivenOut' /\ UnfinishedUnreferenced'
    BY <2>1, <2>2 DEF IdsGivenOut, UnfinishedUnreferenced
  <2>5. UnfinishedCallLogUntouched'
    BY <2>1, <2>2 DEF UnfinishedCallLogUntouched
  <2> QED BY <2>3, <2>4, <2>5
<1> HIDE DEF TypeInv, TypeOK, IdInv
<1> QED BY StepCases, <1>1, <1>2, <1>3, <1>4, <1>5, <1>6, <1>7, <1>8, <1>9, <1>10 DEF JobStep

LEMMA IdInvariant == Spec => []IdInv
BY IdInit, IdStep, TypeInvariant, PTL DEF Spec

(* No generation deletes a call log that another job has created and not   *)
(* yet associated.                                                         *)
THEOREM UnfinishedCallLogsAreUntouched == Spec => []UnfinishedCallLogUntouched
<1>1. IdInv => UnfinishedCallLogUntouched
  BY DEF IdInv
<1> QED BY <1>1, IdInvariant, PTL

-----------------------------------------------------------------------------
(***************************************************************************)
(* Associations.  When a job deletes call logs it knows the ids it will    *)
(* release; the ids of unfinished call logs are only lost to retention, to *)
(* a tenant's removal or to the command's own deletion.                    *)
(***************************************************************************)
ReleasingSteps == {"unassociate", "wipe_unassociate", "wipe_unassociate_all"}

UnfinishedAccountedFor == Unfinished \subseteq Ids(callLogs) \cup purged \cup stranded

AccountInv == UnfinishedAccountedFor /\ AssociationAccountedFor

LEMMA BeingReleasedElements ==
    \A n : n \in BeingReleased <=> \E p \in Process : pc[p] \in ReleasingSteps /\ n \in toDelete[p]
BY DEF BeingReleased, ReleasingSteps

(* What is left to show when a step has not changed the ids on their way   *)
(* to being released.                                                      *)
LEMMA AccountKept ==
    ASSUME AccountInv,
           Ids(callLogs) \subseteq Ids(callLogs') \cup purged' \cup stranded',
           purged \subseteq purged', stranded \subseteq stranded',
           BeingReleased \subseteq BeingReleased' \cup stranded',
           Unfinished' \subseteq Unfinished \cup Ids(callLogs'),
           \A c \in Cel : callLogIdOf'[c] \in {NULL, callLogIdOf[c]} \cup Unfinished
    PROVE  AccountInv'
<1>1. Unfinished \subseteq Ids(callLogs') \cup purged' \cup stranded'
  BY DEF AccountInv, UnfinishedAccountedFor
<1>2. UnfinishedAccountedFor'
  BY <1>1 DEF UnfinishedAccountedFor
<1>3. AssociationAccountedFor'
  BY <1>1 DEF AccountInv, AssociationAccountedFor
<1> QED BY <1>2, <1>3 DEF AccountInv

LEMMA AccountInit == Init => AccountInv
BY DEF Init, AccountInv, UnfinishedAccountedFor, AssociationAccountedFor, Unfinished, Ids

LEMMA AccountStep == TypeInv /\ IdInv /\ AccountInv /\ [Next]_vars => AccountInv'
<1> SUFFICES ASSUME TypeInv, IdInv, AccountInv, [Next]_vars PROVE AccountInv'
  OBVIOUS
<1> USE DEF TypeInv, TypeOK
<1>1. CASE Rest
  <2>1. Unfinished' = Unfinished /\ BeingReleased' = BeingReleased
    BY <1>1, UnfinishedKept DEF Rest, BeingReleased
  <2> QED BY <1>1, <2>1, AccountKept DEF Rest
<1>2. CASE Selects
  <2>1. Unfinished' = Unfinished
    BY <1>2, UnfinishedKept
  <2>2. \A n : n \in BeingReleased => n \in BeingReleased'
    BY <1>2 DEF Selects, BeingReleased
  <2> QED BY <1>2, <2>1, <2>2, AccountKept DEF Selects
<1>3. ASSUME NEW p \in Process, Shift(p) PROVE AccountInv'
  <2>1. Unfinished' = Unfinished
    BY <1>3, UnfinishedKept
  <2>2. \A n : n \in BeingReleased => n \in BeingReleased'
    BY <1>3 DEF Shift, Settled, BeingReleased
  <2> QED BY <1>3, <2>1, <2>2, AccountKept DEF Shift
<1>4. ASSUME NEW p \in Process, Read(p) PROVE AccountInv'
  <2>1. Unfinished' = Unfinished
    BY <1>4, UnfinishedKept
  <2>2. \A n : n \in BeingReleased => n \in BeingReleased'
    BY <1>4 DEF Read, Advance, BeingReleased
  <2> QED BY <1>4, <2>1, <2>2, AccountKept DEF Read, database, history
<1>5. ASSUME NEW p \in Process, Delete(p) PROVE AccountInv'
  <2>1. Unfinished' = Unfinished
    BY <1>5, UnfinishedKept
  <2>2. /\ pc[p] = "delete" /\ pc' = [pc EXCEPT ![p] = "unassociate"]
        /\ callLogs' = {r \in callLogs : r.id \notin toDelete[p]}
        /\ UNCHANGED <<callLogIdOf, toDelete, purged, stranded>>
    BY <1>5 DEF Delete, Advance, history
  <2>3. toDelete[p] \cap Unfinished = {}
    BY <2>2 DEF IdInv, UnfinishedCallLogUntouched, PipelineStep
  <2>4. Ids(callLogs) \subseteq Ids(callLogs') \cup toDelete[p]
    BY <2>2 DEF Ids
  <2>5. \A n : n \in BeingReleased' <=> n \in BeingReleased \cup toDelete[p]
    BY <2>2 DEF BeingReleased
  <2>6. UnfinishedAccountedFor'
    BY <2>1, <2>2, <2>3, <2>4 DEF AccountInv, UnfinishedAccountedFor
  <2>7. AssociationAccountedFor'
    BY <2>2, <2>4, <2>5 DEF AccountInv, AssociationAccountedFor
  <2> QED BY <2>6, <2>7 DEF AccountInv
<1>6. ASSUME NEW p \in Process, Unassociate(p) \/ WipeUnassociate(p) PROVE AccountInv'
  <2>1. Unfinished' = Unfinished
    BY <1>6, UnfinishedKept
  <2>2. /\ \A q \in Process : q # p => pc'[q] = pc[q] /\ toDelete'[q] = toDelete[q]
        /\ \A c \in Cel : callLogIdOf'[c] = IF callLogIdOf[c] \in toDelete[p]
                                         THEN NULL ELSE callLogIdOf[c]
        /\ UNCHANGED <<callLogs, purged, stranded>>
    BY <1>6 DEF Unassociate, WipeUnassociate, EndWipe, End, Release, Advance, history
  <2>3. \A n : n \in BeingReleased => n \in BeingReleased' \cup toDelete[p]
    BY <2>2 DEF BeingReleased
  <2>4. UnfinishedAccountedFor'
    BY <2>1, <2>2 DEF AccountInv, UnfinishedAccountedFor
  <2>5. AssociationAccountedFor'
    BY <2>2, <2>3 DEF AccountInv, AssociationAccountedFor
  <2> QED BY <2>4, <2>5 DEF AccountInv
<1>7. ASSUME NEW p \in Process, WipeUnassociateAll(p) PROVE AccountInv'
  <2>1. Unfinished' = Unfinished
    BY <1>7, UnfinishedKept
  <2>2. /\ \A c \in Cel : callLogIdOf'[c] = NULL
        /\ UNCHANGED <<callLogs, purged, stranded>>
    BY <1>7 DEF WipeUnassociateAll, EndWipe, End, history
  <2> QED BY <2>1, <2>2 DEF AccountInv, UnfinishedAccountedFor, AssociationAccountedFor
<1>8. ASSUME NEW p \in Process, Create(p) PROVE AccountInv'
  <2>1. /\ callLogs' = callLogs \cup new'[p]
        /\ pc[p] = "create" /\ pc' = [pc EXCEPT ![p] = "associate"]
        /\ Unfinished' = Unfinished \cup Ids(new'[p])
    BY <1>8, CreatedIds DEF IdInv
  <2>2. UNCHANGED <<callLogIdOf, toDelete, purged, stranded>>
    BY <1>8 DEF Create, history
  <2>3. Ids(callLogs') = Ids(callLogs) \cup Ids(new'[p])
    BY <2>1 DEF Ids
  <2>4. \A n : n \in BeingReleased => n \in BeingReleased'
    BY <2>1, <2>2 DEF BeingReleased
  <2> QED BY <2>1, <2>2, <2>3, <2>4, AccountKept
<1>9. ASSUME NEW p \in Process, Associate(p) PROVE AccountInv'
  <2>1. /\ pc[p] = "associate" /\ pc' = [pc EXCEPT ![p] = "publish"]
        /\ callLogIdOf' = [c \in Cel |-> IdGivenTo(c, new[p])]
        /\ UNCHANGED <<callLogs, toDelete, new, purged, stranded>>
    BY <1>9 DEF Associate, Advance, history
  <2>2. Unfinished' \subseteq Unfinished /\ Ids(new[p]) \subseteq Unfinished
    BY <2>1 DEF Unfinished
  <2>3. \A c \in Cel : callLogIdOf'[c] \in {callLogIdOf[c]} \cup Ids(new[p])
    <3>1. \A r \in new[p] : r.id <= nextId
      BY <2>1 DEF NewNumbered
    <3>2. \A c \in Cel : IdGivenTo(c, new[p]) \in {callLogIdOf[c]} \cup Ids(new[p])
      BY <3>1, AssociatedIds DEF Ids
    <3> QED BY <2>1, <3>2
  <2>4. \A n : n \in BeingReleased => n \in BeingReleased'
    BY <2>1 DEF BeingReleased
  <2> QED BY <2>1, <2>2, <2>3, <2>4, AccountKept
<1>10. ASSUME NEW p \in Process, Wipe(p) PROVE AccountInv'
  <2> DEFINE deleted  == {r \in callLogs : Date(r) >= since}
             selected == IF since = 0 THEN Ids(deleted) ELSE toDelete[p]
  <2>1. Unfinished' = Unfinished
    BY <1>10, UnfinishedKept
  <2>2. /\ pc[p] = "wipe" /\ pc'[p] \in ReleasingSteps
        /\ \A q \in Process : q # p => pc'[q] = pc[q] /\ toDelete'[q] = toDelete[q]
        /\ toDelete'[p] = selected
        /\ callLogs' = callLogs \ deleted
        /\ stranded' = stranded \cup (Ids(deleted) \ selected)
                                 \cup (Ids(deleted) \cap Unfinished)
        /\ UNCHANGED <<callLogIdOf, purged>>
    BY <1>10 DEF Wipe, Advance, ReleasingSteps
  <2> HIDE DEF deleted, selected
  <2>3. Ids(callLogs) \subseteq Ids(callLogs') \cup Ids(deleted)
    BY <2>2 DEF Ids
  <2>4. \A n : n \in BeingReleased \cup selected => n \in BeingReleased'
    BY <2>2, BeingReleasedElements DEF BeingReleased, ReleasingSteps
  <2>5. UnfinishedAccountedFor'
    BY <2>1, <2>2, <2>3 DEF AccountInv, UnfinishedAccountedFor
  <2>6. AssociationAccountedFor'
    BY <2>2, <2>3, <2>4 DEF AccountInv, AssociationAccountedFor
  <2> QED BY <2>5, <2>6 DEF AccountInv
<1>11. ASSUME NEW p \in Process, EndJob(p) PROVE AccountInv'
  <2>1. /\ pc' = [pc EXCEPT ![p] = "idle"]
        /\ toDelete' = [toDelete EXCEPT ![p] = {}]
        /\ new' = [new EXCEPT ![p] = {}]
        /\ stranded' = IF pc[p] \in ReleasingSteps THEN stranded \cup toDelete[p] ELSE stranded
        /\ UNCHANGED <<callLogs, callLogIdOf, purged>>
    BY <1>11 DEF EndJob, database, ReleasingSteps
  <2>2. Unfinished' \subseteq Unfinished
    BY <2>1 DEF Unfinished
  <2>3. \A n : n \in BeingReleased => n \in BeingReleased' \cup stranded'
    BY <2>1 DEF BeingReleased, ReleasingSteps
  <2> QED BY <2>1, <2>2, <2>3, AccountKept
<1> HIDE DEF TypeInv, TypeOK
<1> QED BY StepCases, <1>1, <1>2, <1>3, <1>4, <1>5, <1>6, <1>7, <1>8, <1>9, <1>10, <1>11
        DEF JobStep

(* A CEL whose call log is gone is one that retention, a tenant's removal, *)
(* a job that was cut, or a deletion by the command accounts for: no       *)
(* interleaving of generations makes one.                                  *)
THEOREM AssociationsAreAccountedFor == Spec => []AssociationAccountedFor
<1>1. AccountInv => AssociationAccountedFor
  BY DEF AccountInv
<1> QED BY <1>1, AccountInit, AccountStep, TypeInvariant, IdInvariant, PTL DEF Spec

-----------------------------------------------------------------------------
(***************************************************************************)
(* What call logs are made of: a call log holds whole linkedids that have  *)
(* ended, and the CELs that refer to it are among those it was made from.  *)
(* At the end, that the generation implements CallBook.                    *)
(***************************************************************************)

(***************************************************************************)
(* Only reading, creating and associating can bring anything new: every    *)
(* other step takes call logs, associations and plans away, or writes a    *)
(* CEL.                                                                    *)
(***************************************************************************)
Shrinks ==
    /\ cels' = cels \/ \E c \in Cel : WriteCel(c)
    /\ callLogs' \subseteq callLogs
    /\ \A c \in Cel : callLogIdOf'[c] \in {NULL, callLogIdOf[c]}
    /\ \A p \in Process : new'[p] \subseteq new[p]
    /\ \A p \in Process : pc'[p] = "associate" => pc[p] = "associate"

LEMMA StepShrinks ==
    ASSUME TypeInv, [Next]_vars
    PROVE  Shrinks \/ \E p \in Process : Read(p) \/ Create(p) \/ Associate(p)
<1> DEFINE Goal == Shrinks \/ \E p \in Process : Read(p) \/ Create(p) \/ Associate(p)
<1> SUFFICES Goal
  OBVIOUS
<1> USE DEF TypeInv, TypeOK
<1>1. CASE Rest /\ (cels' = cels \/ \E c \in Cel : WriteCel(c))
  BY <1>1 DEF Rest, Shrinks
<1>2. CASE Selects
  BY <1>2 DEF Selects, Shrinks
<1>3. ASSUME NEW p \in Process, Shift(p) PROVE Goal
  BY <1>3 DEF Shift, Settled, Shrinks
<1>4. ASSUME NEW p \in Process, Delete(p) \/ Unassociate(p) PROVE Goal
  BY <1>4 DEF Delete, Unassociate, Release, Advance, Shrinks
<1>5. ASSUME NEW p \in Process, Wipe(p) PROVE Goal
  BY <1>5 DEF Wipe, Advance, Shrinks
<1>6. ASSUME NEW p \in Process, WipeUnassociate(p) \/ WipeUnassociateAll(p) PROVE Goal
  BY <1>6 DEF WipeUnassociate, WipeUnassociateAll, EndWipe, Release, Advance, Shrinks
<1>7. ASSUME NEW p \in Process, EndJob(p) PROVE Goal
  BY <1>7 DEF EndJob, database, Shrinks
<1> HIDE DEF TypeInv, TypeOK
<1> QED BY StepCases, <1>1, <1>2, <1>3, <1>4, <1>5, <1>6, <1>7 DEF JobStep

(* A job plans rows of the tables as they are when it reads them.          *)
LEMMA ReadPlans ==
    ASSUME TypeInv, NEW p \in Process, Read(p)
    PROVE  /\ \E T : /\ T = OfLinkedIds(cels, links[p])
                     /\ new'[p] \subseteq Batch(T)
           /\ \A q \in Process : q # p => new'[q] = new[q]
           /\ \A q \in Process : pc'[q] = "associate" => q # p /\ pc[q] = "associate"
           /\ UNCHANGED <<cels, callLogs, callLogIdOf>>
<1> DEFINE T == OfLinkedIds(cels, links[p])
<1>1. PICK yield \in SUBSET Batch(T) : new' = [new EXCEPT ![p] = yield]
  BY DEF Read
<1>2. /\ pc' = [pc EXCEPT ![p] = "delete"]
      /\ UNCHANGED <<cels, callLogs, callLogIdOf>>
  BY DEF Read, Advance, database
<1> HIDE DEF T
<1>3. /\ new'[p] \subseteq Batch(T)
      /\ \A q \in Process : q # p => new'[q] = new[q]
      /\ \A q \in Process : pc'[q] = "associate" => q # p /\ pc[q] = "associate"
  BY <1>1, <1>2 DEF TypeInv, TypeOK
<1> QED BY <1>2, <1>3 DEF T

-----------------------------------------------------------------------------
(***************************************************************************)
(* Associations.  A call log keeps its id between its creation and its     *)
(* association, and no two call logs a job makes share one.                *)
(***************************************************************************)
NewDistinct ==
    \A p \in Process : \A r, s \in new[p] : r.id = s.id => r = s

UnfinishedMatch ==
    \A p \in Process : \A r \in new[p], s \in callLogs :
        pc[p] = "associate" /\ r.id = s.id => r = s

ListedInv == NewDistinct /\ UnfinishedMatch /\ AssociatedCelIsListed

LEMMA ListedInit == Init => ListedInv
BY DEF Init, ListedInv, NewDistinct, UnfinishedMatch, AssociatedCelIsListed

LEMMA ListedStep == TypeInv /\ IdInv /\ ListedInv /\ [Next]_vars => ListedInv'
<1> SUFFICES ASSUME TypeInv, IdInv, ListedInv, [Next]_vars PROVE ListedInv'
  OBVIOUS
<1> USE DEF ListedInv
<1>0. \A r \in callLogs : 0 < r.id /\ r.id < nextId
  BY DEF IdInv, IdsGivenOut, Ids
<1>1. CASE Shrinks
  <2>1. NewDistinct' /\ UnfinishedMatch'
    BY <1>1 DEF Shrinks, NewDistinct, UnfinishedMatch
  <2>2. \A r \in callLogs : r.id # NULL
    BY <1>0 DEF NULL
  <2>3. AssociatedCelIsListed'
    BY <1>1, <2>2 DEF Shrinks, AssociatedCelIsListed
  <2> QED BY <2>1, <2>3
<1>2. ASSUME NEW p \in Process, Read(p) PROVE ListedInv'
  <2>1. PICK T : /\ T = OfLinkedIds(cels, links[p])
                 /\ new'[p] \subseteq Batch(T)
    BY <1>2, ReadPlans
  <2>2. /\ \A q \in Process : q # p => new'[q] = new[q]
        /\ \A q \in Process : pc'[q] = "associate" => q # p /\ pc[q] = "associate"
        /\ UNCHANGED <<callLogs, callLogIdOf>>
    BY <1>2, ReadPlans
  <2>3. NewDistinct'
    BY <2>1, <2>2, BatchNumberedOnce DEF NewDistinct
  <2>4. UnfinishedMatch' /\ AssociatedCelIsListed'
    BY <2>2 DEF UnfinishedMatch, AssociatedCelIsListed
  <2> QED BY <2>3, <2>4
<1>3. ASSUME NEW p \in Process, Create(p) PROVE ListedInv'
  <2>1. /\ \A n \in Ids(new'[p]) : nextId < n
        /\ callLogs' = callLogs \cup new'[p]
        /\ \A q \in Process : q # p => new'[q] = new[q]
        /\ pc' = [pc EXCEPT ![p] = "associate"]
    BY <1>3, CreatedIds DEF IdInv
  <2>2. /\ new'[p] = {[id |-> nextId + r.id, cels |-> r.cels] : r \in new[p]}
        /\ callLogIdOf' = callLogIdOf
    BY <1>3 DEF Create, TypeInv, TypeOK
  <2>3. nextId \in Nat /\ \A q \in Process : \A r \in new[q] : r.id \in Nat
    BY DEF TypeInv, TypeOK, CallLog
  <2>4. \A r, s \in new'[p] : r.id = s.id => r = s
    BY <2>2, <2>3 DEF NewDistinct
  <2>5. NewDistinct'
    BY <2>1, <2>4 DEF NewDistinct
  <2>6. /\ \A r \in new'[p] : nextId < r.id /\ r.id \in Nat
        /\ \A r \in callLogs : r.id \in Nat
    <3>1. \A r \in new'[p] : r.id \in Nat
      BY <2>2, <2>3
    <3> QED BY <2>1, <3>1 DEF Ids, TypeInv, TypeOK, CallLog
  <2>7. UnfinishedMatch'
    <3> SUFFICES ASSUME NEW q \in Process, NEW r \in new'[q], NEW s \in callLogs',
                        pc'[q] = "associate", r.id = s.id
                 PROVE  r = s
      BY DEF UnfinishedMatch
    <3>1. CASE q = p /\ s \in callLogs
      BY <3>1, <1>0, <2>3, <2>6
    <3>2. CASE q = p /\ s \in new'[p]
      BY <3>2, <2>4
    <3>3. CASE q # p
      <4>1. r \in new[q] /\ pc[q] = "associate"
        BY <3>3, <2>1 DEF TypeInv, TypeOK
      <4>2. r.id < nextId
        BY <4>1, <2>3 DEF TypeInv, NewNumbered
      <4>3. s \in callLogs
        BY <4>2, <2>1, <2>3, <2>6
      <4> QED BY <4>1, <4>3 DEF UnfinishedMatch
    <3> QED BY <2>1, <3>1, <3>2, <3>3
  <2>8. AssociatedCelIsListed'
    <3>1. \A c \in Cel : callLogIdOf[c] \in Nat /\ callLogIdOf[c] < nextId
      BY DEF IdInv, IdsGivenOut, TypeInv, TypeOK
    <3> QED BY <2>1, <2>2, <2>3, <2>6, <3>1 DEF AssociatedCelIsListed
  <2> QED BY <2>5, <2>7, <2>8
<1>4. ASSUME NEW p \in Process, Associate(p) PROVE ListedInv'
  <2>1. /\ pc[p] = "associate"
        /\ pc' = [pc EXCEPT ![p] = "publish"]
        /\ callLogIdOf' = [c \in Cel |-> IdGivenTo(c, new[p])]
        /\ UNCHANGED <<callLogs, new>>
    BY <1>4 DEF Associate, Advance
  <2>2. NewDistinct' /\ UnfinishedMatch'
    BY <2>1 DEF NewDistinct, UnfinishedMatch, TypeInv, TypeOK
  <2>3. \A c \in Cel : \/ callLogIdOf'[c] = callLogIdOf[c]
                       \/ \E r \in new[p] : c \in r.cels /\ callLogIdOf'[c] = r.id
    <3>1. new[p] \in SUBSET CallLog /\ nextId \in Nat /\ \A r \in new[p] : r.id <= nextId
      BY <2>1 DEF TypeInv, TypeOK, NewNumbered
    <3> QED BY <2>1, <3>1, AssociatedIds
  <2>4. AssociatedCelIsListed'
    BY <2>1, <2>3 DEF AssociatedCelIsListed, UnfinishedMatch
  <2> QED BY <2>2, <2>4
<1> QED BY StepShrinks, <1>1, <1>2, <1>3, <1>4

(* A CEL refers only to a call log that was made from it, whatever jobs    *)
(* ran at the same time and wherever they were cut.                        *)
THEOREM AssociatedCelsAreListed == Spec => []AssociatedCelIsListed
<1>1. ListedInv => AssociatedCelIsListed
  BY DEF ListedInv
<1> QED BY <1>1, ListedInit, ListedStep, TypeInvariant, IdInvariant, PTL DEF Spec

-----------------------------------------------------------------------------
(***************************************************************************)
(* Whole calls.  Rows that were read with the LINKEDID_END of their        *)
(* linkedid are all the rows of that linkedid for good, because Asterisk   *)
(* writes nothing of a linkedid after its end.                             *)
(***************************************************************************)
Whole(S) ==
    /\ S \subseteq cels
    /\ \A c \in S :
         /\ \A d \in cels : d.linkedid = c.linkedid => d \in S
         /\ \E d \in S : d.linkedid = c.linkedid /\ d.eventtype = "LINKEDID_END"

WrittenInOrder == \A c \in cels, d \in Cel \ cels : c.eventtime <= d.eventtime

NewAreWhole == \A p \in Process : \A r \in new[p] : Whole(r.cels)

CallLogsAreWhole == \A r \in callLogs : Whole(r.cels)

WholeInv == WrittenInOrder /\ NewAreWhole /\ CallLogsAreWhole

LEMMA WholeInit == Init => WholeInv
BY DEF Init, WholeInv, WrittenInOrder, NewAreWhole, CallLogsAreWhole

(* A CEL that is written is of no linkedid that has ended.                 *)
LEMMA WholeKept ==
    ASSUME TypeInv, WrittenInOrder, cels' = cels \/ \E c \in Cel : WriteCel(c),
           NEW S, Whole(S)
    PROVE  Whole(S)'
<1>1. CASE cels' = cels
  BY <1>1 DEF Whole
<1>2. ASSUME NEW e \in Cel, WriteCel(e) PROVE Whole(S)'
  <2>1. e \notin cels /\ cels' = cels \cup {e}
    BY <1>2 DEF WriteCel
  <2>2. \A d \in S : d.linkedid = e.linkedid => d.eventtype # "LINKEDID_END"
    <3> SUFFICES ASSUME NEW d \in S, d.linkedid = e.linkedid,
                        d.eventtype = "LINKEDID_END"
                 PROVE  FALSE
      OBVIOUS
    <3>1. d \in cels /\ d \in Cel
      BY DEF Whole, TypeInv, TypeOK
    <3>2. d.eventtime <= e.eventtime
      BY <2>1, <3>1 DEF WrittenInOrder
    <3>3. e.eventtime <= d.eventtime
      BY <3>1, LinkedIdEndIsLast
    <3>4. d.eventtime = e.eventtime
      BY <3>1, <3>2, <3>3, CelFields
    <3>5. d = e
      BY <3>1, <3>4, LinkedIdEndIsLast
    <3> QED BY <2>1, <3>1, <3>5
  <2>3. \A c \in S : c.linkedid # e.linkedid
    BY <2>2 DEF Whole
  <2> QED BY <2>1, <2>3 DEF Whole
<1> QED BY <1>1, <1>2

LEMMA OrderStep == TypeInv /\ WrittenInOrder /\ [Next]_vars => WrittenInOrder'
<1> SUFFICES ASSUME TypeInv, WrittenInOrder, [Next]_vars PROVE WrittenInOrder'
  OBVIOUS
<1>1. cels' = cels \/ \E c \in Cel : WriteCel(c)
  BY StepShrinks DEF Shrinks, Read, Create, Associate, database
<1>2. CASE cels' = cels
  BY <1>2 DEF WrittenInOrder
<1>3. ASSUME NEW e \in Cel, WriteCel(e) PROVE WrittenInOrder'
  BY <1>3 DEF WriteCel, WrittenInOrder
<1> QED BY <1>1, <1>2, <1>3

LEMMA WholeStep == TypeInv /\ WholeInv /\ [Next]_vars => WholeInv'
<1> SUFFICES ASSUME TypeInv, WholeInv, [Next]_vars PROVE WholeInv'
  OBVIOUS
<1> USE DEF WholeInv
<1>1. WrittenInOrder'
  BY OrderStep
<1>2. CASE Shrinks
  <2>1. \A S : Whole(S) => Whole(S)'
    BY <1>2, WholeKept DEF Shrinks
  <2> QED BY <1>1, <1>2, <2>1 DEF Shrinks, NewAreWhole, CallLogsAreWhole
<1>3. ASSUME NEW p \in Process, Read(p) PROVE WholeInv'
  <2>1. PICK T : /\ T = OfLinkedIds(cels, links[p])
                 /\ new'[p] \subseteq Batch(T)
    BY <1>3, ReadPlans
  <2>2. /\ \A q \in Process : q # p => new'[q] = new[q]
        /\ UNCHANGED <<cels, callLogs>>
    BY <1>3, ReadPlans
  <2>3. ASSUME NEW r \in Batch(T) PROVE Whole(r.cels)
    <3>1. /\ r.cels \subseteq T
          /\ r.cels = OfLinkedIds(T, LinkedIds(r.cels))
          /\ Terminated(r.cels)
      BY BatchElements
    <3>2. \A c \in r.cels : c \in cels /\ c.linkedid \in links[p]
      BY <2>1, <3>1 DEF OfLinkedIds
    <3>3. \A c \in r.cels : \A d \in cels : d.linkedid = c.linkedid => d \in r.cels
      BY <2>1, <3>1, <3>2 DEF OfLinkedIds, LinkedIds
    <3>4. \A c \in r.cels : \E d \in r.cels :
             d.linkedid = c.linkedid /\ d.eventtype = "LINKEDID_END"
      BY <3>1 DEF Terminated, LinkedIds
    <3> QED BY <3>2, <3>3, <3>4 DEF Whole
  <2>4. \A S : Whole(S) => Whole(S)'
    BY <2>2 DEF Whole
  <2>5. \A q \in Process : \A r \in new'[q] : Whole(r.cels)
    BY <2>1, <2>2, <2>3 DEF NewAreWhole
  <2> QED BY <1>1, <2>2, <2>4, <2>5 DEF NewAreWhole, CallLogsAreWhole
<1>4. ASSUME NEW p \in Process, Create(p) PROVE WholeInv'
  <2>1. /\ callLogs' = callLogs \cup new'[p]
        /\ cels' = cels
        /\ \A q \in Process : q # p => new'[q] = new[q]
        /\ new'[p] = {[id |-> nextId + r.id, cels |-> r.cels] : r \in new[p]}
    BY <1>4 DEF Create, TypeInv, TypeOK
  <2>2. \A S : Whole(S) => Whole(S)'
    BY <2>1 DEF Whole
  <2>3. \A q \in Process : \A r \in new'[q] : Whole(r.cels)
    BY <2>1 DEF NewAreWhole
  <2> QED BY <1>1, <2>1, <2>2, <2>3 DEF NewAreWhole, CallLogsAreWhole
<1>5. ASSUME NEW p \in Process, Associate(p) PROVE WholeInv'
  <2>1. UNCHANGED <<cels, callLogs, new>>
    BY <1>5 DEF Associate
  <2>2. \A S : Whole(S) => Whole(S)'
    BY <2>1 DEF Whole
  <2> QED BY <1>1, <2>1, <2>2 DEF NewAreWhole, CallLogsAreWhole
<1> QED BY StepShrinks, <1>2, <1>3, <1>4, <1>5

LEMMA WholeInvariant == Spec => []WholeInv
BY WholeInit, WholeStep, TypeInvariant, PTL DEF Spec

(* A call log holds all CELs of its linkedids, up to their LINKEDID_END,   *)
(* however the reading of the CELs and the writing of them interleave.     *)
THEOREM CallLogsAreWholeCalls == Spec => []CallLogIsWholeCall
<1>1. WholeInv => CallLogIsWholeCall
  BY DEF WholeInv, CallLogsAreWhole, Whole, CallLogIsWholeCall
<1> QED BY <1>1, WholeInvariant, PTL
-----------------------------------------------------------------------------
(***************************************************************************)
(* The book of calls.  A job that runs alone records each call once over:  *)
(* what it reads of a recorded call leads it to the call log, which it     *)
(* deletes before it makes another, and nobody makes one meanwhile.  Jobs  *)
(* that overlap may repeat each other, and so may the groups of a batch:   *)
(* the CELs they list are tangled.  Call logs that a cut job left          *)
(* unassociated are led to by nothing; they are halted.  The invariant     *)
(* says that neither reaches beyond its own CELs: what a job alone makes   *)
(* meets the call logs that are kept in tangled CELs at most.              *)
(***************************************************************************)
Kept == {r \in callLogs : r.id \notin halted}

Meet(r, s) == r.cels \cap s.cels \subseteq tangled

(* Two jobs at work know of each other.                                    *)
OverlapsShared == \A p, q \in Process : p # q /\ pc[p] # "idle" /\ pc[q] # "idle" => p \in shared

KeptApart == \A r, s \in Kept : r # s => Meet(r, s)

LogIdsOnce == \A r, s \in callLogs : r.id = s.id => r = s

(* What is recorded can be found from each of its untangled CELs.          *)
KeptReferredTo ==
    \A r \in Kept : r.id \notin Unfinished => \A c \in r.cels \ tangled : callLogIdOf[c] = r.id

Dated(r) == \E c \in r.cels : c.eventtype = "CHAN_START"

AllDated ==
    /\ \A r \in callLogs : Dated(r)
    /\ \A p \in Process : \A r \in new[p] : Dated(r)

(* Where a generation has come to.                                         *)
Generating(p) ==
    /\ pc[p] = "delete" /\ p \notin shared =>
           \A r \in Kept, n \in new[p] : Meet(r, n) \/ r.id \in toDelete[p]
    /\ pc[p] \in {"unassociate", "tenants", "create"} /\ p \notin shared =>
           \A r \in Kept, n \in new[p] : Meet(r, n)
    /\ pc[p] = "associate" => \A r \in Kept \cup new[p], n \in new[p] : r # n => Meet(r, n)

(* Where a job that releases CELs has come to.                             *)
Releasing(p) ==
    /\ pc[p] \in {"unassociate", "wipe_unassociate"} => toDelete[p] \cap Ids(callLogs) = {}
    /\ pc[p] \in WipeStep => p = "cli"
    /\ pc[p] = "wipe" => \A r \in callLogs : r.id \in toDelete[p] => Date(r) >= since
    /\ pc[p] = "wipe_unassociate_all" => \A r \in callLogs : r.cels \subseteq tangled

BookInv ==
    /\ OverlapsShared
    /\ KeptApart
    /\ LogIdsOnce
    /\ KeptReferredTo
    /\ AllDated
    /\ \A p \in Process : Generating(p) /\ Releasing(p)

LEMMA BookStarts == Init => BookInv
BY DEF Init, BookInv, OverlapsShared, KeptApart, LogIdsOnce, KeptReferredTo, AllDated,
       Generating, Releasing, Kept, WipeStep

(* A job that knows of no other is alone at work.                          *)
LEMMA AloneAtWork ==
    ASSUME BookInv, NEW p \in Process, pc[p] # "idle", p \notin shared
    PROVE  \A q \in Process : q # p => pc[q] = "idle"
BY DEF BookInv, OverlapsShared

(* How p may move on so that two jobs at work still know of each other.    *)
MovesOn(p, s) ==
    /\ pc' = [pc EXCEPT ![p] = s]
    /\ \/ s = "idle" /\ shared' = shared \ {p}
       \/ pc[p] # "idle" /\ shared' = shared
       \/ Begin(p)

LEMMA OverlapsStayShared ==
    ASSUME TypeInv, BookInv, NEW p \in Process, NEW s, MovesOn(p, s)
    PROVE  OverlapsShared' /\ \A q \in Process : q # p /\ q \in shared => q \in shared'
<1>1. \A q \in Process : pc'[q] = IF q = p THEN s ELSE pc[q]
  BY DEF MovesOn, TypeInv, TypeOK
<1>2. CASE s = "idle" /\ shared' = shared \ {p}
  BY <1>1, <1>2 DEF BookInv, OverlapsShared
<1>3. CASE pc[p] # "idle" /\ shared' = shared
  BY <1>1, <1>3 DEF BookInv, OverlapsShared
<1>4. CASE Begin(p)
  BY <1>1, <1>4 DEF BookInv, OverlapsShared, Begin, AtWork
<1> QED BY <1>2, <1>3, <1>4 DEF MovesOn

(* What no step disturbs that makes no call log.                           *)
LEMMA LogsKept ==
    ASSUME BookInv, callLogs' \subseteq callLogs, halted \subseteq halted', tangled' = tangled,
           \A p \in Process : \A n \in new'[p] : n \in new[p] \/ Dated(n)
    PROVE  /\ Kept' \subseteq Kept
           /\ (KeptApart /\ LogIdsOnce /\ AllDated)'
<1>1. Kept' \subseteq Kept
  BY DEF Kept
<1>2. (KeptApart /\ LogIdsOnce)'
  BY <1>1 DEF BookInv, KeptApart, LogIdsOnce, Meet
<1>3. AllDated'
  BY DEF BookInv, AllDated, Dated
<1> QED BY <1>1, <1>2, <1>3

(* What another job has come to is as before.                              *)
LEMMA OtherKeepsWorking ==
    ASSUME BookInv, NEW q \in Process,
           pc'[q] = pc[q], new'[q] = new[q], toDelete'[q] = toDelete[q],
           q \in shared => q \in shared', q = "cli" => since' = since,
           callLogs' \subseteq callLogs, halted \subseteq halted', tangled' = tangled
    PROVE  (Generating(q) /\ Releasing(q))'
<1>1. Kept' \subseteq Kept
  BY DEF Kept
<1>2. Generating(q)'
  BY <1>1 DEF BookInv, Generating, Meet
<1>3. Releasing(q)'
  BY DEF BookInv, Releasing, Ids, Date, WipeStep
<1> QED BY <1>2, <1>3

(* A job, whether alone or not, goes on to s and makes no call log.        *)
LEMMA JobKeepsBook ==
    ASSUME TypeInv, BookInv, NEW p \in Process, NEW s, MovesOn(p, s),
           callLogs' \subseteq callLogs, halted \subseteq halted', tangled' = tangled,
           \A q \in Process : q # p => new'[q] = new[q] /\ toDelete'[q] = toDelete[q],
           \A n \in new'[p] : n \in new[p] \/ Dated(n),
           p = "cli" \/ since' = since,
           (Generating(p) /\ Releasing(p))',
           \A r \in Kept' : \A c \in r.cels \ tangled :
               \/ callLogIdOf[c] = r.id
               \/ pc[p] = "associate" /\ r.id \in Ids(new[p])
               => callLogIdOf'[c] = r.id
    PROVE  BookInv'
<1>1. /\ Kept' \subseteq Kept
      /\ (KeptApart /\ LogIdsOnce /\ AllDated)'
  BY LogsKept
<1>2. OverlapsShared' /\ \A q \in Process : q # p /\ q \in shared => q \in shared'
  BY OverlapsStayShared
<1>3. \A q \in Process : q # p => pc'[q] = pc[q]
  BY DEF MovesOn, TypeInv, TypeOK
<1>4. ASSUME NEW q \in Process, q # p PROVE (Generating(q) /\ Releasing(q))'
  BY <1>2, <1>3, <1>4, OtherKeepsWorking
<1>5. KeptReferredTo'
  <2> SUFFICES ASSUME NEW r \in Kept', r.id \notin Unfinished', NEW c \in r.cels \ tangled
               PROVE  callLogIdOf'[c] = r.id
    BY DEF KeptReferredTo
  <2>1. CASE r.id \notin Unfinished
    BY <1>1, <2>1 DEF BookInv, KeptReferredTo
  <2>2. CASE r.id \in Unfinished
    <3>1. PICK q \in Process : pc[q] = "associate" /\ r.id \in Ids(new[q])
      BY <2>2 DEF Unfinished
    <3>2. q = p
      BY <1>3, <3>1 DEF Unfinished, Ids
    <3> QED BY <3>1, <3>2
  <2> QED BY <2>1, <2>2
<1> QED BY <1>1, <1>2, <1>4, <1>5 DEF BookInv

-----------------------------------------------------------------------------
(* Steps of nobody's job.                                                  *)
LEMMA RestKeepsBook ==
    ASSUME BookInv, callLogs' \subseteq callLogs,
           UNCHANGED <<callLogIdOf, pc, toDelete, new, since, halted, shared, tangled>>
    PROVE  BookInv'
<1>1. /\ Kept' \subseteq Kept
      /\ (KeptApart /\ LogIdsOnce /\ AllDated)'
  BY LogsKept
<1>2. Unfinished' = Unfinished
  BY DEF Unfinished
<1>3. OverlapsShared' /\ KeptReferredTo'
  BY <1>1, <1>2 DEF BookInv, OverlapsShared, KeptReferredTo
<1>4. ASSUME NEW p \in Process PROVE (Generating(p) /\ Releasing(p))'
  BY OtherKeepsWorking
<1> QED BY <1>1, <1>3, <1>4 DEF BookInv

LEMMA BeginKeepsBook ==
    ASSUME TypeInv, BookInv, NEW p, MayStart(p), Begin(p),
           pc' = [pc EXCEPT ![p] = "correlate"],
           UNCHANGED <<callLogs, callLogIdOf, new, toDelete, since>>
    PROVE  BookInv'
<1>1. p \in Process /\ pc[p] = "idle" /\ pc'[p] = "correlate"
  BY DEF MayStart, TypeInv, TypeOK
<1>2. (Generating(p) /\ Releasing(p))'
  BY <1>1 DEF Generating, Releasing, WipeStep
<1>3. MovesOn(p, "correlate") /\ UNCHANGED <<halted, tangled>>
  BY DEF MovesOn, Begin
<1> QED BY <1>1, <1>2, <1>3, JobKeepsBook

LEMMA MoveKeepsBook ==
    ASSUME TypeInv, BookInv, NEW p \in Process,
           Correlate(p) \/ CreateTenants(p) \/ Publish(p)
    PROVE  BookInv'
<1>1. /\ \/ Advance(p, "correlate", "read") /\ shared' = shared
         \/ Advance(p, "tenants", "create") /\ shared' = shared /\ new' = new
         \/ Advance(p, "publish", "idle") /\ shared' = shared \ {p}
      /\ UNCHANGED <<callLogs, callLogIdOf, toDelete, since, halted, tangled>>
      /\ \A q \in Process : new'[q] \subseteq new[q] /\ (q # p => new'[q] = new[q])
  BY DEF Correlate, CreateTenants, Publish, Advance, End, database, history, TypeInv, TypeOK
<1>2. /\ pc[p] # "associate" /\ Kept' = Kept
      /\ \E s \in {"read", "create", "idle"} : pc'[p] = s /\ MovesOn(p, s)
  BY <1>1 DEF Advance, Kept, MovesOn, TypeInv, TypeOK
<1>3. (Generating(p) /\ Releasing(p))'
  BY <1>1, <1>2 DEF Generating, Releasing, Meet, Advance, BookInv, WipeStep, TypeInv, TypeOK
<1> QED BY <1>1, <1>2, <1>3, JobKeepsBook

LEMMA DeleteKeepsBook ==
    ASSUME TypeInv, BookInv, NEW p \in Process, Delete(p)
    PROVE  BookInv'
<1>1. /\ pc[p] = "delete" /\ pc' = [pc EXCEPT ![p] = "unassociate"]
      /\ callLogs' = {r \in callLogs : r.id \notin toDelete[p]}
      /\ UNCHANGED <<callLogIdOf, toDelete, new, since, halted, shared, tangled>>
  BY DEF Delete, Advance, history
<1>2. /\ pc'[p] = "unassociate" /\ Kept' \subseteq Kept
      /\ MovesOn(p, "unassociate")
  BY <1>1 DEF TypeInv, TypeOK, Kept, MovesOn
<1>3. \A r \in Kept' : r.id \notin toDelete[p]
  BY <1>1 DEF Kept
<1>4. Generating(p)'
  BY <1>1, <1>2, <1>3 DEF BookInv, Generating, Meet
<1>5. Releasing(p)'
  BY <1>1, <1>2 DEF Releasing, Ids, WipeStep
<1> QED BY <1>1, <1>2, <1>4, <1>5, JobKeepsBook

(* What is released belongs to no call log that is left.                   *)
LEMMA UnassociateKeepsBook ==
    ASSUME TypeInv, BookInv, NEW p \in Process, Unassociate(p) \/ WipeUnassociate(p)
    PROVE  BookInv'
<1>1. /\ \/ pc[p] = "unassociate" /\ pc' = [pc EXCEPT ![p] = "tenants"]
            /\ UNCHANGED <<shared, since>>
         \/ pc[p] = "wipe_unassociate" /\ pc' = [pc EXCEPT ![p] = "idle"]
            /\ shared' = shared \ {p}
      /\ callLogIdOf' = [c \in Cel |-> IF callLogIdOf[c] \in toDelete[p] THEN NULL
                                       ELSE callLogIdOf[c]]
      /\ toDelete' = [toDelete EXCEPT ![p] = {}]
      /\ UNCHANGED <<callLogs, new, halted, tangled>>
  BY DEF Unassociate, WipeUnassociate, EndWipe, End, Release, Advance, history
<1>2. Kept' = Kept /\ \A r \in Kept : r.id \notin toDelete[p] /\ r.cels \subseteq Cel
  BY <1>1 DEF Kept, BookInv, Releasing, Ids, TypeInv, TypeOK, CallLog
<1>3. \A r \in Kept' : \A c \in r.cels : callLogIdOf[c] = r.id => callLogIdOf'[c] = r.id
  BY <1>1, <1>2
<1>4. /\ pc[p] # "associate" /\ (p = "cli" \/ since' = since)
      /\ \A q \in Process : q # p => new'[q] = new[q] /\ toDelete'[q] = toDelete[q]
      /\ \E s \in {"tenants", "idle"} : pc'[p] = s /\ MovesOn(p, s)
  BY <1>1 DEF BookInv, Releasing, WipeStep, MovesOn, TypeInv, TypeOK
<1>5. (Generating(p) /\ Releasing(p))'
  BY <1>1, <1>2, <1>4 DEF Generating, Releasing, Meet, BookInv, WipeStep, TypeInv, TypeOK
<1> QED BY <1>1, <1>3, <1>4, <1>5, JobKeepsBook

LEMMA WipeUnassociateAllKeepsBook ==
    ASSUME TypeInv, BookInv, NEW p \in Process, WipeUnassociateAll(p)
    PROVE  BookInv'
<1>1. /\ pc[p] = "wipe_unassociate_all" /\ pc' = [pc EXCEPT ![p] = "idle"]
      /\ toDelete' = [toDelete EXCEPT ![p] = {}]
      /\ shared' = shared \ {p}
      /\ UNCHANGED <<callLogs, new, halted, tangled>>
  BY DEF WipeUnassociateAll, EndWipe, End, Advance, history
<1>2. p = "cli" /\ \A r \in Kept' : r.cels \subseteq tangled
  BY <1>1 DEF Kept, BookInv, Releasing, WipeStep
<1>3. /\ pc'[p] = "idle" /\ MovesOn(p, "idle")
      /\ \A q \in Process : q # p => toDelete'[q] = toDelete[q]
  BY <1>1 DEF MovesOn, TypeInv, TypeOK
<1>4. (Generating(p) /\ Releasing(p))'
  BY <1>3 DEF Generating, Releasing, WipeStep
<1> QED BY <1>1, <1>2, <1>3, <1>4, JobKeepsBook

LEMMA DatesAreNatural ==
    ASSUME TypeInv, NEW r \in callLogs, Dated(r)
    PROVE  Date(r) \in Nat
<1> DEFINE dates == {c.eventtime : c \in {d \in r.cels : d.eventtype = "CHAN_START"}}
<1>1. r.cels \subseteq Cel
  BY DEF TypeInv, TypeOK, CallLog
<1>2. dates \subseteq Nat /\ dates # {}
  BY <1>1, CelFields DEF Dated
<1> HIDE DEF dates
<1>3. Smallest(dates) \in Nat
  BY <1>2, SmallestOfNaturals
<1> QED BY <1>3 DEF Date, dates

(* The command deletes the call logs it has selected, for nobody makes one *)
(* with their ids.                                                         *)
LEMMA StartDeleteKeepsBook ==
    ASSUME TypeInv, BookInv, NEW date, StartDelete(date)
    PROVE  BookInv'
<1> DEFINE p == "cli"
<1>1. p \in Process /\ pc[p] = "idle"
  BY DEF StartDelete, MayStart
<1>2. /\ pc' = [pc EXCEPT ![p] = "wipe"]
      /\ since' = date
      /\ toDelete' = [toDelete EXCEPT ![p] = Ids({r \in callLogs : Date(r) >= date})]
      /\ UNCHANGED <<callLogs, callLogIdOf, new, halted, tangled>>
      /\ Begin(p)
  BY DEF StartDelete, Begin, database, history
<1>3. /\ pc'[p] = "wipe" /\ toDelete'[p] = Ids({r \in callLogs : Date(r) >= date})
      /\ \A q \in Process : q # p => toDelete'[q] = toDelete[q]
      /\ MovesOn(p, "wipe")
  BY <1>1, <1>2 DEF TypeInv, TypeOK, MovesOn
<1>4. ASSUME NEW r \in callLogs, r.id \in toDelete'[p] PROVE Date(r) >= date
  BY <1>3, <1>4 DEF Ids, BookInv, LogIdsOnce
<1>5. (Generating(p) /\ Releasing(p))'
  BY <1>2, <1>3, <1>4 DEF Generating, Releasing, Date
<1> QED BY <1>1, <1>2, <1>3, <1>5, JobKeepsBook

LEMMA WipeKeepsBook ==
    ASSUME TypeInv, BookInv, NEW p \in Process, Wipe(p)
    PROVE  BookInv'
<1> DEFINE deleted == {r \in callLogs : Date(r) >= since}
           s == IF since = 0 THEN "wipe_unassociate_all" ELSE "wipe_unassociate"
<1>1. /\ pc[p] = "wipe"
      /\ pc' = [pc EXCEPT ![p] = s]
      /\ callLogs' = callLogs \ deleted
      /\ since # 0 => toDelete' = [toDelete EXCEPT ![p] = toDelete[p]]
      /\ \E ids : toDelete' = [toDelete EXCEPT ![p] = ids]
      /\ UNCHANGED <<callLogIdOf, new, since, halted, shared, tangled>>
  BY DEF Wipe, Advance
<1>2. /\ pc'[p] = s /\ p = "cli" /\ MovesOn(p, s)
      /\ \A q \in Process : q # p => toDelete'[q] = toDelete[q]
  BY <1>1 DEF TypeInv, TypeOK, MovesOn, BookInv, Releasing, WipeStep
<1>3. Generating(p)'
  BY <1>2 DEF Generating
<1>4. Releasing(p)'
  <2>1. CASE since = 0
    <3>1. \A r \in callLogs : Date(r) \in Nat
      BY DatesAreNatural DEF BookInv, AllDated
    <3>2. callLogs' = {}
      BY <1>1, <2>1, <3>1
    <3> QED BY <1>2, <2>1, <3>2 DEF Releasing
  <2>2. CASE since # 0
    <3>1. toDelete'[p] = toDelete[p]
      BY <1>1, <2>2 DEF TypeInv, TypeOK
    <3>2. \A r \in callLogs : r.id \in toDelete[p] => r \in deleted
      BY <1>1 DEF BookInv, Releasing
    <3>3. toDelete[p] \cap Ids(callLogs') = {}
      BY <1>1, <3>2 DEF Ids
    <3> QED BY <1>2, <2>2, <3>1, <3>3 DEF Releasing, Ids
  <2> QED BY <2>1, <2>2
<1> HIDE DEF deleted, s
<1> QED BY <1>1, <1>2, <1>3, <1>4, JobKeepsBook

(* A job that is cut leaves nothing behind but call logs set apart.        *)
LEMMA EndJobKeepsBook ==
    ASSUME TypeInv, BookInv, NEW p \in Process, EndJob(p)
    PROVE  BookInv'
<1>1. /\ pc' = [pc EXCEPT ![p] = "idle"]
      /\ new' = [new EXCEPT ![p] = {}]
      /\ toDelete' = [toDelete EXCEPT ![p] = {}]
      /\ halted' = IF pc[p] = "associate" THEN halted \cup Ids(new[p]) ELSE halted
      /\ since' = IF p = "cli" THEN 0 ELSE since
      /\ shared' = shared \ {p}
      /\ UNCHANGED <<callLogs, callLogIdOf, tangled>>
  BY DEF EndJob, database
<1>2. /\ halted \subseteq halted' /\ new'[p] = {} /\ pc'[p] = "idle" /\ MovesOn(p, "idle")
      /\ \A q \in Process : q # p => new'[q] = new[q] /\ toDelete'[q] = toDelete[q]
  BY <1>1 DEF TypeInv, TypeOK, MovesOn
<1>3. (Generating(p) /\ Releasing(p))'
  BY <1>2 DEF Generating, Releasing, WipeStep
<1>4. \A r \in Kept' : ~(pc[p] = "associate" /\ r.id \in Ids(new[p]))
  BY <1>1 DEF Kept
<1> QED BY <1>1, <1>2, <1>3, <1>4, JobKeepsBook

-----------------------------------------------------------------------------
(* The three steps that plan, make and associate call logs.                *)

(* A job alone that reads an untangled CEL of a recorded call finds its    *)
(* call log.                                                               *)
LEMMA ReadKeepsBook ==
    ASSUME TypeInv, IdInv, BookInv, NEW p \in Process, Read(p)
    PROVE  BookInv'
<1> DEFINE T == OfLinkedIds(cels, links[p])
<1>1. PICK yield \in SUBSET Batch(T) : new' = [new EXCEPT ![p] = yield]
  BY DEF Read
<1>2. /\ pc[p] = "read" /\ pc' = [pc EXCEPT ![p] = "delete"]
      /\ toDelete' = [toDelete EXCEPT ![p] = CallLogIds(T)]
      /\ UNCHANGED <<callLogs, callLogIdOf, since, halted, shared, tangled>>
  BY DEF Read, Advance, database, history
<1>3. \A r \in Batch(T) : Dated(r) /\ r.cels \subseteq T
  BY BatchElements DEF Batch, Recordable, Dated
<1>4. \A c \in T : c \in Cel /\ (callLogIdOf[c] # NULL => callLogIdOf[c] \in CallLogIds(T))
  BY DEF CallLogIds, OfLinkedIds, TypeInv, TypeOK
<1> HIDE DEF T
<1>5. /\ new'[p] \subseteq Batch(T) /\ toDelete'[p] = CallLogIds(T)
      /\ \A q \in Process : q # p => new'[q] = new[q] /\ toDelete'[q] = toDelete[q]
      /\ pc'[p] = "delete" /\ MovesOn(p, "delete")
      /\ Kept' = Kept
  BY <1>1, <1>2 DEF TypeInv, TypeOK, Kept, MovesOn
<1>6. ASSUME p \notin shared, NEW r \in Kept, NEW n \in new'[p], ~Meet(r, n)
      PROVE  r.id \in toDelete'[p]
  <2>1. PICK c \in r.cels \ tangled : c \in T
    BY <1>3, <1>5, <1>6 DEF Meet
  <2>2. r.id \notin Unfinished
    BY <1>2, <1>6, AloneAtWork DEF Unfinished
  <2>3. callLogIdOf[c] = r.id
    BY <2>2 DEF BookInv, KeptReferredTo
  <2>4. r.id # NULL
    BY DEF Kept, IdInv, IdsGivenOut, Ids, NULL
  <2> QED BY <1>4, <1>5, <2>1, <2>3, <2>4
<1>7. (Generating(p) /\ Releasing(p))'
  BY <1>2, <1>5, <1>6 DEF Generating, Releasing, Meet, WipeStep
<1> QED BY <1>2, <1>3, <1>5, <1>7, JobKeepsBook

(* What a created call log has in common with another is tangled.          *)
LEMMA CreatedMeet ==
    ASSUME TypeInv, IdInv, ListedInv, WholeInv, BookInv, NEW p \in Process, Create(p)
    PROVE  /\ callLogs' = callLogs \cup new'[p] /\ tangled \subseteq tangled'
           /\ \A n \in new'[p] : n.cels # {} /\ Dated(n) /\ Whole(n.cels)
           /\ \A n \in new'[p] : n.id \in Nat /\ nextId <= n.id
           /\ \A m, n \in new'[p] : m.id = n.id => m = n
           /\ p \in shared => \A n \in new'[p] : n.cels \subseteq tangled'
           /\ \A m, n \in new'[p] : m # n => Meet(m, n)'
           /\ \A r \in Kept, n \in new'[p] : Meet(r, n)'
           /\ p \notin shared => \A r \in Kept : r.cels \cap tangled' \subseteq tangled
<1> DEFINE made(n) == [id |-> nextId + n.id, cels |-> n.cels]
<1>1. /\ pc[p] = "create"
      /\ new' = [new EXCEPT ![p] = {made(n) : n \in new[p]}]
      /\ callLogs' = callLogs \cup {made(n) : n \in new[p]}
      /\ tangled' = tangled \cup Tangles(p)
  BY DEF Create, Advance
<1>2. new'[p] = {made(n) : n \in new[p]}
  BY <1>1 DEF TypeInv, TypeOK
<1>3. \A n \in new[p] : /\ n.id \in Nat /\ n.cels # {} /\ n.cels \subseteq cels
                       /\ Dated(n) /\ Whole(n.cels)
  BY DEF TypeInv, TypeOK, CallLog, NewNotEmpty, BookInv, AllDated, WholeInv, NewAreWhole, Whole
<1>4. \A m, n \in new[p] : m.id = n.id => m = n
  BY DEF ListedInv, NewDistinct
<1>5. nextId \in Nat
  BY DEF TypeInv, TypeOK
<1>6. p \in shared => \A n \in new[p] : n.cels \subseteq tangled'
  BY <1>1, <1>3 DEF Tangles
<1>7. \A m, n \in new[p] : m # n => m.cels \cap n.cels \subseteq tangled'
  BY <1>1, <1>3 DEF Tangles
<1>8. \A r \in Kept, n \in new[p] : r.cels \cap n.cels \subseteq tangled'
  BY <1>1, <1>6 DEF BookInv, Generating, Meet
<1>9. p \notin shared => \A r \in Kept : r.cels \cap tangled' \subseteq tangled
  BY <1>1 DEF BookInv, Generating, Meet, Tangles
<1>10. \A n \in new[p] : made(n).id = nextId + n.id /\ made(n).cels = n.cels
  OBVIOUS
<1>11. \A n \in new[p] : made(n).id \in Nat /\ nextId <= made(n).id
  BY <1>3, <1>5, <1>10
<1>12. \A m, n \in new[p] : made(m).id = made(n).id => made(m) = made(n)
  BY <1>3, <1>4, <1>5, <1>10
<1>13. \A n \in new[p] : Dated(n) => Dated(made(n))
  BY <1>10 DEF Dated
<1> HIDE DEF made
<1>14. \A n \in new'[p] : n.cels # {} /\ Dated(n) /\ Whole(n.cels)
  BY <1>2, <1>3, <1>10, <1>13
<1>15. /\ p \in shared => \A n \in new'[p] : n.cels \subseteq tangled'
       /\ \A m, n \in new'[p] : m # n => m.cels \cap n.cels \subseteq tangled'
       /\ \A r \in Kept, n \in new'[p] : r.cels \cap n.cels \subseteq tangled'
  BY <1>2, <1>6, <1>7, <1>8, <1>10
<1> QED BY <1>1, <1>2, <1>9, <1>11, <1>12, <1>14, <1>15 DEF Meet

LEMMA CreateKeepsBook ==
    ASSUME TypeInv, IdInv, ListedInv, WholeInv, BookInv, NEW p \in Process, Create(p)
    PROVE  BookInv'
<1>1. /\ pc[p] = "create" /\ pc' = [pc EXCEPT ![p] = "associate"]
      /\ UNCHANGED <<callLogIdOf, toDelete, since, halted, shared>>
      /\ \A q \in Process : q # p => new'[q] = new[q] /\ pc'[q] = pc[q]
      /\ pc'[p] = "associate" /\ MovesOn(p, "associate")
  BY DEF Create, Advance, MovesOn, TypeInv, TypeOK
<1>2. /\ callLogs' = callLogs \cup new'[p] /\ tangled \subseteq tangled'
      /\ \A n \in new'[p] : Dated(n)
      /\ \A n \in new'[p] : n.id \in Nat /\ nextId <= n.id
      /\ \A m, n \in new'[p] : m.id = n.id => m = n
  BY CreatedMeet
<1>3. /\ p \in shared => \A n \in new'[p] : n.cels \subseteq tangled'
      /\ \A m, n \in new'[p] : m # n => Meet(m, n)'
      /\ \A r \in Kept, n \in new'[p] : Meet(r, n)'
  BY CreatedMeet
<1>4. /\ nextId \in Nat
      /\ \A r \in callLogs : r.id \in Nat /\ r.id < nextId
      /\ \A q \in Process : \A i \in toDelete[q] : i \in Nat /\ i < nextId
  BY DEF TypeInv, TypeOK, CallLog, IdInv, IdsGivenOut, Ids
<1>5. \A n \in new'[p] : \A q \in Process : n.id \notin toDelete'[q]
  BY <1>1, <1>2, <1>4
<1>6. \A r \in callLogs, n \in new'[p] : r.id # n.id
  BY <1>2, <1>4
<1>7. Kept \subseteq Kept' /\ Kept' \subseteq Kept \cup new'[p]
  BY <1>1, <1>2 DEF Kept
<1>8. KeptApart'
  BY <1>2, <1>3, <1>7 DEF BookInv, KeptApart, Meet
<1>9. LogIdsOnce'
  BY <1>2, <1>6 DEF BookInv, LogIdsOnce
<1>10. AllDated'
  BY <1>1, <1>2 DEF BookInv, AllDated, Dated
<1>11. KeptReferredTo'
  <2>1. \A n \in new'[p] : n.id \in Unfinished'
    BY <1>1 DEF Unfinished, Ids
  <2>2. Unfinished \subseteq Unfinished'
    BY <1>1 DEF Unfinished, Ids
  <2> QED BY <1>1, <1>2, <1>7, <2>1, <2>2 DEF BookInv, KeptReferredTo
<1>12. ASSUME NEW q \in Process, q # p PROVE (Generating(q) /\ Releasing(q))'
  <2>1. CASE pc[q] = "idle"
    BY <1>1, <1>12, <2>1 DEF Generating, Releasing, WipeStep
  <2>2. CASE pc[q] # "idle"
    <3>1. /\ q \in shared /\ q \in shared'
          /\ \A n \in new'[p] : n.cels \subseteq tangled'
      BY <1>1, <1>3, <1>12, <2>2 DEF BookInv, OverlapsShared
    <3>2. Generating(q)'
      BY <1>1, <1>2, <1>7, <1>12, <3>1 DEF BookInv, Generating, Meet
    <3>3. Releasing(q)'
      BY <1>1, <1>2, <1>5, <1>12, <3>1 DEF BookInv, Releasing, Ids, Date, WipeStep
    <3> QED BY <3>2, <3>3
  <2> QED BY <2>1, <2>2
<1>13. Generating(p)'
  BY <1>1, <1>3, <1>7 DEF Generating, Meet
<1>14. Releasing(p)'
  BY <1>1 DEF Releasing, WipeStep
<1>15. OverlapsShared'
  BY <1>1, OverlapsStayShared
<1> QED BY <1>8, <1>9, <1>10, <1>11, <1>12, <1>13, <1>14, <1>15 DEF BookInv

(* The untangled CELs of a call log are given its id, for no other call    *)
(* log of the batch lists them.                                            *)
LEMMA AssociateKeepsBook ==
    ASSUME TypeInv, ListedInv, BookInv, NEW p \in Process, Associate(p)
    PROVE  BookInv'
<1>1. /\ pc[p] = "associate" /\ pc' = [pc EXCEPT ![p] = "publish"]
      /\ callLogIdOf' = [c \in Cel |-> IdGivenTo(c, new[p])]
      /\ UNCHANGED <<callLogs, new, toDelete, since, halted, shared, tangled>>
      /\ pc'[p] = "publish" /\ MovesOn(p, "publish")
  BY DEF Associate, Advance, MovesOn, history, TypeInv, TypeOK
<1>2. Kept' = Kept /\ \A r \in Kept : r \in callLogs /\ r.cels \subseteq Cel /\ r.id \in Nat
  BY <1>1 DEF Kept, TypeInv, TypeOK, CallLog
<1>3. \A r \in Kept, n \in new[p] : r # n => Meet(r, n)
  BY <1>1 DEF BookInv, Generating
<1>4. ASSUME NEW r \in Kept, r.id \in Ids(new[p]), NEW c \in r.cels \ tangled
      PROVE  callLogIdOf'[c] = r.id
  <2>1. r \in new[p]
    BY <1>1, <1>2, <1>4 DEF Ids, ListedInv, UnfinishedMatch
  <2>2. \A n \in new[p] : c \in n.cels => n = r
    BY <1>3 DEF Meet
  <2>3. Ids({n \in new[p] : c \in n.cels}) = {r.id}
    BY <2>1, <2>2 DEF Ids
  <2>4. Largest({r.id}) = r.id
    BY <1>2, LargestOfBounded
  <2> QED BY <1>1, <1>2, <2>3, <2>4 DEF IdGivenTo
<1>5. ASSUME NEW r \in Kept, r.id \notin Ids(new[p]), NEW c \in r.cels \ tangled,
             callLogIdOf[c] = r.id
      PROVE  callLogIdOf'[c] = r.id
  <2>1. \A n \in new[p] : c \notin n.cels
    BY <1>3, <1>5 DEF Meet, Ids
  <2>2. Ids({n \in new[p] : c \in n.cels}) = {}
    BY <2>1 DEF Ids
  <2> QED BY <1>1, <1>2, <1>5, <2>2 DEF IdGivenTo
<1>6. (Generating(p) /\ Releasing(p))'
  BY <1>1 DEF Generating, Releasing, WipeStep
<1> QED BY <1>1, <1>2, <1>4, <1>5, <1>6, JobKeepsBook

LEMMA BookStep ==
    ASSUME TypeInv, IdInv, ListedInv, WholeInv, BookInv, [Next]_vars
    PROVE  BookInv'
<1> USE DEF database, job, history
<1>1. ASSUME NEW c \in Cel, WriteCel(c) PROVE BookInv'
  BY <1>1, RestKeepsBook DEF WriteCel
<1>2. ASSUME NEW t \in Tenant, AuthDeletesTenant(t) PROVE BookInv'
  BY <1>2, RestKeepsBook DEF AuthDeletesTenant
<1>3. ASSUME NEW removed, RemoveTenants(removed) PROVE BookInv'
  BY <1>3, RestKeepsBook DEF RemoveTenants
<1>4. ASSUME NEW t \in Tenant, NEW date \in PurgeBefore, PurgeCallLogs(t, date) PROVE BookInv'
  BY <1>4, RestKeepsBook DEF PurgeCallLogs
<1>5. CASE UNCHANGED vars
  BY <1>5, RestKeepsBook DEF vars
<1>6. ASSUME NEW p, NEW base, MayStart(p), Generate(p, base) PROVE BookInv'
  BY <1>6, BeginKeepsBook DEF Generate
<1>7. CASE \/ HandleLinkedIdEnd \/ GenerateFromCount
           \/ \E date \in GenerateSince : GenerateFromDays(date)
  BY <1>6, <1>7 DEF HandleLinkedIdEnd, GenerateFromCount, GenerateFromDays
<1>8. CASE HandleTenantDeleted \/ SyncDb
  BY <1>3, <1>8 DEF HandleTenantDeleted, SyncDb
<1>9. CASE \E date \in DeleteSince : StartDelete(date)
  BY <1>9, StartDeleteKeepsBook
<1>10. ASSUME NEW p \in Process, PipelineNext(p) PROVE BookInv'
  BY <1>10, MoveKeepsBook, ReadKeepsBook, DeleteKeepsBook, UnassociateKeepsBook, CreateKeepsBook,
     EndJobKeepsBook, AssociateKeepsBook
  DEF PipelineNext, CreateFails
<1>11. ASSUME NEW p \in Process, WipeNext(p) PROVE BookInv'
  BY <1>11, WipeKeepsBook, UnassociateKeepsBook, WipeUnassociateAllKeepsBook DEF WipeNext
<1>12. ASSUME NEW p \in Process, Abort(p) PROVE BookInv'
  BY <1>12, EndJobKeepsBook DEF Abort
<1>13. CASE Restart
  BY <1>13, EndJobKeepsBook DEF Restart
<1> QED BY <1>1, <1>2, <1>4, <1>5, <1>7, <1>8, <1>9, <1>10, <1>11, <1>12, <1>13 DEF Next

LEMMA BookInvariant == Spec => []BookInv
<1>1. TypeInv /\ IdInv /\ ListedInv /\ WholeInv /\ BookInv /\ [Next]_vars => BookInv'
  BY BookStep
<1> QED BY <1>1, BookStarts, TypeInvariant, IdInvariant, ListedInit, ListedStep, WholeInvariant, PTL
        DEF Spec

(* No CEL is in two call logs but those of call logs that a cut job left   *)
(* unassociated and those that a job beside another, or a batch with       *)
(* overlapping groups, recorded: writer.py deletes before it creates,      *)
(* whatever fails and is deleted meanwhile.                                *)
THEOREM CallsAreRecordedOnce == Spec => []OneCallLogPerCall
<1>1. BookInv => OneCallLogPerCall
  BY DEF BookInv, KeptApart, Kept, Meet, OneCallLogPerCall
<1> QED BY <1>1, BookInvariant, PTL

-----------------------------------------------------------------------------
(***************************************************************************)
(* The refinement.                                                         *)
(***************************************************************************)
LEMMA HistoryGrows ==
    ASSUME TypeInv, [Next]_vars
    PROVE  halted \subseteq halted' /\ tangled \subseteq tangled'
<1> DEFINE Goal == halted \subseteq halted' /\ tangled \subseteq tangled'
<1> SUFFICES Goal
  OBVIOUS
<1> USE DEF database, job, history
<1>1. CASE \/ \E c \in Cel : WriteCel(c)
           \/ \E t \in Tenant : AuthDeletesTenant(t)
           \/ \E t \in Tenant, date \in PurgeBefore : PurgeCallLogs(t, date)
           \/ HandleTenantDeleted \/ SyncDb \/ UNCHANGED vars
  BY <1>1 DEF WriteCel, AuthDeletesTenant, PurgeCallLogs, HandleTenantDeleted, SyncDb,
              RemoveTenants, vars
<1>2. CASE \/ HandleLinkedIdEnd \/ GenerateFromCount
           \/ \E date \in GenerateSince : GenerateFromDays(date)
           \/ \E date \in DeleteSince : StartDelete(date)
  BY <1>2 DEF HandleLinkedIdEnd, GenerateFromCount, GenerateFromDays, StartDelete, Generate, Begin
<1>3. ASSUME NEW p, EndJob(p) PROVE Goal
  BY <1>3 DEF EndJob
<1>4. ASSUME NEW p \in Process, PipelineNext(p) PROVE Goal
  <2>1. CASE Correlate(p) \/ Read(p) \/ Delete(p) \/ Unassociate(p)
    BY <2>1 DEF Correlate, Read, Delete, Unassociate
  <2>2. CASE CreateTenants(p) \/ Create(p) \/ Associate(p) \/ Publish(p)
    BY <2>2 DEF CreateTenants, Create, Associate, Publish, End
  <2> QED BY <1>3, <1>4, <2>1, <2>2 DEF PipelineNext, CreateFails
<1>5. ASSUME NEW p \in Process, WipeNext(p) PROVE Goal
  BY <1>5 DEF WipeNext, Wipe, WipeUnassociate, WipeUnassociateAll, EndWipe, End
<1> QED BY <1>1, <1>2, <1>3, <1>4, <1>5 DEF Next, Abort, Restart

(* The entries of the book.                                                *)
Untangled(r) == r.id \notin halted /\ r.cels \cap tangled = {}

Entries == {r.cels : r \in {s \in callLogs : Untangled(s)}}

(* Beside another job, nothing that is created is an entry.                *)
LEMMA SharedCreateEntersNothing ==
    ASSUME TypeInv, IdInv, ListedInv, WholeInv, BookInv, NEW p \in Process, Create(p), p \in shared
    PROVE  cels' = cels /\ Entries' \subseteq Entries
<1>1. /\ callLogs' = callLogs \cup new'[p] /\ tangled \subseteq tangled'
      /\ \A n \in new'[p] : n.cels # {} /\ n.cels \subseteq tangled'
  BY CreatedMeet
<1>2. cels' = cels /\ halted' = halted
  BY DEF Create
<1>3. \A r \in callLogs' : Untangled(r)' => r \in callLogs /\ Untangled(r)
  BY <1>1, <1>2 DEF Untangled
<1> QED BY <1>2, <1>3 DEF Entries

LEMMA CreateEnters ==
    ASSUME TypeInv, IdInv, ListedInv, WholeInv, BookInv, NEW p \in Process, Create(p),
           p \notin shared
    PROVE  /\ cels' = cels /\ Entries \subseteq Entries'
           /\ \A call \in Entries' \ Entries :
                  /\ call # {} /\ call = OfLinkedIds(cels, LinkedIds(call)) /\ Terminated(call)
                  /\ \A other \in Entries' \ {call} : call \cap other = {}
<1>1. /\ callLogs' = callLogs \cup new'[p] /\ tangled \subseteq tangled'
      /\ \A n \in new'[p] : n.cels # {} /\ Whole(n.cels)
      /\ \A r \in Kept : r.cels \cap tangled' \subseteq tangled
  BY CreatedMeet
<1>2. cels' = cels /\ halted' = halted
  BY DEF Create
<1>3. Entries \subseteq Entries'
  BY <1>1, <1>2 DEF Entries, Untangled, Kept
<1>4. KeptApart'
  BY CreateKeepsBook DEF BookInv
<1>5. ASSUME NEW call \in Entries' \ Entries
      PROVE  /\ call # {} /\ call = OfLinkedIds(cels, LinkedIds(call)) /\ Terminated(call)
             /\ \A other \in Entries' \ {call} : call \cap other = {}
  <2>1. PICK n \in callLogs' : n.cels = call /\ Untangled(n)'
    BY DEF Entries
  <2>2. n \in new'[p]
    <3>1. n \in callLogs => Untangled(n)
      BY <1>1, <1>2, <2>1 DEF Untangled
    <3> QED BY <1>1, <2>1, <3>1 DEF Entries
  <2>3. Whole(call) /\ call # {}
    BY <1>1, <2>1, <2>2
  <2>4. call = OfLinkedIds(cels, LinkedIds(call))
    BY <2>3 DEF Whole, OfLinkedIds, LinkedIds
  <2>5. Terminated(call)
    BY <2>3 DEF Whole, Terminated, LinkedIds
  <2>6. ASSUME NEW other \in Entries' \ {call} PROVE call \cap other = {}
    <3>1. PICK r \in callLogs' : r.cels = other /\ Untangled(r)'
      BY <2>6 DEF Entries
    <3>2. r \in Kept' /\ n \in Kept' /\ r # n
      BY <2>1, <2>6, <3>1 DEF Kept, Untangled
    <3>3. n.cels \cap r.cels \subseteq tangled'
      BY <1>4, <3>2 DEF KeptApart, Meet
    <3>4. n.cels \cap tangled' = {}
      BY <2>1 DEF Untangled
    <3> QED BY <2>1, <3>1, <3>3, <3>4
  <2> QED BY <2>3, <2>4, <2>5, <2>6
<1> QED BY <1>2, <1>3, <1>5

LEMMA StepRefines ==
    ASSUME TypeInv, IdInv, ListedInv, WholeInv, BookInv, [Next]_vars
    PROVE  [Book!Next]_(Book!vars)
<1>1. ASSUME NEW c \in Cel, WriteCel(c) PROVE Book!Next
  <2>1. Entries' = Entries
    BY <1>1 DEF WriteCel, Entries, Untangled, database, history
  <2>2. Book!Write(c)
    BY <1>1, <2>1 DEF WriteCel, Book!Write, Entries, Untangled
  <2> QED BY <2>2 DEF Book!Next
<1>2. CASE cels' = cels /\ Entries' \subseteq Entries
  <2>1. CASE Entries' = Entries
    BY <1>2, <2>1 DEF Book!vars, Entries, Untangled
  <2>2. CASE Entries' # Entries
    <3>1. Book!StrikeOut(Entries \ Entries')
      BY <1>2, <2>2 DEF Book!StrikeOut, Entries, Untangled
    <3> QED BY <3>1 DEF Book!Next, Entries, Untangled
  <2> QED BY <2>1, <2>2
<1>3. ASSUME NEW p \in Process, Create(p), p \notin shared PROVE [Book!Next]_(Book!vars)
  <2>1. /\ cels' = cels /\ Entries \subseteq Entries'
        /\ \A call \in Entries' \ Entries :
               /\ call # {} /\ call = OfLinkedIds(cels, LinkedIds(call)) /\ Terminated(call)
               /\ \A other \in Entries' \ {call} : call \cap other = {}
    BY <1>3, CreateEnters
  <2>2. CASE Entries' = Entries
    BY <2>1, <2>2 DEF Book!vars, Entries, Untangled
  <2>3. CASE Entries' # Entries
    <3>1. Book!Enter(Entries' \ Entries)
      BY <2>1, <2>3
      DEF Book!Enter, Book!Over, Book!OfLinkedIds, Book!LinkedIds, Book!Terminated, OfLinkedIds,
          LinkedIds, Terminated, Entries, Untangled
    <3> QED BY <3>1 DEF Book!Next, Entries, Untangled
  <2> QED BY <2>2, <2>3
<1>4. ASSUME NEW p \in Process, Create(p) PROVE [Book!Next]_(Book!vars)
  BY <1>2, <1>3, <1>4, SharedCreateEntersNothing
<1>5. CASE cels' = cels /\ callLogs' \subseteq callLogs
  <2>1. Entries' \subseteq Entries
    BY <1>5, HistoryGrows DEF Entries, Untangled
  <2> QED BY <1>2, <1>5, <2>1
<1>6. \A p \in Process : Read(p) \/ Associate(p) => cels' = cels /\ callLogs' \subseteq callLogs
  BY DEF Read, Associate, database
<1> QED BY <1>1, <1>4, <1>5, <1>6, StepShrinks DEF Shrinks

(* The generation is a book of calls: each transaction of a job enters     *)
(* calls that are whole, over and apart from all others, strikes calls     *)
(* out, or leaves the book as it is.                                       *)
THEOREM GenerationImplementsCallBook == Spec => ImplementsCallBook
<1>1. Init => Book!Init
  BY DEF Init, Book!Init
<1>2. TypeInv /\ IdInv /\ ListedInv /\ WholeInv /\ BookInv /\ [Next]_vars =>
          [Book!Next]_(Book!vars)
  BY StepRefines
<1> QED BY <1>1, <1>2, TypeInvariant, IdInvariant, ListedInit, ListedStep, WholeInvariant,
           BookInvariant, PTL
        DEF Spec, ImplementsCallBook, Book!Spec

=============================================================================
