------------------------ MODULE RetentionSettingsProofs ------------------------
(***************************************************************************)
(* What the changes of settings preserve, for any tenants and requests and *)
(* any number of requests in flight; the modules that compose the settings *)
(* with what they decide about use it step by step.                        *)
(***************************************************************************)
EXTENDS RetentionSettings, TLAPS

SettingsSpec == SettingsInit /\ [][SettingsNext]_settings

-----------------------------------------------------------------------------
(***************************************************************************)
(* A PUT that no other change has overtaken still sees in the row of its   *)
(* tenant what it has read.                                                *)
(***************************************************************************)
Putting == [tenant : {{t} : t \in Tenant}, want : Request, seen : Settings]

SettingsShape ==
    /\ tenants \subseteq Tenant
    /\ DOMAIN retention \subseteq tenants
    /\ retention = [t \in DOMAIN retention |-> retention[t]]
    /\ \A t \in DOMAIN retention : retention[t] \in Settings
    /\ config \in [Kind -> Nat]
    /\ puts \in [Put -> Putting \cup {NoPut}]
    /\ promised \in [Tenant -> SUBSET Settings]

PutsSeeTheirRow ==
    \A p \in Put \ overtaken, t \in Tenant :
        puts[p].tenant = {t} => t \in DOMAIN retention /\ puts[p].seen = retention[t]

SettingsInv == SettingsShape /\ PutsSeeTheirRow /\ PromisedSettingsInForce

LEMMA OwnDaysTyped ==
    ASSUME SettingsShape, NEW t
    PROVE  OwnDays(t) \in Settings
BY DEF SettingsShape, OwnDays, Settings, Unset

(* The four changes of settings, and none.                                 *)
LEMMA FindsOrCreatesKeeps ==
    ASSUME SettingsInv, NEW p \in Put, NEW t \in Tenant, NEW want \in Request,
           PutFindsOrCreates(p, t, want)
    PROVE  SettingsInv'
<1>1. OwnDays(t) \in Settings /\ want \in Settings
  BY OwnDaysTyped, RetentionAssumption DEF SettingsInv
<1> DEFINE put == [tenant |-> {t}, want |-> want, seen |-> OwnDays(t)]
<1>2. put \in Putting /\ put # NoPut
  BY <1>1 DEF Putting, NoPut
<1>3. puts' = [puts EXCEPT ![p] = put] /\ puts[p] = NoPut
  BY DEF PutFindsOrCreates
<1>4. \A u \in DOMAIN retention' : retention'[u] = OwnDays(u)
  BY DEF PutFindsOrCreates
<1>5. DOMAIN retention' = DOMAIN retention \cup {t}
  BY DEF PutFindsOrCreates
<1>6. SettingsShape'
  <2>1. /\ tenants' \subseteq Tenant
        /\ DOMAIN retention' \subseteq tenants'
        /\ retention' = [u \in DOMAIN retention' |-> retention'[u]]
        /\ config' \in [Kind -> Nat]
        /\ promised' \in [Tenant -> SUBSET Settings]
    BY <1>5 DEF PutFindsOrCreates, SettingsInv, SettingsShape
  <2>2. \A u \in DOMAIN retention' : retention'[u] \in Settings
    BY <1>4, OwnDaysTyped DEF SettingsInv
  <2>3. puts' \in [Put -> Putting \cup {NoPut}]
    BY <1>2, <1>3 DEF SettingsInv, SettingsShape
  <2> QED BY <2>1, <2>2, <2>3 DEF SettingsShape
<1>7. \A u \in DOMAIN retention : u \in DOMAIN retention' /\ retention'[u] = retention[u]
  BY <1>4, <1>5 DEF OwnDays
<1>8. overtaken' = overtaken /\ promised' = promised
  BY DEF PutFindsOrCreates
<1>9. PutsSeeTheirRow'
  <2> SUFFICES ASSUME NEW q \in Put \ overtaken, NEW u \in Tenant, puts'[q].tenant = {u}
               PROVE  u \in DOMAIN retention' /\ puts'[q].seen = retention'[u]
    BY <1>8 DEF PutsSeeTheirRow
  <2>1. puts \in [Put -> Putting \cup {NoPut}] /\ PutsSeeTheirRow
    BY DEF SettingsInv, SettingsShape
  <2>2. CASE q = p
    <3>1. puts'[q] = put /\ u = t
      BY <1>3, <2>1, <2>2
    <3> QED BY <1>4, <1>5, <3>1
  <2>3. CASE q # p
    <3>1. puts'[q] = puts[q]
      BY <1>3, <2>1, <2>3
    <3> QED BY <1>7, <2>1, <3>1 DEF PutsSeeTheirRow
  <2> QED BY <2>2, <2>3
<1>10. PromisedSettingsInForce'
  BY <1>7, <1>8 DEF SettingsInv, PromisedSettingsInForce
<1> QED BY <1>6, <1>9, <1>10 DEF SettingsInv

(* The row becomes what the PUT asks for when it is what the PUT has seen, *)
(* and else keeps, in each column, what was in force or what it asks for.  *)
LEMMA UpdateKeeps ==
    ASSUME SettingsInv, NEW p \in Put, PutUpdates(p)
    PROVE  SettingsInv'
<1>1. puts \in [Put -> Putting \cup {NoPut}] /\ puts[p] # NoPut /\ puts[p] \in Putting
  BY DEF PutUpdates, SettingsInv, SettingsShape
<1>2. PICK t \in Tenant : puts[p].tenant = {t}
  BY <1>1 DEF Putting
<1>3. puts[p].want \in Settings /\ puts[p].seen \in Settings
  BY <1>1, RetentionAssumption DEF Putting
<1> DEFINE written(u) == [k \in Kind |-> IF puts[p].want[k] # puts[p].seen[k]
                                         THEN puts[p].want[k] ELSE retention[u][k]]
           told(u) == IF p \notin overtaken THEN {puts[p].want}
                      ELSE IF promised[u] = {} THEN {} ELSE promised[u] \cup {puts[p].want}
           rows == {u \in DOMAIN retention : puts[p].tenant = {u}}
<1>4. /\ retention' = [u \in DOMAIN retention |-> IF u = t THEN written(u) ELSE retention[u]]
      /\ puts' = [puts EXCEPT ![p] = NoPut]
  BY <1>2 DEF PutUpdates, AnswerPut
<1>5. /\ rows \subseteq {t} /\ (t \in DOMAIN retention => t \in rows)
      /\ promised' = [u \in Tenant |-> IF u \in rows THEN told(u) ELSE promised[u]]
      /\ overtaken' = (overtaken \cup UNION {InFlight(u) : u \in rows}) \ {p}
  BY <1>2 DEF PutUpdates, AnswerPut
<1>6. SettingsShape'
  <2>1. \A u \in DOMAIN retention : written(u) \in Settings
    BY <1>3 DEF Settings, SettingsInv, SettingsShape
  <2>2. \A u \in DOMAIN retention' : retention'[u] \in Settings
    BY <1>4, <2>1 DEF SettingsInv, SettingsShape
  <2>3. \A u \in Tenant : told(u) \subseteq Settings /\ promised[u] \subseteq Settings
    BY <1>3 DEF SettingsInv, SettingsShape
  <2> HIDE DEF written, told, rows
  <2>4. puts' \in [Put -> Putting \cup {NoPut}]
    BY <1>1, <1>4
  <2>5. /\ DOMAIN retention' = DOMAIN retention
        /\ retention' = [u \in DOMAIN retention' |-> retention'[u]]
    BY <1>4
  <2>6. tenants' = tenants /\ config' = config
    BY DEF PutUpdates
  <2>7. promised' \in [Tenant -> SUBSET Settings]
    BY <1>5, <2>3
  <2> QED BY <2>2, <2>4, <2>5, <2>6, <2>7 DEF SettingsShape, SettingsInv
<1>7. PutsSeeTheirRow'
  <2> SUFFICES ASSUME NEW q \in Put \ overtaken', NEW u \in Tenant, puts'[q].tenant = {u}
               PROVE  u \in DOMAIN retention' /\ puts'[q].seen = retention'[u]
    BY DEF PutsSeeTheirRow
  <2>1. q # p /\ puts'[q] = puts[q]
    BY <1>1, <1>4 DEF NoPut
  <2>2. q \notin overtaken
    BY <1>5, <2>1
  <2>3. u \in DOMAIN retention /\ puts[q].seen = retention[u]
    BY <2>1, <2>2 DEF SettingsInv, PutsSeeTheirRow
  <2>4. u # t
    <3>1. u = t => u \in rows /\ q \in InFlight(u)
      BY <1>5, <2>1, <2>3 DEF InFlight
    <3> HIDE DEF rows
    <3> QED BY <1>5, <2>1, <3>1
  <2> HIDE DEF written
  <2> QED BY <1>4, <2>1, <2>3, <2>4
<1>8. PromisedSettingsInForce'
  <2> SUFFICES ASSUME NEW u \in Tenant, promised'[u] # {}
               PROVE  /\ u \in DOMAIN retention'
                      /\ \A k \in Kind : retention'[u][k] \in {s[k] : s \in promised'[u]}
    BY DEF PromisedSettingsInForce
  <2>1. CASE u \notin rows
    <3>1. promised'[u] = promised[u]
      BY <1>5, <2>1
    <3>2. u \in DOMAIN retention
      BY <3>1 DEF SettingsInv, PromisedSettingsInForce
    <3>3. u # t
      BY <1>5, <2>1, <3>2
    <3>4. u \in DOMAIN retention' /\ retention'[u] = retention[u]
      <4> HIDE DEF written
      <4> QED BY <1>4, <3>2, <3>3
    <3> QED BY <3>1, <3>4 DEF SettingsInv, PromisedSettingsInForce
  <2>2. CASE u \in rows
    <3>1. u = t /\ u \in DOMAIN retention /\ promised'[u] = told(u)
      BY <1>5, <2>2
    <3>2. u \in DOMAIN retention' /\ retention'[u] = written(u)
      <4> HIDE DEF written
      <4> QED BY <1>4, <3>1
    <3>3. CASE p \notin overtaken
      <4>1. puts[p].seen = retention[u]
        BY <1>2, <3>1, <3>3 DEF SettingsInv, PutsSeeTheirRow
      <4>2. \A k \in Kind : written(u)[k] = puts[p].want[k]
        BY <4>1
      <4>3. told(u) = {puts[p].want}
        BY <3>3
      <4> QED BY <3>1, <3>2, <4>2, <4>3
    <3>4. CASE p \in overtaken
      <4>1. promised[u] # {} /\ told(u) = promised[u] \cup {puts[p].want}
        BY <3>1, <3>4
      <4>2. \A k \in Kind : retention[u][k] \in {s[k] : s \in promised[u]}
        BY <4>1 DEF SettingsInv, PromisedSettingsInForce
      <4>3. \A k \in Kind : written(u)[k] \in {puts[p].want[k], retention[u][k]}
        OBVIOUS
      <4> HIDE DEF told, written
      <4> QED BY <3>1, <3>2, <4>1, <4>2, <4>3
    <3> QED BY <3>3, <3>4
  <2> QED BY <2>1, <2>2
<1> QED BY <1>6, <1>7, <1>8 DEF SettingsInv

LEMMA RestartKeeps ==
    ASSUME SettingsInv, NEW file \in FileDays, UpdateDbFromConfigFile(file)
    PROVE  SettingsInv'
<1>1. file \in Settings /\ config \in [Kind -> Nat]
  BY RetentionAssumption DEF SettingsInv, SettingsShape
<1>2. config' \in [Kind -> Nat]
  BY <1>1 DEF UpdateDbFromConfigFile, Settings
<1>3. puts' = [p \in Put |-> NoPut] /\ UNCHANGED <<tenants, retention, promised>>
  BY DEF UpdateDbFromConfigFile
<1>4. SettingsShape'
  BY <1>2, <1>3 DEF SettingsInv, SettingsShape
<1>5. PutsSeeTheirRow'
  BY <1>3 DEF PutsSeeTheirRow, NoPut
<1>6. PromisedSettingsInForce'
  BY <1>3 DEF SettingsInv, PromisedSettingsInForce
<1> QED BY <1>4, <1>5, <1>6 DEF SettingsInv

LEMMA DropKeeps ==
    ASSUME SettingsInv, NEW gone, DropTenants(gone)
    PROVE  SettingsInv'
<1>1. /\ tenants' = tenants \ gone
      /\ DOMAIN retention' = DOMAIN retention \ gone
      /\ retention' = [t \in DOMAIN retention' |-> retention'[t]]
      /\ \A t \in DOMAIN retention' : retention'[t] = retention[t]
      /\ promised' = [t \in Tenant |-> IF t \in gone THEN {} ELSE promised[t]]
      /\ overtaken' = overtaken \cup UNION {InFlight(t) : t \in gone}
      /\ UNCHANGED <<config, puts>>
  BY DEF DropTenants
<1>2. SettingsShape'
  BY <1>1 DEF SettingsInv, SettingsShape
<1>3. PutsSeeTheirRow'
  <2> SUFFICES ASSUME NEW q \in Put \ overtaken', NEW u \in Tenant, puts[q].tenant = {u}
               PROVE  u \in DOMAIN retention' /\ puts[q].seen = retention'[u]
    BY <1>1 DEF PutsSeeTheirRow
  <2>1. u \in DOMAIN retention /\ puts[q].seen = retention[u]
    BY <1>1 DEF SettingsInv, PutsSeeTheirRow
  <2>2. u \notin gone
    <3>1. q \in InFlight(u)
      BY DEF InFlight
    <3> QED BY <1>1, <3>1
  <2> QED BY <1>1, <2>1, <2>2
<1>4. PromisedSettingsInForce'
  BY <1>1 DEF SettingsInv, PromisedSettingsInForce
<1> QED BY <1>2, <1>3, <1>4 DEF SettingsInv

LEMMA NoChangeKeeps == SettingsInv /\ UNCHANGED settings => SettingsInv'
BY DEF SettingsInv, SettingsShape, PutsSeeTheirRow, PromisedSettingsInForce, settings

LEMMA SettingsStart == SettingsInit => SettingsInv
<1> SUFFICES ASSUME SettingsInit PROVE SettingsInv
  OBVIOUS
<1> QED BY RetentionAssumption DEF SettingsInit, SettingsInv, SettingsShape,
           PutsSeeTheirRow, PromisedSettingsInForce, NoPut

LEMMA SettingsTyped == SettingsInv => SettingsTypeOK
<1> SUFFICES ASSUME SettingsInv PROVE SettingsTypeOK
  OBVIOUS
<1>1. \A p \in Put : puts[p] = NoPut \/ puts[p] \in Putting
  BY DEF SettingsInv, SettingsShape
<1> QED BY <1>1, RetentionAssumption DEF SettingsInv, SettingsShape, SettingsTypeOK, Putting

(* What the last PUT of a tenant was told stays in force, whatever other   *)
(* requests, restarts and removals follow in whatever order, and where     *)
(* requests overlapped, column by column.                                  *)
THEOREM SettingsStayInForce == SettingsSpec => []PromisedSettingsInForce
<1>1. SettingsInv /\ [SettingsNext]_settings => SettingsInv'
  BY FindsOrCreatesKeeps, UpdateKeeps, RestartKeeps, DropKeeps, NoChangeKeeps
     DEF SettingsNext
<1>2. SettingsInv => PromisedSettingsInForce
  BY DEF SettingsInv
<1> QED BY <1>1, <1>2, SettingsStart, PTL DEF SettingsSpec
=============================================================================
