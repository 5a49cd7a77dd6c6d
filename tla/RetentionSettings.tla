-------------------------- MODULE RetentionSettings --------------------------
(***************************************************************************)
(* For how many days call logs, recordings and exports are kept.  A tenant *)
(* sets its own days with PUT /retention; what it does not set is taken    *)
(* from the row of defaults, which the daemon fills from its configuration *)
(* file when it starts.  A PUT is two transactions, find_or_create and     *)
(* update, and several may be in flight.                                   *)
(***************************************************************************)
EXTENDS Integers, FiniteSets

CONSTANTS
    Tenant,
    Request,        \* settings a tenant may ask for
    FactoryDays,    \* the defaults of a new database
    FileDays,       \* retention sections the configuration file may hold
    Put             \* PUT requests that may be in flight

Kind == {"cdr", "export", "recording"}

Unset == -1         \* SQL NULL, or a key the configuration file leaves out

Settings == [Kind -> Nat \cup {Unset}]

ASSUME RetentionAssumption ==
    /\ Request \subseteq Settings
    /\ FactoryDays \in [Kind -> Nat]
    /\ FileDays \subseteq Settings

VARIABLES
    tenants,        \* rows of call_logd_tenant
    retention,      \* rows of call_logd_retention, by tenant
    config,         \* the row of call_logd_config
    puts            \* puts[p]: the PUT between its transactions, or NoPut

(* History, read by no action.                                             *)
VARIABLES
    overtaken,      \* PUTs in flight whose row another has written or deleted since
    promised        \* what the tenant's last PUT, and those it overtook, were told

settings == <<tenants, retention, config, puts, overtaken, promised>>

NoPut == [tenant |-> {}]

OwnDays(t) == IF t \in DOMAIN retention THEN retention[t] ELSE [k \in Kind |-> Unset]

(* RetentionSchema: recordings may not outlive the call logs that list     *)
(* them, as far as the request itself can tell.                            *)
ValidDays(want) ==
    want["cdr"] # Unset => want["recording"] <= want["cdr"]

SettingsInit ==
    /\ tenants = {}
    /\ retention = [t \in {} |-> {}]
    /\ config = FactoryDays
    /\ puts = [p \in Put |-> NoPut]
    /\ overtaken = {}
    /\ promised = [t \in Tenant |-> {}]

InFlight(t) == {p \in Put : puts[p].tenant = {t}}

(* find_or_create: the tenant and its row are made when they are missing,  *)
(* and the row is remembered as it was read.                               *)
PutFindsOrCreates(p, t, want) ==
    /\ puts[p] = NoPut
    /\ ValidDays(want)
    /\ tenants' = tenants \cup {t}
    /\ retention' = [u \in DOMAIN retention \cup {t} |-> OwnDays(u)]
    /\ puts' = [puts EXCEPT ![p] = [tenant |-> {t}, want |-> want, seen |-> OwnDays(t)]]
    /\ UNCHANGED <<config, overtaken, promised>>

(* The request is answered when it finds its row; the others in flight for *)
(* the tenant have then read what is no longer so.                         *)
AnswerPut(p) ==
    LET put == puts[p]
        told(t) == IF p \notin overtaken THEN {put.want}
                   ELSE IF promised[t] = {} THEN {} ELSE promised[t] \cup {put.want}
        rows == {t \in DOMAIN retention : put.tenant = {t}}
    IN  /\ promised' = [t \in Tenant |-> IF t \in rows THEN told(t) ELSE promised[t]]
        /\ overtaken' = (overtaken \cup UNION {InFlight(t) : t \in rows}) \ {p}
        /\ puts' = [puts EXCEPT ![p] = NoPut]

(* Mutant: null is taken for "not given".                                  *)
PutKeepsUnset(p) ==
    /\ puts[p] # NoPut
    /\ LET put == puts[p] IN
           retention' = [u \in DOMAIN retention |->
                            IF put.tenant = {u}
                            THEN [k \in Kind |-> IF put.want[k] # Unset
                                                 THEN put.want[k] ELSE retention[u][k]]
                            ELSE retention[u]]
    /\ AnswerPut(p)
    /\ UNCHANGED <<tenants, config>>

(* update: only the columns that differ from what was read are written; a  *)
(* row deleted in between makes the request fail.                          *)
PutUpdates(p) ==
    /\ puts[p] # NoPut
    /\ LET put == puts[p] IN
           retention' = [u \in DOMAIN retention |->
                            IF put.tenant = {u}
                            THEN [k \in Kind |-> IF put.want[k] # put.seen[k]
                                                 THEN put.want[k] ELSE retention[u][k]]
                            ELSE retention[u]]
    /\ AnswerPut(p)
    /\ UNCHANGED <<tenants, config>>

(* The daemon starts again, with another configuration file perhaps: the   *)
(* requests in flight are cut, and a default that the file no longer sets  *)
(* keeps the value it had.                                                 *)
UpdateDbFromConfigFile(file) ==
    /\ config' = [k \in Kind |-> IF file[k] # Unset THEN file[k] ELSE config[k]]
    /\ puts' = [p \in Put |-> NoPut]
    /\ overtaken' = {}
    /\ UNCHANGED <<tenants, retention, promised>>

(* The rows that go when tenants are deleted.                              *)
DropTenants(gone) ==
    /\ tenants' = tenants \ gone
    /\ retention' = [t \in DOMAIN retention \ gone |-> retention[t]]
    /\ overtaken' = overtaken \cup UNION {InFlight(t) : t \in gone}
    /\ promised' = [t \in Tenant |-> IF t \in gone THEN {} ELSE promised[t]]
    /\ UNCHANGED <<config, puts>>

SettingsNext ==
    \/ \E p \in Put, t \in Tenant, want \in Request : PutFindsOrCreates(p, t, want)
    \/ \E p \in Put : PutUpdates(p)
    \/ \E file \in FileDays : UpdateDbFromConfigFile(file)
    \/ \E t \in tenants : DropTenants({t})

-----------------------------------------------------------------------------
SettingsTypeOK ==
    /\ tenants \subseteq Tenant
    /\ DOMAIN retention \subseteq tenants
    /\ \A t \in DOMAIN retention : retention[t] \in Settings
    /\ config \in [Kind -> Nat]
    /\ \A p \in Put : puts[p] = NoPut \/ (puts[p].want \in Settings /\ puts[p].seen \in Settings)

(* The settings that a PUT was last told to have made stay in force as a   *)
(* whole, null as well as days, whatever restarts, other tenants' requests *)
(* and removals follow.  Where it overtook others of the tenant, which     *)
(* write only the columns that they think they change, each column is one  *)
(* that it or one of those asked for; when the tenant was removed and made *)
(* again between the two transactions of a PUT, nothing is promised until  *)
(* the next.                                                               *)
PromisedSettingsInForce ==
    \A t \in Tenant :
        promised[t] # {} =>
            /\ t \in DOMAIN retention
            /\ \A k \in Kind : retention[t][k] \in {told[k] : told \in promised[t]}
=============================================================================
