-------------------------- MODULE TenantProvisioning --------------------------
(***************************************************************************)
(* Tenants and their databases: provisioning (TenantProvisioningService),  *)
(* the migration of all of them (runMigrationFanout) and the clients that  *)
(* requests get (TenantClientRegistryService).                             *)
(*                                                                         *)
(* The three share the registry in the skeleton database.  None of them is *)
(* atomic: CREATE DATABASE, a migration, the registry row, the client and  *)
(* the two writes of the Super Admin are steps of their own, and any of    *)
(* them may be the last one.                                               *)
(***************************************************************************)
EXTENDS Naturals, Sequences

CONSTANTS
    Tenants,       \* subdomains that the form allows, other than skeleton
    TypeOf,        \* the type that a tenant is provisioned with
    Skeleton,      \* the database of the registry
    Requests,      \* slots for calls in progress
    None,          \* no database
    MaxRelease     \* bound on the releases of the program

StageOrder == <<"testing", "demo", "live">>
Types == {"testing", "demo", "live"}
Databases == Tenants \cup {Skeleton}

ASSUME TenantAssumption ==
    /\ TypeOf \in [Tenants -> Types]
    /\ Skeleton \notin Tenants
    /\ MaxRelease \in Nat \ {0}
    /\ None \notin 0..MaxRelease

VARIABLES
    release,       \* the release that runs: its migrations are on disk
    schema,        \* schema[d]: None, 0 for an empty database, or its release
    registry,      \* the rows of TenantRegistry
    admin,         \* admin[t]: the row of the Super Admin
    clients,       \* the map of TenantClientRegistryService
    req,           \* req[s]: the call in progress in slot s, or Idle
    opened,        \* opened[t]: clients connected since the start of the server
    raced,         \* the tenants whose misses of the map have overlapped
    fanned         \* a fan-out over all types has succeeded for this release;
                   \* these three for the properties only

tenantVars == <<release, schema, registry, admin, clients, req, opened, raced, fanned>>
serverVars == <<release, clients, opened, raced, fanned>>

-----------------------------------------------------------------------------
Idle == [op |-> "idle"]

Stages == {SubSeq(StageOrder, i, 3) : i \in 1..4} \cup {<<type>> : type \in Types}

\* `purpose` is what a client is looked up for.
Call ==
    [op : {"checked", "created", "migrated", "resolved", "owned"}, tenant : Tenants]
        \cup [op : {"lookup", "connect"}, tenant : Tenants, purpose : {"request", "provision"}]
        \cup [op : {"fanout", "skeleton"}, all : BOOLEAN, stages : Stages, left : SUBSET Tenants]

TenantTypeOK ==
    /\ release \in 1..MaxRelease
    /\ schema \in [Databases -> 0..MaxRelease \cup {None}]
    /\ registry \subseteq Tenants
    /\ admin \in [Tenants -> {"absent", "created", "owned"}]
    /\ clients \subseteq registry /\ raced \subseteq Tenants
    /\ req \in [Requests -> Call \cup {Idle}]
    /\ opened \in [Tenants -> Nat]
    /\ fanned \in BOOLEAN

TenantInit ==
    /\ release = 1
    /\ schema = [d \in Databases |-> IF d = Skeleton THEN 1 ELSE None]
    /\ registry = {} /\ clients = {} /\ raced = {}
    /\ admin = [t \in Tenants |-> "absent"]
    /\ req = [s \in Requests |-> Idle]
    /\ opened = [t \in Tenants |-> 0]
    /\ fanned = FALSE

Goto(s, call) == req' = [req EXCEPT ![s] = call]
At(s, op) == Goto(s, [op |-> op, tenant |-> req[s].tenant])
Begin(s, call) == req[s] = Idle /\ Goto(s, call)

-----------------------------------------------------------------------------
(* provision                                                               *)

\* No row of the registry has the subdomain.
Provision(s, t) ==
    /\ t \notin registry
    /\ Begin(s, [op |-> "checked", tenant |-> t])
    /\ UNCHANGED <<schema, registry, admin, serverVars>>

\* Fails if the database is there already.
CreateDatabase(s) ==
    /\ req[s].op = "checked"
    /\ schema[req[s].tenant] = None
    /\ schema' = [schema EXCEPT ![req[s].tenant] = 0]
    /\ At(s, "created")
    /\ UNCHANGED <<registry, admin, serverVars>>

MigrateDeploy(s) ==
    /\ req[s].op = "created"
    /\ schema' = [schema EXCEPT ![req[s].tenant] = release]
    /\ At(s, "migrated")
    /\ UNCHANGED <<registry, admin, serverVars>>

\* Mutant of RegisterTenant: the row is written before the migration is done.
RegisterEarly(s) ==
    LET t == req[s].tenant IN
    /\ req[s].op \in {"created", "migrated"}
    /\ t \notin registry
    /\ registry' = registry \cup {t}
    /\ Goto(s, [op |-> "lookup", tenant |-> t, purpose |-> "provision"])
    /\ UNCHANGED <<schema, admin, serverVars>>

RegisterTenant(s) ==
    LET t == req[s].tenant IN
    /\ req[s].op = "migrated"
    /\ t \notin registry
    /\ registry' = registry \cup {t}
    /\ Goto(s, [op |-> "lookup", tenant |-> t, purpose |-> "provision"])
    /\ UNCHANGED <<schema, admin, serverVars>>

CreateSuperAdmin(s) ==
    /\ req[s].op = "resolved"
    /\ admin[req[s].tenant] = "absent"
    /\ admin' = [admin EXCEPT ![req[s].tenant] = "created"]
    /\ At(s, "owned")
    /\ UNCHANGED <<schema, registry, serverVars>>

\* The bootstrap row becomes its own creator.
OwnSuperAdmin(s) ==
    /\ req[s].op = "owned"
    /\ admin' = [admin EXCEPT ![req[s].tenant] = "owned"]
    /\ Goto(s, Idle)
    /\ UNCHANGED <<schema, registry, serverVars>>

-----------------------------------------------------------------------------
(* TenantResolutionMiddleware.use and TenantClientRegistryService.resolve  *)

Serve(s, t) ==
    /\ Begin(s, [op |-> "lookup", tenant |-> t, purpose |-> "request"])
    /\ UNCHANGED <<schema, registry, admin, serverVars>>

Resolved(s) == IF req[s].purpose = "provision" THEN At(s, "resolved") ELSE Goto(s, Idle)

Hit(s) ==
    /\ req[s].op = "lookup"
    /\ req[s].tenant \in clients
    /\ Resolved(s)
    /\ UNCHANGED <<schema, registry, admin, serverVars>>

Miss(s) ==
    LET t == req[s].tenant IN
    /\ req[s].op = "lookup"
    /\ t \notin clients
    /\ t \in registry
    /\ Goto(s, [req[s] EXCEPT !.op = "connect"])
    /\ raced' = IF \E r \in Requests : req[r].op = "connect" /\ req[r].tenant = t
                  THEN raced \cup {t} ELSE raced
    /\ UNCHANGED <<schema, registry, admin, release, clients, opened, fanned>>

\* Mutant of Connect: the client is not kept.
ConnectOnly(s) ==
    /\ req[s].op = "connect"
    /\ opened' = [opened EXCEPT ![req[s].tenant] = @ + 1]
    /\ Resolved(s)
    /\ UNCHANGED <<schema, registry, admin, release, clients, raced, fanned>>

\* A client that is in the map already is replaced and never disconnected.
Connect(s) ==
    /\ req[s].op = "connect"
    /\ opened' = [opened EXCEPT ![req[s].tenant] = @ + 1]
    /\ clients' = clients \cup {req[s].tenant}
    /\ Resolved(s)
    /\ UNCHANGED <<schema, registry, admin, release, raced, fanned>>

-----------------------------------------------------------------------------
(* runMigrationFanout                                                      *)

Fanout(s, stages) ==
    /\ Begin(s, [op |-> "skeleton", stages |-> stages, left |-> {}, all |-> stages = StageOrder])
    /\ UNCHANGED <<schema, registry, admin, serverVars>>

MigrateSkeleton(s) ==
    /\ req[s].op = "skeleton"
    /\ schema' = [schema EXCEPT ![Skeleton] = release]
    /\ Goto(s, [req[s] EXCEPT !.op = "fanout"])
    /\ UNCHANGED <<registry, admin, serverVars>>

ReadStage(s) ==
    LET c == req[s] IN
    /\ c.op = "fanout" /\ c.left = {} /\ c.stages # <<>>
    /\ Goto(s, [c EXCEPT !.stages = Tail(@), !.left = {t \in registry : TypeOf[t] = Head(c.stages)}])
    /\ UNCHANGED <<schema, registry, admin, serverVars>>

\* Mutant of MigrateTenant: a failure does not end the fan-out.
MigrateOrSkip(s, t) ==
    /\ req[s].op = "fanout"
    /\ t \in req[s].left
    /\ schema' = schema \/ schema' = [schema EXCEPT ![t] = release]
    /\ Goto(s, [req[s] EXCEPT !.left = @ \ {t}])
    /\ UNCHANGED <<registry, admin, serverVars>>

\* The order within a stage is the database's.
MigrateTenant(s, t) ==
    /\ req[s].op = "fanout"
    /\ t \in req[s].left
    /\ schema' = [schema EXCEPT ![t] = release]
    /\ Goto(s, [req[s] EXCEPT !.left = @ \ {t}])
    /\ UNCHANGED <<registry, admin, serverVars>>

FanoutDone(s) ==
    /\ req[s].op = "fanout" /\ req[s].left = {} /\ req[s].stages = <<>>
    /\ fanned' = (fanned \/ req[s].all)
    /\ Goto(s, Idle)
    /\ UNCHANGED <<schema, registry, admin, release, clients, opened, raced>>

-----------------------------------------------------------------------------
\* A check or command fails; for a fan-out, its first failed migration.
Fail(s) ==
    /\ req[s] # Idle
    /\ Goto(s, Idle)
    /\ UNCHANGED <<schema, registry, admin, serverVars>>

\* The server stops and starts, perhaps with the next release.
Restart(r) ==
    /\ r \in {release, release + 1} /\ r <= MaxRelease
    /\ release' = r
    /\ fanned' = (fanned /\ r = release)
    /\ clients' = {} /\ raced' = {}
    /\ opened' = [t \in Tenants |-> 0]
    /\ req' = [s \in Requests |-> Idle]
    /\ UNCHANGED <<schema, registry, admin>>

ProvisionStep(s) ==
    \/ \E t \in Tenants : Provision(s, t)
    \/ CreateDatabase(s) \/ MigrateDeploy(s) \/ RegisterTenant(s)
    \/ CreateSuperAdmin(s) \/ OwnSuperAdmin(s)

ResolveStep(s) == Hit(s) \/ Miss(s) \/ Connect(s) \/ \E t \in Tenants : Serve(s, t)

FanoutStep(s) ==
    \/ \E stages \in {StageOrder} \cup {<<type>> : type \in Types} : Fanout(s, stages)
    \/ MigrateSkeleton(s) \/ ReadStage(s) \/ FanoutDone(s)
    \/ \E t \in Tenants : MigrateTenant(s, t)

TenantNext ==
    \/ \E s \in Requests : ProvisionStep(s) \/ ResolveStep(s) \/ FanoutStep(s) \/ Fail(s)
    \/ \E r \in 1..MaxRelease : Restart(r)

TenantSpec == TenantInit /\ [][TenantNext]_tenantVars

-----------------------------------------------------------------------------
(* Properties.                                                             *)

Current(d) == schema[d] = release

\* runMigrationFanout: no tenant of a stage is touched before the skeleton and
\* every tenant of the earlier stages have the release; once all stages are
\* through every tenant has it, those provisioned meanwhile included.
FanoutIsStaged ==
    /\ \A s \in Requests : req[s].op = "fanout" =>
          /\ Current(Skeleton)
          /\ req[s].all => \A i \in 1..(3 - Len(req[s].stages)), t \in registry :
                TypeOf[t] = StageOrder[i] /\ ~Current(t) =>
                    i = 3 - Len(req[s].stages) /\ t \in req[s].left
    /\ fanned => \A d \in registry \cup {Skeleton} : Current(d)

\* resolve: as long as first requests of a tenant do not overlap, the server
\* opens one client for it.
OneClientPerTenant == \A t \in Tenants \ raced : opened[t] <= 1

\* A tenant can be reached only with a migrated database, stays, and its schema
\* never falls back; its Super Admin comes after that, and once.
Lifecycle == INSTANCE TenantLifecycle WITH
    reachable <- registry,
    version <- [t \in Tenants |-> IF t \in registry THEN schema[t] ELSE 0],
    staffed <- {t \in Tenants : admin[t] # "absent"}
TenantLifecycleSpec == Lifecycle!LifecycleSpec
=============================================================================
