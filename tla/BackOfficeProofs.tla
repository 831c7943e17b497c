--------------------------- MODULE BackOfficeProofs ---------------------------
(***************************************************************************)
(* Proofs about TenantProvisioning, QuickBooksSync, Rosters, SeedScripts   *)
(* and Payroll, for any number of tenants, rows, records, runs and calls   *)
(* in progress.                                                            *)
(***************************************************************************)
EXTENDS MCBackOffice, FiniteSetTheorems, SequenceTheorems, TLAPS

-----------------------------------------------------------------------------
(* The tenants: TenantProvisioning implements TenantLifecycle, a tenant    *)
(* gets one client as long as its first requests do not overlap, and a     *)
(* release reaches the databases stage by stage.                           *)

\* The calls, with any stages.
TenantCall ==
    [op : {"checked", "created", "migrated", "resolved", "owned"}, tenant : Tenants]
        \cup [op : {"lookup", "connect"}, tenant : Tenants, purpose : {"request", "provision"}]
        \cup [op : {"fanout", "skeleton"}, all : BOOLEAN, stages : Seq(Types), left : SUBSET Tenants]

TypeInv ==
    /\ release \in 1..MaxRelease
    /\ schema \in [Databases -> 0..MaxRelease \cup {None}]
    /\ registry \subseteq Tenants /\ clients \subseteq registry /\ raced \subseteq Tenants
    /\ admin \in [Tenants -> {"absent", "created", "owned"}]
    /\ opened \in [Tenants -> Nat]
    /\ req \in [Requests -> TenantCall \cup {Idle}]

\* What a call in progress has established, and no other call takes away: rows of
\* the registry stay, and a database that has a schema keeps one.
Established(c) ==
    /\ c.op = "migrated" => schema[c.tenant] \in 1..release
    /\ c.op \in {"connect", "resolved", "owned"} => c.tenant \in registry
    /\ c.op = "owned" => admin[c.tenant] # "absent"
    /\ c.op \in {"fanout", "skeleton"} => c.left \subseteq registry

LifecycleInv ==
    /\ TypeInv
    /\ \A s \in Requests : Established(req[s])
    /\ \A t \in registry : schema[t] \in 1..release

-----------------------------------------------------------------------------
LEMMA CallFields ==
  ASSUME NEW c \in TenantCall \cup {Idle}
  PROVE  /\ c.op \in {"checked", "created", "migrated", "resolved", "owned"} =>
              /\ c.tenant \in Tenants
              /\ c \in [op : {"checked", "created", "migrated", "resolved", "owned"}, tenant : Tenants]
         /\ c.op \in {"lookup", "connect"} =>
              /\ c.tenant \in Tenants
              /\ c \in [op : {"lookup", "connect"}, tenant : Tenants, purpose : {"request", "provision"}]
         /\ c.op \in {"fanout", "skeleton"} =>
              /\ c.left \subseteq Tenants /\ c.stages \in Seq(Types)
              /\ c \in [op : {"fanout", "skeleton"}, all : BOOLEAN, stages : Seq(Types),
                        left : SUBSET Tenants]
         /\ c # Idle => c \in TenantCall
BY DEF TenantCall, Idle

\* The call in slot s moves on, and no row of the registry, no schema and no Super
\* Admin is taken away.
MovesOn(s) ==
    /\ req' = [req EXCEPT ![s] = req'[s]]
    /\ req'[s] \in TenantCall \cup {Idle} /\ Established(req[s])'
    /\ release' = release
    /\ schema' \in [Databases -> 0..MaxRelease \cup {None}]
    /\ \A t \in Tenants : schema[t] \in 1..release => schema'[t] \in 1..release
    /\ registry \subseteq registry' /\ registry' \subseteq Tenants
    /\ \A t \in registry' : schema'[t] \in 1..release
    /\ admin' \in [Tenants -> {"absent", "created", "owned"}]
    /\ \A t \in Tenants : admin[t] # "absent" => admin'[t] # "absent"
    /\ clients' \subseteq registry' /\ raced' \subseteq Tenants
    /\ opened' \in [Tenants -> Nat]

LEMMA MovesOnInv ==
  ASSUME LifecycleInv, NEW s \in Requests, MovesOn(s)
  PROVE  LifecycleInv'
<1> USE DEF MovesOn
<1>1. TypeInv /\ \A r \in Requests : Established(req[r])
  BY DEF LifecycleInv
<1>2. req' \in [Requests -> TenantCall \cup {Idle}]
  BY <1>1 DEF TypeInv
<1>3. TypeInv'
  BY <1>1, <1>2 DEF TypeInv
<1>4. ASSUME NEW r \in Requests PROVE Established(req[r])'
  <2>1. CASE r = s
    BY <1>1, <2>1 DEF TypeInv
  <2>2. CASE r # s
    <3>1. req'[r] = req[r] /\ Established(req[r]) /\ req[r] \in TenantCall \cup {Idle}
      BY <1>1, <2>2 DEF TypeInv
    <3>2. req[r].op \in {"migrated", "connect", "resolved", "owned"} => req[r].tenant \in Tenants
      BY <3>1, CallFields, <1>1 DEF TypeInv, Established
    <3>3. QED
      BY <3>1, <3>2 DEF Established
  <2>3. QED
    BY <2>1, <2>2
<1>5. QED
  BY <1>3, <1>4 DEF LifecycleInv

LEMMA InitLifecycleInv == TenantInit => LifecycleInv
<1> SUFFICES ASSUME TenantInit PROVE LifecycleInv
  OBVIOUS
<1>1. schema \in [Databases -> 0..MaxRelease \cup {None}] /\ release \in 1..MaxRelease
  BY TenantAssumption DEF TenantInit
<1>2. TypeInv
  BY <1>1 DEF TenantInit, TypeInv
<1>3. \A s \in Requests : Established(req[s])
  BY DEF TenantInit, Established, Idle
<1>4. QED
  BY <1>2, <1>3 DEF TenantInit, LifecycleInv

LEMMA ProvisionStepInv ==
  ASSUME LifecycleInv, NEW s \in Requests, ProvisionStep(s)
  PROVE  LifecycleInv'
<1> DEFINE c == req[s]
           moved == /\ req' = [req EXCEPT ![s] = req'[s]]
                    /\ req'[s] \in TenantCall \cup {Idle}
<1>0. /\ \A t \in registry : schema[t] \in 1..release
      /\ TypeInv /\ Established(c) /\ c \in TenantCall \cup {Idle} /\ s \in DOMAIN req
      /\ release \in 1..release /\ release \in 0..MaxRelease /\ None \notin 1..release
  BY TenantAssumption DEF LifecycleInv, TypeInv
<1>1. ASSUME NEW t \in Tenants, Provision(s, t) PROVE LifecycleInv'
  <2>1. moved /\ req'[s].op = "checked"
    BY <1>0, <1>1 DEF Provision, Begin, Goto, TenantCall
  <2>2. UNCHANGED <<schema, registry, admin, serverVars>>
    BY <1>1 DEF Provision
  <2>3. Established(req[s])'
    BY <2>1 DEF Established
  <2>4. MovesOn(s)
    BY <1>0, <2>1, <2>2, <2>3 DEF MovesOn, TypeInv, serverVars
  <2>5. QED
    BY <2>4, MovesOnInv
<1>2. CASE CreateDatabase(s)
  <2>1. c.tenant \in Tenants
    BY <1>0, <1>2, CallFields DEF CreateDatabase
  <2>2. moved /\ req'[s].op = "created"
    BY <1>0, <1>2, <2>1 DEF CreateDatabase, At, Goto, TenantCall
  <2>3. /\ schema[c.tenant] = None /\ schema' = [schema EXCEPT ![c.tenant] = 0]
        /\ UNCHANGED <<registry, admin, serverVars>>
    BY <1>2 DEF CreateDatabase
  <2>4. Established(req[s])'
    BY <2>2 DEF Established
  <2>5. schema' \in [Databases -> 0..MaxRelease \cup {None}]
    BY <1>0, <2>1, <2>3, TenantAssumption DEF TypeInv, Databases
  <2>6. \A u \in Tenants : schema[u] \in 1..release => schema'[u] \in 1..release
    BY <1>0, <2>1, <2>3 DEF TypeInv, Databases
  <2>7. MovesOn(s)
    BY <1>0, <2>2, <2>3, <2>4, <2>5, <2>6 DEF MovesOn, TypeInv, serverVars
  <2>8. QED
    BY <2>7, MovesOnInv
<1>3. CASE MigrateDeploy(s)
  <2>1. c.tenant \in Tenants
    BY <1>0, <1>3, CallFields DEF MigrateDeploy
  <2>2. moved /\ req'[s].op = "migrated" /\ req'[s].tenant = c.tenant
    BY <1>0, <1>3, <2>1 DEF MigrateDeploy, At, Goto, TenantCall
  <2>3. schema' = [schema EXCEPT ![c.tenant] = release] /\ UNCHANGED <<registry, admin, serverVars>>
    BY <1>3 DEF MigrateDeploy
  <2>4. /\ schema' \in [Databases -> 0..MaxRelease \cup {None}]
        /\ \A u \in Tenants : schema[u] \in 1..release => schema'[u] \in 1..release
        /\ schema'[c.tenant] = release
    BY <1>0, <2>1, <2>3 DEF TypeInv, Databases
  <2>5. Established(req[s])'
    BY <1>0, <2>2, <2>3, <2>4 DEF Established, serverVars
  <2>6. MovesOn(s)
    BY <1>0, <2>2, <2>3, <2>4, <2>5 DEF MovesOn, TypeInv, serverVars
  <2>7. QED
    BY <2>6, MovesOnInv
<1>4. CASE RegisterTenant(s)
  <2>1. c.tenant \in Tenants /\ schema[c.tenant] \in 1..release
    BY <1>0, <1>4, CallFields DEF RegisterTenant, Established
  <2>2. moved /\ req'[s].op = "lookup"
    BY <1>0, <1>4, <2>1 DEF RegisterTenant, Goto, TenantCall
  <2>3. registry' = registry \cup {c.tenant} /\ UNCHANGED <<schema, admin, serverVars>>
    BY <1>4 DEF RegisterTenant
  <2>4. Established(req[s])'
    BY <2>2 DEF Established
  <2>5. MovesOn(s)
    BY <1>0, <2>1, <2>2, <2>3, <2>4 DEF MovesOn, TypeInv, serverVars
  <2>6. QED
    BY <2>5, MovesOnInv
<1>5. CASE CreateSuperAdmin(s)
  <2>1. c.tenant \in Tenants /\ c.tenant \in registry
    BY <1>0, <1>5, CallFields DEF CreateSuperAdmin, Established
  <2>2. moved /\ req'[s].op = "owned" /\ req'[s].tenant = c.tenant
    BY <1>0, <1>5, <2>1 DEF CreateSuperAdmin, At, Goto, TenantCall
  <2>3. /\ admin' = [admin EXCEPT ![c.tenant] = "created"]
        /\ UNCHANGED <<schema, registry, serverVars>>
    BY <1>5 DEF CreateSuperAdmin
  <2>4. /\ admin' \in [Tenants -> {"absent", "created", "owned"}]
        /\ \A u \in Tenants : admin[u] # "absent" => admin'[u] # "absent"
        /\ admin'[c.tenant] # "absent"
    BY <1>0, <2>1, <2>3 DEF TypeInv
  <2>5. Established(req[s])'
    BY <2>1, <2>2, <2>3, <2>4 DEF Established
  <2>6. MovesOn(s)
    BY <1>0, <2>2, <2>3, <2>4, <2>5 DEF MovesOn, TypeInv, serverVars
  <2>7. QED
    BY <2>6, MovesOnInv
<1>6. CASE OwnSuperAdmin(s)
  <2>1. c.tenant \in Tenants
    BY <1>0, <1>6, CallFields DEF OwnSuperAdmin
  <2>2. moved /\ req'[s].op = "idle"
    BY <1>0, <1>6 DEF OwnSuperAdmin, Goto, Idle
  <2>3. /\ admin' = [admin EXCEPT ![c.tenant] = "owned"]
        /\ UNCHANGED <<schema, registry, serverVars>>
    BY <1>6 DEF OwnSuperAdmin
  <2>4. /\ admin' \in [Tenants -> {"absent", "created", "owned"}]
        /\ \A u \in Tenants : admin[u] # "absent" => admin'[u] # "absent"
    BY <1>0, <2>1, <2>3 DEF TypeInv
  <2>5. Established(req[s])'
    BY <2>2 DEF Established
  <2>6. MovesOn(s)
    BY <1>0, <2>2, <2>3, <2>4, <2>5 DEF MovesOn, TypeInv, serverVars
  <2>7. QED
    BY <2>6, MovesOnInv
<1>7. QED
  BY <1>1, <1>2, <1>3, <1>4, <1>5, <1>6 DEF ProvisionStep

LEMMA ResolveStepInv ==
  ASSUME LifecycleInv, NEW s \in Requests, ResolveStep(s)
  PROVE  LifecycleInv'
<1> DEFINE c == req[s]
           moved == /\ req' = [req EXCEPT ![s] = req'[s]]
                    /\ req'[s] \in TenantCall \cup {Idle}
<1>0. /\ \A t \in registry : schema[t] \in 1..release
      /\ TypeInv /\ Established(c) /\ c \in TenantCall \cup {Idle} /\ s \in DOMAIN req
  BY DEF LifecycleInv, TypeInv
\* A call that has its client goes on to the Super Admin, or is done.
<1>1. ASSUME Resolved(s), c.tenant \in Tenants, c.tenant \in registry'
      PROVE  moved /\ Established(req[s])'
  <2>1. CASE c.purpose = "provision"
    <3>1. moved /\ req'[s].op = "resolved" /\ req'[s].tenant = c.tenant
      BY <1>0, <1>1, <2>1 DEF Resolved, At, Goto, TenantCall
    <3>2. QED
      BY <1>1, <3>1 DEF Established
  <2>2. CASE c.purpose # "provision"
    <3>1. moved /\ req'[s].op = "idle"
      BY <1>0, <1>1, <2>2 DEF Resolved, Goto, Idle
    <3>2. QED
      BY <3>1 DEF Established
  <2>3. QED
    BY <2>1, <2>2
<1>2. ASSUME NEW u \in Tenants, Serve(s, u) PROVE LifecycleInv'
  <2>1. moved /\ req'[s].op = "lookup" /\ UNCHANGED <<schema, registry, admin, serverVars>>
    BY <1>0, <1>2 DEF Serve, Begin, Goto, TenantCall
  <2>2. Established(req[s])'
    BY <2>1 DEF Established
  <2>3. MovesOn(s)
    BY <1>0, <2>1, <2>2 DEF MovesOn, TypeInv, serverVars
  <2>4. QED
    BY <2>3, MovesOnInv
<1>3. CASE Hit(s)
  <2>1. c.tenant \in Tenants /\ c.tenant \in registry'
    BY <1>0, <1>3, CallFields DEF Hit, TypeInv
  <2>2. /\ moved /\ Established(req[s])'
        /\ UNCHANGED <<schema, registry, admin, serverVars>>
    BY <1>1, <1>3, <2>1 DEF Hit
  <2>3. MovesOn(s)
    BY <1>0, <2>2 DEF MovesOn, TypeInv, serverVars
  <2>4. QED
    BY <2>3, MovesOnInv
<1>4. CASE Miss(s)
  <2>1. /\ c \in [op : {"lookup", "connect"}, tenant : Tenants,
                  purpose : {"request", "provision"}]
        /\ c.tenant \in Tenants /\ c.tenant \in registry
    BY <1>0, <1>4, CallFields DEF Miss
  <2>2. moved /\ req'[s].op = "connect" /\ req'[s].tenant = c.tenant
    BY <1>0, <1>4, <2>1 DEF Miss, Goto, TenantCall
  <2>3. raced' \subseteq Tenants /\ UNCHANGED <<schema, registry, admin, release, clients, opened>>
    BY <1>0, <1>4, <2>1 DEF Miss, TypeInv
  <2>4. Established(req[s])'
    BY <2>1, <2>2, <2>3 DEF Established
  <2>5. MovesOn(s)
    BY <1>0, <2>2, <2>3, <2>4 DEF MovesOn, TypeInv
  <2>6. QED
    BY <2>5, MovesOnInv
<1>5. CASE Connect(s)
  <2>1. c.tenant \in Tenants /\ c.tenant \in registry'
    BY <1>0, <1>5, CallFields DEF Connect, Established
  <2>2. /\ moved /\ Established(req[s])'
        /\ clients' = clients \cup {c.tenant}
        /\ opened' = [opened EXCEPT ![c.tenant] = opened[c.tenant] + 1]
        /\ UNCHANGED <<schema, registry, admin, release, raced>>
    BY <1>1, <1>5, <2>1 DEF Connect
  <2>3. opened \in [Tenants -> Nat] /\ opened[c.tenant] + 1 \in Nat
    BY <1>0, <2>1 DEF TypeInv
  <2>4. opened' \in [Tenants -> Nat]
    BY <2>2, <2>3
  <2>5. MovesOn(s)
    BY <1>0, <2>1, <2>2, <2>4 DEF MovesOn, TypeInv
  <2>6. QED
    BY <2>5, MovesOnInv
<1>6. QED
  BY <1>2, <1>3, <1>4, <1>5 DEF ResolveStep

LEMMA StagesType ==
  /\ StageOrder \in Seq(Types)
  /\ \A type \in Types : <<type>> \in Seq(Types)
BY DEF StageOrder, Types

LEMMA FanoutStepInv ==
  ASSUME LifecycleInv, NEW s \in Requests, FanoutStep(s)
  PROVE  LifecycleInv'
<1> DEFINE c == req[s]
           moved == /\ req' = [req EXCEPT ![s] = req'[s]]
                    /\ req'[s] \in TenantCall \cup {Idle}
           Walks == [op : {"fanout", "skeleton"}, all : BOOLEAN, stages : Seq(Types),
                     left : SUBSET Tenants]
<1>0. /\ \A t \in registry : schema[t] \in 1..release
      /\ TypeInv /\ Established(c) /\ c \in TenantCall \cup {Idle} /\ s \in DOMAIN req
      /\ release \in 1..release /\ release \in 0..MaxRelease
  BY TenantAssumption DEF LifecycleInv, TypeInv
<1>1. ASSUME NEW stages \in {StageOrder} \cup {<<type>> : type \in Types}, Fanout(s, stages)
      PROVE  LifecycleInv'
  <2>1. stages \in Seq(Types)
    BY StagesType
  <2>2. moved /\ req'[s].left = {}
    BY <1>0, <1>1, <2>1 DEF Fanout, Begin, Goto, TenantCall
  <2>3. req'[s].op = "skeleton" /\ UNCHANGED <<schema, registry, admin, serverVars>>
    BY <1>0, <1>1 DEF Fanout, Begin, Goto
  <2>4. Established(req[s])'
    BY <2>2, <2>3 DEF Established
  <2>5. MovesOn(s)
    BY <1>0, <2>2, <2>3, <2>4 DEF MovesOn, TypeInv, serverVars
  <2>6. QED
    BY <2>5, MovesOnInv
<1>2. CASE MigrateSkeleton(s)
  <2>1. c \in Walks /\ c.left \subseteq registry
    BY <1>0, <1>2, CallFields DEF MigrateSkeleton, Established
  <2>2. moved /\ req'[s].op = "fanout" /\ req'[s].left = c.left
    BY <1>0, <1>2, <2>1 DEF MigrateSkeleton, Goto, TenantCall
  <2>3. schema' = [schema EXCEPT ![Skeleton] = release] /\ UNCHANGED <<registry, admin, serverVars>>
    BY <1>2 DEF MigrateSkeleton
  <2>4. Established(req[s])'
    BY <2>1, <2>2, <2>3 DEF Established
  <2>5. schema' \in [Databases -> 0..MaxRelease \cup {None}]
    BY <1>0, <2>3 DEF TypeInv
  <2>6. \A u \in Tenants : schema'[u] = schema[u]
    BY <1>0, <2>3, TenantAssumption DEF TypeInv, Databases
  <2>7. MovesOn(s)
    BY <1>0, <2>2, <2>3, <2>4, <2>5, <2>6 DEF MovesOn, TypeInv, serverVars
  <2>8. QED
    BY <2>7, MovesOnInv
<1>3. CASE ReadStage(s)
  <2> DEFINE rows == {t \in registry : TypeOf[t] = Head(c.stages)}
  <2>1. c \in Walks /\ c.op = "fanout" /\ Tail(c.stages) \in Seq(Types) /\ rows \subseteq Tenants
    BY <1>0, <1>3, CallFields DEF ReadStage, TypeInv
  <2>2. req' = [req EXCEPT ![s] = [c EXCEPT !.stages = Tail(@), !.left = rows]]
    BY <1>3 DEF ReadStage, Goto
  <2>3. moved /\ req'[s].op = "fanout" /\ req'[s].left = rows
    BY <1>0, <2>1, <2>2 DEF TenantCall
  <2>4. UNCHANGED <<schema, registry, admin, serverVars>>
    BY <1>3 DEF ReadStage
  <2>5. Established(req[s])'
    BY <2>3, <2>4 DEF Established
  <2>6. MovesOn(s)
    BY <1>0, <2>3, <2>4, <2>5 DEF MovesOn, TypeInv, serverVars
  <2>7. QED
    BY <2>6, MovesOnInv
<1>4. CASE FanoutDone(s)
  <2>1. moved /\ req'[s].op = "idle"
    BY <1>0, <1>4 DEF FanoutDone, Goto, Idle
  <2>2. UNCHANGED <<schema, registry, admin, release, clients, opened, raced>>
    BY <1>4 DEF FanoutDone
  <2>3. Established(req[s])'
    BY <2>1 DEF Established
  <2>4. MovesOn(s)
    BY <1>0, <2>1, <2>2, <2>3 DEF MovesOn, TypeInv
  <2>5. QED
    BY <2>4, MovesOnInv
<1>5. ASSUME NEW t \in Tenants, MigrateTenant(s, t) PROVE LifecycleInv'
  <2>1. c \in Walks /\ c.left \subseteq registry
    BY <1>0, <1>5, CallFields DEF MigrateTenant, Established
  <2>2. moved /\ req'[s].op = "fanout" /\ req'[s].left = c.left \ {t}
    BY <1>0, <1>5, <2>1 DEF MigrateTenant, Goto, TenantCall
  <2>3. schema' = [schema EXCEPT ![t] = release] /\ UNCHANGED <<registry, admin, serverVars>>
    BY <1>5 DEF MigrateTenant
  <2>4. Established(req[s])'
    BY <2>1, <2>2, <2>3 DEF Established
  <2>5. /\ schema' \in [Databases -> 0..MaxRelease \cup {None}]
        /\ \A u \in Tenants : schema[u] \in 1..release => schema'[u] \in 1..release
    BY <1>0, <2>3 DEF TypeInv, Databases
  <2>6. MovesOn(s)
    BY <1>0, <2>2, <2>3, <2>4, <2>5 DEF MovesOn, TypeInv, serverVars
  <2>7. QED
    BY <2>6, MovesOnInv
<1>6. QED
  BY <1>1, <1>2, <1>3, <1>4, <1>5 DEF FanoutStep

LEMMA NextLifecycleInv == LifecycleInv /\ [TenantNext]_tenantVars => LifecycleInv'
<1> SUFFICES ASSUME LifecycleInv, [TenantNext]_tenantVars PROVE LifecycleInv'
  OBVIOUS
<1>1. ASSUME NEW s \in Requests, Fail(s) PROVE LifecycleInv'
  <2>1. /\ req' = [req EXCEPT ![s] = Idle] /\ req'[s] = Idle
        /\ UNCHANGED <<schema, registry, admin, serverVars>>
    BY <1>1 DEF Fail, Goto, LifecycleInv, TypeInv
  <2>2. Established(req[s])'
    BY <2>1 DEF Established, Idle
  <2>3. MovesOn(s)
    BY <2>1, <2>2 DEF MovesOn, LifecycleInv, TypeInv, serverVars
  <2>4. QED
    BY <2>3, MovesOnInv
<1>2. ASSUME NEW r \in 1..MaxRelease, Restart(r) PROVE LifecycleInv'
  <2>1. /\ release' = r /\ 1..release \subseteq 1..r /\ clients' = {} /\ raced' = {}
        /\ opened' = [t \in Tenants |-> 0] /\ req' = [s \in Requests |-> Idle]
        /\ UNCHANGED <<schema, registry, admin>>
    BY <1>2 DEF Restart, LifecycleInv, TypeInv
  <2>2. TypeInv'
    BY <2>1 DEF LifecycleInv, TypeInv
  <2>3. \A s \in Requests : Established(req[s])'
    BY <2>1 DEF Established, Idle
  <2>4. \A t \in registry' : schema'[t] \in 1..release'
    BY <2>1 DEF LifecycleInv
  <2>5. QED
    BY <2>2, <2>3, <2>4 DEF LifecycleInv
<1>3. CASE UNCHANGED tenantVars
  BY <1>3 DEF tenantVars, LifecycleInv, TypeInv, Established
<1>4. QED
  BY <1>1, <1>2, <1>3, ProvisionStepInv, ResolveStepInv, FanoutStepInv DEF TenantNext

LEMMA LifecycleHolds == TenantSpec => []LifecycleInv
BY InitLifecycleInv, NextLifecycleInv, PTL DEF TenantSpec

-----------------------------------------------------------------------------
\* What LifecycleSpec sees of a state.
version == [t \in Tenants |-> IF t \in registry THEN schema[t] ELSE 0]
staffed == {t \in Tenants : admin[t] # "absent"}
view == <<registry, version, staffed>>

LEMMA InitView == TenantInit => Lifecycle!LifecycleInit
BY DEF TenantInit, Lifecycle!LifecycleInit

\* A step that leaves the registry, the schemas of its tenants and the Super
\* Admins alone is not seen.
LEMMA NotSeen ==
  ASSUME UNCHANGED <<registry, admin>>, \A t \in registry : schema'[t] = schema[t]
  PROVE  UNCHANGED view
<1>1. version' = version
  BY DEF version
<1>2. staffed' = staffed
  BY DEF staffed
<1>3. QED
  BY <1>1, <1>2 DEF view

\* A migration of a tenant of the registry moves its schema on, or changes nothing.
LEMMA MigrationSeen ==
  ASSUME LifecycleInv, NEW t \in Tenants, schema' = [schema EXCEPT ![t] = release],
         UNCHANGED <<registry, admin>>
  PROVE  Lifecycle!LifecycleNext \/ UNCHANGED view
<1>1. /\ schema \in [Databases -> 0..MaxRelease \cup {None}] /\ Tenants \subseteq Databases
      /\ release \in 1..MaxRelease
      /\ \A u \in registry : schema[u] \in 1..release
  BY DEF LifecycleInv, TypeInv, Databases
<1>2. CASE t \in registry /\ schema[t] # release
  <2>1. version' = [version EXCEPT ![t] = release]
    BY <1>1, <1>2 DEF version
  <2>2. version[t] = schema[t] /\ release > schema[t]
    BY <1>1, <1>2, TenantAssumption DEF version
  <2>3. staffed' = staffed
    BY DEF staffed
  <2>4. Lifecycle!Upgrade(t)
    BY <1>1, <1>2, <2>1, <2>2, <2>3 DEF Lifecycle!Upgrade, version, staffed
  <2>5. QED
    BY <2>4 DEF Lifecycle!LifecycleNext
<1>3. CASE t \notin registry \/ schema[t] = release
  BY <1>1, <1>3, NotSeen
<1>4. QED
  BY <1>2, <1>3

\* The service implements the life of a tenant: registration is the opening of
\* the tenant, and is reached only with a migrated database, a migration of a
\* registered tenant moves its schema on, the creation of the Super Admin staffs
\* it; every other step, failure and restart is not seen.
THEOREM ImplementsLifecycle == TenantSpec => TenantLifecycleSpec
<1>1. LifecycleInv /\ [TenantNext]_tenantVars => [Lifecycle!LifecycleNext]_view
  <2> SUFFICES ASSUME LifecycleInv, [TenantNext]_tenantVars
               PROVE  Lifecycle!LifecycleNext \/ UNCHANGED view
    OBVIOUS
  <2>0. /\ \A t \in registry : t \in Tenants /\ schema[t] \in 1..release
        /\ release \in 1..MaxRelease /\ None \notin 1..release
        /\ schema \in [Databases -> 0..MaxRelease \cup {None}] /\ Tenants \subseteq Databases
        /\ admin \in [Tenants -> {"absent", "created", "owned"}]
    BY TenantAssumption DEF LifecycleInv, TypeInv, Databases
  <2>1. ASSUME NEW s \in Requests PROVE Established(req[s]) /\ req[s] \in TenantCall \cup {Idle}
    BY DEF LifecycleInv, TypeInv
  <2>2. ASSUME NEW s \in Requests, CreateDatabase(s) PROVE UNCHANGED view
    <3>1. \A t \in registry : schema'[t] = schema[t]
      BY <2>0, <2>2 DEF CreateDatabase
    <3>2. QED
      BY <2>2, <3>1, NotSeen DEF CreateDatabase
  <2>3. ASSUME NEW s \in Requests, MigrateDeploy(s)
        PROVE  Lifecycle!LifecycleNext \/ UNCHANGED view
    <3>1. PICK t \in Tenants : t = req[s].tenant
      BY <2>1, <2>3, CallFields DEF MigrateDeploy
    <3>2. QED
      BY <2>3, <3>1, MigrationSeen DEF MigrateDeploy, serverVars
  <2>4. ASSUME NEW s \in Requests, RegisterTenant(s) PROVE Lifecycle!LifecycleNext
    <3>0. PICK t \in Tenants : t = req[s].tenant
      BY <2>1, <2>4, CallFields DEF RegisterTenant
    <3>1. schema[t] \in 1..MaxRelease
      BY <2>0, <2>1, <2>4, <3>0 DEF RegisterTenant, Established
    <3>2. t \notin registry /\ registry' = registry \cup {t} /\ UNCHANGED <<schema, admin>>
      BY <2>4, <3>0 DEF RegisterTenant
    <3>3. version' = [version EXCEPT ![t] = schema[t]] /\ staffed' = staffed
      BY <3>1, <3>2 DEF version, staffed
    <3>4. Lifecycle!OpenTenant(t)
      BY <3>1, <3>2, <3>3 DEF Lifecycle!OpenTenant, version, staffed
    <3>5. QED
      BY <3>1, <3>4 DEF Lifecycle!LifecycleNext
  <2>5. ASSUME NEW s \in Requests, CreateSuperAdmin(s) PROVE Lifecycle!LifecycleNext
    <3>0. PICK t \in Tenants : t = req[s].tenant
      BY <2>1, <2>5, CallFields DEF CreateSuperAdmin
    <3>1. t \in registry
      BY <2>1, <2>5, <3>0 DEF CreateSuperAdmin, Established
    <3>2. /\ admin[t] = "absent" /\ admin' = [admin EXCEPT ![t] = "created"]
          /\ UNCHANGED <<schema, registry>>
      BY <2>5, <3>0 DEF CreateSuperAdmin
    <3>3. version' = version /\ t \notin staffed /\ staffed' = staffed \cup {t}
      BY <2>0, <3>1, <3>2 DEF version, staffed
    <3>4. Lifecycle!Staff(t)
      BY <3>1, <3>2, <3>3 DEF Lifecycle!Staff, version, staffed
    <3>5. QED
      BY <3>1, <3>4 DEF Lifecycle!LifecycleNext
  <2>6. ASSUME NEW s \in Requests, OwnSuperAdmin(s) PROVE UNCHANGED view
    <3>0. PICK t \in Tenants : t = req[s].tenant
      BY <2>1, <2>6, CallFields DEF OwnSuperAdmin
    <3>1. admin[t] # "absent" /\ t \in registry
      BY <2>1, <2>6, <3>0 DEF OwnSuperAdmin, Established
    <3>2. admin' = [admin EXCEPT ![t] = "owned"] /\ UNCHANGED <<schema, registry>>
      BY <2>6, <3>0 DEF OwnSuperAdmin
    <3>3. version' = version /\ staffed' = staffed
      BY <2>0, <3>1, <3>2 DEF version, staffed
    <3>4. QED
      BY <3>2, <3>3 DEF view
  <2>7. ASSUME NEW s \in Requests, ProvisionStep(s)
        PROVE  Lifecycle!LifecycleNext \/ UNCHANGED view
    <3>1. ASSUME NEW t \in Tenants, Provision(s, t) PROVE UNCHANGED view
      BY <3>1, NotSeen DEF Provision
    <3>2. QED
      BY <2>2, <2>3, <2>4, <2>5, <2>6, <2>7, <3>1 DEF ProvisionStep
  <2>8. ASSUME NEW s \in Requests, ResolveStep(s) PROVE UNCHANGED view
    BY <2>8, NotSeen DEF ResolveStep, Hit, Miss, Connect, Serve
  <2>9. ASSUME NEW s \in Requests, FanoutStep(s)
        PROVE  Lifecycle!LifecycleNext \/ UNCHANGED view
    <3>1. CASE MigrateSkeleton(s)
      <4>1. \A t \in registry : schema'[t] = schema[t]
        BY <2>0, <3>1, TenantAssumption DEF MigrateSkeleton
      <4>2. QED
        BY <3>1, <4>1, NotSeen DEF MigrateSkeleton
    <3>2. ASSUME NEW t \in Tenants, MigrateTenant(s, t)
          PROVE  Lifecycle!LifecycleNext \/ UNCHANGED view
      BY <3>2, MigrationSeen DEF MigrateTenant
    <3>3. CASE ReadStage(s) \/ FanoutDone(s)
      BY <3>3, NotSeen DEF ReadStage, FanoutDone
    <3>4. ASSUME NEW stages, Fanout(s, stages) PROVE UNCHANGED view
      BY <3>4, NotSeen DEF Fanout
    <3>5. QED
      BY <2>9, <3>1, <3>2, <3>3, <3>4 DEF FanoutStep
  <2>10. ASSUME NEW s \in Requests, Fail(s) PROVE UNCHANGED view
    BY <2>10, NotSeen DEF Fail
  <2>11. ASSUME NEW r \in 1..MaxRelease, Restart(r) PROVE UNCHANGED view
    BY <2>11, NotSeen DEF Restart
  <2>12. CASE UNCHANGED tenantVars
    BY <2>12, NotSeen DEF tenantVars
  <2>13. QED
    BY <2>7, <2>8, <2>9, <2>10, <2>11, <2>12 DEF TenantNext
<1>2. QED
  BY InitView, <1>1, LifecycleHolds, PTL
     DEF TenantSpec, TenantLifecycleSpec, Lifecycle!LifecycleSpec, view, version, staffed

-----------------------------------------------------------------------------
Connecting(s, t) == req[s].op = "connect" /\ req[s].tenant = t

\* Of a tenant whose first requests have not overlapped, one call at most is
\* connecting, and none once a client is open: the client is in the map then.
ClientInv ==
    \A t \in Tenants \ raced :
        /\ opened[t] <= 1
        /\ opened[t] = 1 => t \in clients
        /\ \A s \in Requests : Connecting(s, t) => opened[t] = 0
        /\ \A r, s \in Requests : Connecting(r, t) /\ Connecting(s, t) => r = s

\* The call in slot s goes on, without a connection.
Elsewhere(s) ==
    /\ req' = [req EXCEPT ![s] = req'[s]] /\ req'[s].op # "connect"
    /\ UNCHANGED <<clients, opened, raced>>

LEMMA ElsewhereInv ==
  ASSUME LifecycleInv, ClientInv, NEW s \in Requests, Elsewhere(s)
  PROVE  ClientInv'
<1>1. \A r \in Requests, t \in Tenants : Connecting(r, t)' => Connecting(r, t)
  BY DEF LifecycleInv, TypeInv, Elsewhere, Connecting
<1>2. QED
  BY <1>1 DEF Elsewhere, ClientInv

LEMMA NextClientInv ==
  LifecycleInv /\ ClientInv /\ [TenantNext]_tenantVars => ClientInv'
<1> SUFFICES ASSUME LifecycleInv, ClientInv, [TenantNext]_tenantVars PROVE ClientInv'
  OBVIOUS
<1>0. ASSUME NEW s \in Requests
      PROVE  s \in DOMAIN req /\ Established(req[s]) /\ req[s] \in TenantCall \cup {Idle}
  BY DEF LifecycleInv, TypeInv
<1>1. ASSUME NEW s \in Requests, ProvisionStep(s) PROVE ClientInv'
  <2>1. ASSUME NEW t \in Tenants, Provision(s, t) PROVE Elsewhere(s)
    BY <1>0, <2>1 DEF Provision, Begin, Goto, Elsewhere, serverVars
  <2>2. ASSUME CreateDatabase(s) \/ MigrateDeploy(s) \/ CreateSuperAdmin(s) PROVE Elsewhere(s)
    BY <1>0, <2>2 DEF CreateDatabase, MigrateDeploy, CreateSuperAdmin, At, Goto, Elsewhere,
                      serverVars
  <2>3. ASSUME RegisterTenant(s) \/ OwnSuperAdmin(s) PROVE Elsewhere(s)
    BY <1>0, <2>3 DEF RegisterTenant, OwnSuperAdmin, Goto, Idle, Elsewhere, serverVars
  <2>4. QED
    BY <1>1, <2>1, <2>2, <2>3, ElsewhereInv DEF ProvisionStep
<1>2. ASSUME NEW s \in Requests, Miss(s) PROVE ClientInv'
  <2>1. PICK t \in Tenants : t = req[s].tenant
    BY <1>0, <1>2, CallFields DEF Miss
  <2>2. req' = [req EXCEPT ![s] = req'[s]] /\ req'[s].op = "connect" /\ req'[s].tenant = t
    BY <1>0, <1>2, <2>1, CallFields DEF Miss, Goto
  <2>3. t \notin clients /\ UNCHANGED <<clients, opened>> /\ raced \subseteq raced'
    BY <1>2, <2>1 DEF Miss
  <2>4. t \notin raced' => \A r \in Requests : ~Connecting(r, t)
    BY <1>2, <2>1 DEF Miss, Connecting
  <2>5. \A r \in Requests, u \in Tenants : Connecting(r, u)' => Connecting(r, u) \/ (r = s /\ u = t)
    BY <2>2 DEF LifecycleInv, TypeInv, Connecting
  <2>6. opened[t] \in Nat
    BY DEF LifecycleInv, TypeInv
  <2>7. QED
    BY <2>3, <2>4, <2>5, <2>6 DEF ClientInv
<1>3. ASSUME NEW s \in Requests, Connect(s) PROVE ClientInv'
  <2>1. PICK t \in Tenants : t = req[s].tenant
    BY <1>0, <1>3, CallFields DEF Connect
  <2>2. req' = [req EXCEPT ![s] = req'[s]] /\ req'[s].op # "connect"
    BY <1>0, <1>3 DEF Connect, Resolved, At, Goto, Idle
  <2>3. opened' = [opened EXCEPT ![t] = opened[t] + 1] /\ clients' = clients \cup {t} /\ raced' = raced
    BY <1>3, <2>1 DEF Connect
  <2>4. Connecting(s, t) /\ opened \in [Tenants -> Nat]
    BY <1>3, <2>1 DEF Connect, Connecting, LifecycleInv, TypeInv
  <2>5. \A r \in Requests, u \in Tenants : Connecting(r, u)' => Connecting(r, u) /\ r # s
    BY <2>2 DEF LifecycleInv, TypeInv, Connecting
  <2>6. ASSUME NEW u \in Tenants \ raced', u # t
        PROVE  opened'[u] = opened[u] /\ (u \in clients' <=> u \in clients)
    BY <2>3, <2>4, <2>6
  <2>7. t \notin raced' => opened'[t] = 1 /\ \A r \in Requests : ~Connecting(r, t)'
    BY <2>3, <2>4, <2>5 DEF ClientInv
  <2>8. QED
    BY <2>3, <2>5, <2>6, <2>7 DEF ClientInv
<1>4. ASSUME NEW s \in Requests, Hit(s) \/ \E t \in Tenants : Serve(s, t) PROVE ClientInv'
  <2>1. Elsewhere(s)
    BY <1>0, <1>4 DEF Hit, Resolved, At, Serve, Begin, Goto, Idle, Elsewhere, serverVars
  <2>2. QED
    BY <2>1, ElsewhereInv
<1>5. ASSUME NEW s \in Requests, FanoutStep(s) PROVE ClientInv'
  <2>1. ASSUME NEW stages, Fanout(s, stages) PROVE Elsewhere(s)
    BY <1>0, <2>1 DEF Fanout, Begin, Goto, Elsewhere, serverVars
  <2>2. ASSUME MigrateSkeleton(s) PROVE Elsewhere(s)
    BY <1>0, <2>2, CallFields DEF MigrateSkeleton, Goto, Elsewhere, serverVars
  <2>3. ASSUME ReadStage(s) PROVE Elsewhere(s)
    BY <1>0, <2>3, CallFields DEF ReadStage, Goto, Elsewhere, serverVars
  <2>4. ASSUME FanoutDone(s) PROVE Elsewhere(s)
    BY <1>0, <2>4 DEF FanoutDone, Goto, Idle, Elsewhere
  <2>5. ASSUME NEW t \in Tenants, MigrateTenant(s, t) PROVE Elsewhere(s)
    BY <1>0, <2>5, CallFields DEF MigrateTenant, Goto, Elsewhere, serverVars
  <2>6. QED
    BY <1>5, <2>1, <2>2, <2>3, <2>4, <2>5, ElsewhereInv DEF FanoutStep
<1>6. ASSUME NEW s \in Requests, Fail(s) PROVE ClientInv'
  <2>1. Elsewhere(s)
    BY <1>0, <1>6 DEF Fail, Goto, Idle, Elsewhere, serverVars
  <2>2. QED
    BY <2>1, ElsewhereInv
<1>7. ASSUME NEW r \in 1..MaxRelease, Restart(r) PROVE ClientInv'
  BY <1>7 DEF Restart, ClientInv, Connecting, Idle
<1>8. CASE UNCHANGED tenantVars
  BY <1>8 DEF tenantVars, ClientInv, Connecting
<1>9. QED
  BY <1>1, <1>2, <1>3, <1>4, <1>5, <1>6, <1>7, <1>8 DEF TenantNext, ResolveStep

\* TenantClientRegistryService.resolve keeps its promise of one client per tenant
\* for as long as the first requests of the tenant do not overlap: two that find
\* the map without the tenant are the only way to a second client.
THEOREM OneClient == TenantSpec => []OneClientPerTenant
<1>1. TenantInit => ClientInv
  <2> SUFFICES ASSUME TenantInit PROVE ClientInv
    OBVIOUS
  <2>1. \A s \in Requests, t \in Tenants : ~Connecting(s, t)
    BY DEF TenantInit, Idle, Connecting
  <2>2. \A t \in Tenants : opened[t] = 0
    BY DEF TenantInit
  <2>3. QED
    BY <2>1, <2>2, 0 <= 1, 0 # 1 DEF ClientInv
<1>2. ClientInv => OneClientPerTenant
  BY DEF ClientInv, OneClientPerTenant
<1>3. QED
  BY <1>1, <1>2, NextClientInv, LifecycleHolds, PTL DEF TenantSpec

-----------------------------------------------------------------------------
\* What is left of the stages of a fan-out over all types.
Suffixes == {<<"testing", "demo", "live">>, <<"demo", "live">>, <<"live">>, <<>>}

\* A tenant of a stage that the call has begun has the release, or it is of the
\* stage in progress and still to be migrated.
BegunIsDone(c) ==
    \A i \in 1..(3 - Len(c.stages)), t \in registry :
        TypeOf[t] = StageOrder[i] /\ ~Current(t) => i = 3 - Len(c.stages) /\ t \in c.left

StagedCall(c) ==
    /\ c.op = "migrated" => Current(c.tenant)
    /\ c.op = "fanout" => Current(Skeleton)
    /\ c.op = "skeleton" /\ c.all => c.stages = StageOrder
    /\ c.op = "fanout" /\ c.all => c.stages \in Suffixes /\ BegunIsDone(c)

StagedInv ==
    /\ \A s \in Requests : StagedCall(req[s])
    /\ fanned => \A d \in registry \cup {Skeleton} : Current(d)

\* The call in slot s goes on; a database that has the release keeps it, and a
\* tenant that is registered by the step has it.
KeepsRelease(s) ==
    /\ req' = [req EXCEPT ![s] = req'[s]] /\ StagedCall(req[s])'
    /\ \A d \in Databases : Current(d) => Current(d)'
    /\ registry \subseteq registry' /\ \A t \in registry' \ registry : Current(t)'
    /\ fanned' => fanned \/ \A d \in registry' \cup {Skeleton} : Current(d)'

LEMMA KeepsReleaseInv ==
  ASSUME LifecycleInv, StagedInv, NEW s \in Requests, KeepsRelease(s)
  PROVE  StagedInv'
<1>0. /\ registry \subseteq Databases /\ Skeleton \in Databases /\ Tenants \subseteq Databases
      /\ s \in DOMAIN req
  BY DEF LifecycleInv, TypeInv, Databases
<1>1. ASSUME NEW r \in Requests PROVE StagedCall(req[r])'
  <2>1. CASE r = s
    BY <2>1 DEF KeepsRelease
  <2>2. CASE r # s
    <3>1. req'[r] = req[r] /\ StagedCall(req[r]) /\ req[r] \in TenantCall \cup {Idle}
      BY <2>2 DEF KeepsRelease, StagedInv, LifecycleInv, TypeInv
    <3>2. req[r].op = "migrated" => req[r].tenant \in Databases
      BY <1>0, <3>1, CallFields
    <3>3. BegunIsDone(req[r]) => BegunIsDone(req[r])'
      BY <1>0, <3>1 DEF KeepsRelease, BegunIsDone
    <3>4. QED
      BY <1>0, <3>1, <3>2, <3>3 DEF KeepsRelease, StagedCall
  <2>3. QED
    BY <2>1, <2>2
<1>2. fanned' => \A d \in registry' \cup {Skeleton} : Current(d)'
  BY <1>0 DEF KeepsRelease, StagedInv
<1>3. QED
  BY <1>1, <1>2 DEF StagedInv

\* The call in slot s goes on to something that no fan-out looks at.
Aside(s) ==
    /\ req' = [req EXCEPT ![s] = req'[s]]
    /\ req'[s].op \notin {"migrated", "fanout", "skeleton"}
    /\ UNCHANGED <<release, schema, registry, fanned>>

LEMMA AsideInv ==
  ASSUME LifecycleInv, StagedInv, NEW s \in Requests, Aside(s)
  PROVE  StagedInv'
<1>1. KeepsRelease(s)
  BY DEF Aside, KeepsRelease, StagedCall, Current
<1>2. QED
  BY <1>1, KeepsReleaseInv

LEMMA SuffixFacts ==
  ASSUME NEW q \in Suffixes
  PROVE  /\ Len(q) \in 0..3
         /\ q # <<>> => /\ Tail(q) \in Suffixes /\ Len(Tail(q)) = Len(q) - 1
                        /\ Head(q) = StageOrder[4 - Len(q)]
<1>1. CASE q = <<"testing", "demo", "live">>
  BY <1>1 DEF Suffixes, StageOrder
<1>2. CASE q = <<"demo", "live">>
  BY <1>2 DEF Suffixes, StageOrder
<1>3. CASE q = <<"live">>
  BY <1>3 DEF Suffixes, StageOrder
<1>4. CASE q = <<>>
  BY <1>4
<1>5. QED
  BY <1>1, <1>2, <1>3, <1>4 DEF Suffixes

LEMMA ProvisionStepStaged ==
  ASSUME LifecycleInv, StagedInv, NEW s \in Requests, ProvisionStep(s)
  PROVE  StagedInv'
<1>0. /\ s \in DOMAIN req /\ req[s] \in TenantCall \cup {Idle} /\ StagedCall(req[s])
      /\ schema \in [Databases -> 0..MaxRelease \cup {None}] /\ Tenants \subseteq Databases
      /\ None # release
      /\ registry \subseteq Tenants
  BY TenantAssumption DEF LifecycleInv, TypeInv, StagedInv, Databases
<1>1. ASSUME NEW t \in Tenants, Provision(s, t) PROVE Aside(s)
  BY <1>0, <1>1 DEF Provision, Begin, Goto, Aside, serverVars
<1>2. ASSUME CreateSuperAdmin(s) \/ OwnSuperAdmin(s) PROVE Aside(s)
  BY <1>0, <1>2 DEF CreateSuperAdmin, OwnSuperAdmin, At, Goto, Idle, Aside, serverVars
<1>3. ASSUME CreateDatabase(s) PROVE KeepsRelease(s)
  <2>1. PICK t \in Tenants : t = req[s].tenant
    BY <1>0, <1>3, CallFields DEF CreateDatabase
  <2>2. /\ req' = [req EXCEPT ![s] = req'[s]] /\ req'[s].op = "created"
        /\ UNCHANGED <<registry, release, fanned>>
    BY <1>0, <1>3 DEF CreateDatabase, At, Goto, serverVars
  <2>3. schema[t] = None /\ schema' = [schema EXCEPT ![t] = 0]
    BY <1>3, <2>1 DEF CreateDatabase
  <2>4. \A d \in Databases : Current(d) => Current(d)'
    BY <1>0, <2>1, <2>2, <2>3 DEF Current
  <2>5. StagedCall(req[s])'
    BY <2>2 DEF StagedCall
  <2>6. QED
    BY <2>2, <2>4, <2>5 DEF KeepsRelease
<1>4. ASSUME MigrateDeploy(s) PROVE KeepsRelease(s)
  <2>1. PICK t \in Tenants : t = req[s].tenant
    BY <1>0, <1>4, CallFields DEF MigrateDeploy
  <2>2. /\ req' = [req EXCEPT ![s] = req'[s]] /\ req'[s].op = "migrated" /\ req'[s].tenant = t
        /\ UNCHANGED <<registry, release, fanned>>
    BY <1>0, <1>4, <2>1 DEF MigrateDeploy, At, Goto, serverVars
  <2>3. schema' = [schema EXCEPT ![t] = release]
    BY <1>4, <2>1 DEF MigrateDeploy
  <2>4. Current(t)' /\ \A d \in Databases : Current(d) => Current(d)'
    BY <1>0, <2>1, <2>2, <2>3 DEF Current
  <2>5. StagedCall(req[s])'
    BY <2>2, <2>4 DEF StagedCall, Current
  <2>6. QED
    BY <2>2, <2>4, <2>5 DEF KeepsRelease
<1>5. ASSUME RegisterTenant(s) PROVE KeepsRelease(s)
  <2>1. PICK t \in Tenants : t = req[s].tenant
    BY <1>0, <1>5, CallFields DEF RegisterTenant
  <2>2. /\ req' = [req EXCEPT ![s] = req'[s]] /\ req'[s].op = "lookup"
        /\ registry' = registry \cup {t} /\ UNCHANGED <<schema, release, fanned>>
    BY <1>0, <1>5, <2>1 DEF RegisterTenant, Goto, serverVars
  <2>3. Current(t) /\ \A d \in Databases : Current(d)' = Current(d)
    BY <1>0, <1>5, <2>1, <2>2 DEF RegisterTenant, StagedCall, Current
  <2>4. StagedCall(req[s])'
    BY <2>2 DEF StagedCall
  <2>5. QED
    BY <1>0, <2>1, <2>2, <2>3, <2>4 DEF KeepsRelease
<1>6. QED
  BY <1>1, <1>2, <1>3, <1>4, <1>5, AsideInv, KeepsReleaseInv DEF ProvisionStep

LEMMA ResolveStepStaged ==
  ASSUME LifecycleInv, StagedInv, NEW s \in Requests, ResolveStep(s)
  PROVE  StagedInv'
<1>0. s \in DOMAIN req /\ req[s] \in TenantCall \cup {Idle}
  BY DEF LifecycleInv, TypeInv
<1>1. ASSUME NEW t \in Tenants, Serve(s, t) PROVE Aside(s)
  BY <1>0, <1>1 DEF Serve, Begin, Goto, Aside, serverVars
<1>2. ASSUME Hit(s) \/ Connect(s) PROVE Aside(s)
  BY <1>0, <1>2 DEF Hit, Connect, Resolved, At, Goto, Idle, Aside, serverVars
<1>3. ASSUME Miss(s) PROVE Aside(s)
  BY <1>0, <1>3, CallFields DEF Miss, Goto, Aside
<1>4. QED
  BY <1>1, <1>2, <1>3, AsideInv DEF ResolveStep

LEMMA FanoutStepStaged ==
  ASSUME LifecycleInv, StagedInv, NEW s \in Requests, FanoutStep(s)
  PROVE  StagedInv'
<1> DEFINE c == req[s]
<1>0. /\ s \in DOMAIN req /\ c \in TenantCall \cup {Idle} /\ StagedCall(c)
      /\ schema \in [Databases -> 0..MaxRelease \cup {None}]
      /\ Tenants \subseteq Databases /\ Skeleton \in Databases /\ registry \subseteq Tenants
  BY DEF LifecycleInv, TypeInv, StagedInv, Databases
<1>1. ASSUME NEW stages, Fanout(s, stages) PROVE KeepsRelease(s)
  <2>1. /\ req' = [req EXCEPT ![s] = req'[s]] /\ req'[s].op = "skeleton"
        /\ req'[s].all => req'[s].stages = StageOrder
        /\ UNCHANGED <<schema, registry, release, fanned>>
    BY <1>0, <1>1 DEF Fanout, Begin, Goto, serverVars
  <2>2. StagedCall(req[s])'
    BY <2>1 DEF StagedCall
  <2>3. QED
    BY <2>1, <2>2 DEF KeepsRelease, Current
<1>2. ASSUME MigrateSkeleton(s) PROVE KeepsRelease(s)
  <2>1. /\ req' = [req EXCEPT ![s] = req'[s]] /\ req'[s].op = "fanout"
        /\ req'[s].all = c.all /\ req'[s].stages = c.stages
        /\ UNCHANGED <<registry, release, fanned>>
    BY <1>0, <1>2, CallFields DEF MigrateSkeleton, Goto, serverVars
  <2>2. schema' = [schema EXCEPT ![Skeleton] = release]
    BY <1>2 DEF MigrateSkeleton
  <2>3. Current(Skeleton)' /\ \A d \in Databases : Current(d) => Current(d)'
    BY <1>0, <2>1, <2>2 DEF Current
  <2>4. StageOrder \in Suffixes /\ Len(StageOrder) = 3
    BY DEF StageOrder, Suffixes
  <2>5. ASSUME c.all PROVE req'[s].stages \in Suffixes /\ BegunIsDone(req[s])'
    <3>1. req'[s].stages = StageOrder
      BY <1>0, <1>2, <2>1, <2>5 DEF MigrateSkeleton, StagedCall
    <3>2. 3 - Len(req'[s].stages) = 0
      <4>1. Len(req'[s].stages) = 3
        BY <2>4, <3>1
      <4>2. \A n : n = 3 => 3 - n = 0
        OBVIOUS
      <4>3. QED
        BY <4>1, <4>2
    <3>3. 1..(3 - Len(req'[s].stages)) = {}
      BY <3>2, 1..0 = {}
    <3>4. BegunIsDone(req[s])'
      BY <3>3 DEF BegunIsDone
    <3>5. QED
      BY <2>4, <3>1, <3>4
  <2>6. StagedCall(req[s])'
    BY <2>1, <2>3, <2>4, <2>5 DEF StagedCall
  <2>7. QED
    BY <2>1, <2>3, <2>6 DEF KeepsRelease
<1>3. ASSUME ReadStage(s) PROVE KeepsRelease(s)
  <2> DEFINE rows == {t \in registry : TypeOf[t] = Head(c.stages)}
  <2>1. req' = [req EXCEPT ![s] = [c EXCEPT !.stages = Tail(@), !.left = rows]]
    BY <1>3 DEF ReadStage, Goto
  <2>2. /\ req' = [req EXCEPT ![s] = req'[s]] /\ req'[s].op = "fanout"
        /\ req'[s].all = c.all /\ req'[s].stages = Tail(c.stages) /\ req'[s].left = rows
        /\ UNCHANGED <<schema, registry, release, fanned>>
    BY <1>0, <1>3, <2>1, CallFields DEF ReadStage, serverVars
  <2>3. \A d : Current(d)' = Current(d)
    BY <2>2 DEF Current
  <2>4. c.op = "fanout" /\ c.left = {} /\ c.stages # <<>> /\ Current(Skeleton)
    BY <1>0, <1>3 DEF ReadStage, StagedCall
  <2>5. ASSUME c.all PROVE Tail(c.stages) \in Suffixes /\ BegunIsDone(req[s])'
    <3>1. BegunIsDone(c) /\ c.stages \in Suffixes
      BY <1>0, <2>4, <2>5 DEF StagedCall
    <3>2. /\ Len(c.stages) \in 0..3 /\ Len(Tail(c.stages)) = Len(c.stages) - 1
          /\ Tail(c.stages) \in Suffixes /\ Head(c.stages) = StageOrder[4 - Len(c.stages)]
      BY <2>4, <3>1, SuffixFacts
    <3>3. ASSUME NEW i \in 1..(4 - Len(c.stages)), NEW t \in registry,
                 TypeOf[t] = StageOrder[i], ~Current(t)
          PROVE  i = 4 - Len(c.stages) /\ t \in rows
      <4>1. i \notin 1..(3 - Len(c.stages))
        BY <2>4, <3>1, <3>3 DEF BegunIsDone
      <4>2. i = 4 - Len(c.stages)
        BY <3>2, <4>1
      <4>3. QED
        BY <3>2, <3>3, <4>2
    <3>4. 3 - Len(req'[s].stages) = 4 - Len(c.stages)
      BY <2>2, <3>2
    <3>5. BegunIsDone(req[s])'
      BY <2>2, <2>3, <3>3, <3>4 DEF BegunIsDone
    <3>6. QED
      BY <3>2, <3>5
  <2>6. StagedCall(req[s])'
    BY <2>2, <2>3, <2>4, <2>5 DEF StagedCall
  <2>7. QED
    BY <2>2, <2>3, <2>6 DEF KeepsRelease
<1>4. ASSUME NEW t \in Tenants, MigrateTenant(s, t) PROVE KeepsRelease(s)
  <2>1. /\ req' = [req EXCEPT ![s] = req'[s]] /\ req'[s].op = "fanout"
        /\ req'[s].all = c.all /\ req'[s].stages = c.stages /\ req'[s].left = c.left \ {t}
        /\ UNCHANGED <<registry, release, fanned>>
    BY <1>0, <1>4, CallFields DEF MigrateTenant, Goto, serverVars
  <2>2. c.op = "fanout" /\ schema' = [schema EXCEPT ![t] = release]
    BY <1>4 DEF MigrateTenant
  <2>3. Current(t)' /\ \A d \in Databases : Current(d) => Current(d)'
    BY <1>0, <2>1, <2>2 DEF Current
  <2>4. BegunIsDone(c) => BegunIsDone(req[s])'
    BY <1>0, <2>1, <2>3 DEF BegunIsDone
  <2>5. StagedCall(req[s])'
    BY <1>0, <2>1, <2>2, <2>3, <2>4 DEF StagedCall
  <2>6. QED
    BY <2>1, <2>3, <2>5 DEF KeepsRelease
<1>5. ASSUME FanoutDone(s) PROVE KeepsRelease(s)
  <2>1. /\ req' = [req EXCEPT ![s] = req'[s]] /\ req'[s].op = "idle"
        /\ UNCHANGED <<schema, registry, release>> /\ fanned' = (fanned \/ c.all)
    BY <1>0, <1>5 DEF FanoutDone, Goto, Idle
  <2>2. \A d : Current(d)' = Current(d)
    BY <2>1 DEF Current
  <2>3. ASSUME c.all PROVE \A d \in registry \cup {Skeleton} : Current(d)
    <3>1. BegunIsDone(c) /\ c.left = {} /\ Len(c.stages) = 0 /\ Current(Skeleton)
      BY <1>0, <1>5, <2>3 DEF FanoutDone, StagedCall
    <3>2. \A type \in Types : \E i \in 1..3 : type = StageOrder[i]
      <4>1. StageOrder[1] = "testing" /\ StageOrder[2] = "demo" /\ StageOrder[3] = "live"
        BY DEF StageOrder
      <4>2. QED
        BY <4>1, 1 \in 1..3, 2 \in 1..3, 3 \in 1..3 DEF Types
    <3>3. ASSUME NEW t \in registry PROVE Current(t)
      <4>1. TypeOf[t] \in Types
        BY <1>0, TenantAssumption
      <4>2. PICK i \in 1..3 : TypeOf[t] = StageOrder[i]
        BY <3>2, <4>1
      <4>3. i \in 1..(3 - Len(c.stages)) /\ t \notin c.left
        BY <3>1
      <4>4. QED
        BY <3>1, <4>2, <4>3 DEF BegunIsDone
    <3>4. QED
      BY <3>1, <3>3
  <2>4. StagedCall(req[s])'
    BY <2>1 DEF StagedCall
  <2>5. QED
    BY <2>1, <2>2, <2>3, <2>4 DEF KeepsRelease
<1>6. QED
  BY <1>1, <1>2, <1>3, <1>4, <1>5, KeepsReleaseInv DEF FanoutStep

\* A fan-out goes stage by stage: with a tenant of a later stage in work, or all
\* stages through, the skeleton and every tenant of the earlier stages have the
\* release, those registered in the meantime included, for any number of
\* fan-outs and provisionings at once.
THEOREM FanoutKeepsStages == TenantSpec => []FanoutIsStaged
<1>1. TenantInit => StagedInv
  BY DEF TenantInit, StagedInv, StagedCall, Idle
<1>2. LifecycleInv /\ StagedInv /\ [TenantNext]_tenantVars => StagedInv'
  <2> SUFFICES ASSUME LifecycleInv, StagedInv, [TenantNext]_tenantVars PROVE StagedInv'
    OBVIOUS
  <2>1. ASSUME NEW s \in Requests, Fail(s) PROVE StagedInv'
    <3>1. Aside(s)
      BY <2>1 DEF Fail, Goto, Idle, Aside, LifecycleInv, TypeInv, serverVars
    <3>2. QED
      BY <3>1, AsideInv
  <2>2. ASSUME NEW r \in 1..MaxRelease, Restart(r) PROVE StagedInv'
    <3>1. \A s \in Requests : StagedCall(req[s])'
      BY <2>2 DEF Restart, StagedCall, Idle
    <3>2. fanned' => \A d \in registry' \cup {Skeleton} : Current(d)'
      BY <2>2 DEF Restart, StagedInv, Current
    <3>3. QED
      BY <3>1, <3>2 DEF StagedInv
  <2>3. CASE UNCHANGED tenantVars
    BY <2>3 DEF tenantVars, StagedInv, StagedCall, BegunIsDone, Current
  <2>4. QED
    BY <2>1, <2>2, <2>3, ProvisionStepStaged, ResolveStepStaged, FanoutStepStaged
       DEF TenantNext
<1>3. StagedInv => FanoutIsStaged
  BY DEF StagedInv, StagedCall, BegunIsDone, FanoutIsStaged
<1>4. QED
  BY <1>1, <1>2, <1>3, LifecycleHolds, PTL DEF TenantSpec

\* What a fan-out has left is always the end of the stages, or one of them alone.
StagesInv ==
    /\ fanned \in BOOLEAN
    /\ \A s \in Requests : req[s].op \in {"fanout", "skeleton"} => req[s].stages \in Stages

LEMMA StagesFacts ==
    /\ StageOrder \in Stages /\ \A type \in Types : <<type>> \in Stages
    /\ \A q \in Stages : q # <<>> => Tail(q) \in Stages
<1>1. StageOrder \in Seq(Types) /\ Len(StageOrder) = 3
  BY DEF StageOrder, Types
<1>2. \A i \in 1..4 : SubSeq(StageOrder, i, 3) \in Stages
  BY DEF Stages
<1>3. StageOrder \in Stages
  <2>1. SubSeq(StageOrder, 1, Len(StageOrder)) = StageOrder
    BY <1>1, SubSeqFull
  <2>2. SubSeq(StageOrder, 1, 3) = StageOrder
    BY <1>1, <2>1
  <2>. QED  BY <1>2, <2>2, 1 \in 1..4
<1>4. <<>> \in Stages
  <2>1. SubSeq(StageOrder, 4, 3) = <<>>
    BY SubSeqEmpty
  <2>. QED  BY <1>2, <2>1, 4 \in 1..4
<1>5. ASSUME NEW type \in Types PROVE <<type>> \in Stages /\ Tail(<<type>>) = <<>>
  BY DEF Stages
<1>6. ASSUME NEW i \in 1..4, SubSeq(StageOrder, i, 3) # <<>>
      PROVE  Tail(SubSeq(StageOrder, i, 3)) \in Stages
  <2>1. i \in 1..3
    BY <1>6, SubSeqEmpty
  <2>2. Tail(SubSeq(StageOrder, i, 3)) = SubSeq(StageOrder, i + 1, 3)
    BY <1>1, <2>1, HeadTailOfSubSeq
  <2>3. i + 1 \in 1..4
    BY <2>1
  <2>. QED  BY <1>2, <2>2, <2>3
<1>7. ASSUME NEW q \in Stages, q # <<>> PROVE Tail(q) \in Stages
  <2>1. (\E i \in 1..4 : q = SubSeq(StageOrder, i, 3)) \/ \E type \in Types : q = <<type>>
    BY DEF Stages
  <2>2. CASE \E i \in 1..4 : q = SubSeq(StageOrder, i, 3)
    BY <1>6, <1>7, <2>2
  <2>3. CASE \E type \in Types : q = <<type>>
    BY <1>4, <1>5, <2>3
  <2>. QED  BY <2>1, <2>2, <2>3
<1>. QED  BY <1>3, <1>5, <1>7

\* Every variable of the tenants keeps its type, whatever fails and restarts; what
\* a fan-out has left to do is the end of the order of stages, or one stage.
THEOREM TenantTyping == TenantSpec => []TenantTypeOK
<1>1. TenantInit => StagesInv
  <2> SUFFICES ASSUME TenantInit PROVE StagesInv
    OBVIOUS
  <2>1. fanned \in BOOLEAN
    BY DEF TenantInit
  <2>2. \A s \in Requests : req[s].op = "idle"
    BY DEF TenantInit, Idle
  <2>. QED  BY <2>1, <2>2 DEF StagesInv
<1>2. LifecycleInv /\ StagesInv /\ [TenantNext]_tenantVars => StagesInv'
  <2> SUFFICES ASSUME LifecycleInv, StagesInv, [TenantNext]_tenantVars PROVE StagesInv'
    OBVIOUS
  <2>0. \A s \in Requests : s \in DOMAIN req /\ req[s] \in TenantCall \cup {Idle}
    BY DEF LifecycleInv, TypeInv
  <2> DEFINE Kept(s) ==
               /\ fanned' \in BOOLEAN /\ req' = [req EXCEPT ![s] = req'[s]]
               /\ req'[s].op \in {"fanout", "skeleton"} => req'[s].stages \in Stages
  <2>1. ASSUME NEW s \in Requests, Kept(s) PROVE StagesInv'
    BY <2>0, <2>1 DEF StagesInv
  <2>2. ASSUME NEW s \in Requests, ProvisionStep(s) \/ Fail(s) PROVE Kept(s)
    BY <2>0, <2>2 DEF StagesInv, ProvisionStep, Provision, CreateDatabase, MigrateDeploy, RegisterTenant,
         CreateSuperAdmin, OwnSuperAdmin, Fail, Begin, At, Goto, Idle, serverVars
  <2>3. ASSUME NEW s \in Requests, ResolveStep(s) PROVE Kept(s)
    <3>1. ASSUME NEW t \in Tenants, Serve(s, t) PROVE Kept(s)
      BY <2>0, <3>1 DEF StagesInv, Serve, Begin, Goto, serverVars
    <3>2. ASSUME Hit(s) \/ Connect(s) PROVE Kept(s)
      BY <2>0, <3>2 DEF StagesInv, Hit, Connect, Resolved, At, Goto, Idle, serverVars
    <3>3. ASSUME Miss(s) PROVE Kept(s)
      BY <2>0, <3>3, CallFields DEF StagesInv, Miss, Goto
    <3>. QED  BY <2>3, <3>1, <3>2, <3>3 DEF ResolveStep
  <2>4. ASSUME NEW s \in Requests, FanoutStep(s) PROVE Kept(s)
    <3> DEFINE c == req[s]
    <3>1. ASSUME NEW stages \in {StageOrder} \cup {<<type>> : type \in Types}, Fanout(s, stages)
          PROVE  Kept(s)
      <4>1. stages \in Stages
        BY StagesFacts
      <4>. QED  BY <2>0, <3>1, <4>1 DEF StagesInv, Fanout, Begin, Goto, serverVars
    <3>2. ASSUME MigrateSkeleton(s) PROVE Kept(s)
      <4>1. c.op = "skeleton" /\ req' = [req EXCEPT ![s] = [c EXCEPT !.op = "fanout"]] /\ fanned' = fanned
        BY <3>2 DEF MigrateSkeleton, Goto, serverVars
      <4>2. c.stages \in Stages
        BY <4>1 DEF StagesInv
      <4>3. req'[s].stages = c.stages /\ req' = [req EXCEPT ![s] = req'[s]]
        BY <2>0, <4>1, CallFields
      <4>. QED  BY <4>1, <4>2, <4>3 DEF StagesInv
    <3>3. ASSUME ReadStage(s) PROVE Kept(s)
      <4>. DEFINE rows == {t \in registry : TypeOf[t] = Head(c.stages)}
      <4>1. c.op = "fanout" /\ c.stages # <<>> /\ fanned' = fanned
            /\ req' = [req EXCEPT ![s] = [c EXCEPT !.stages = Tail(@), !.left = rows]]
        BY <3>3 DEF ReadStage, Goto, serverVars
      <4>2. Tail(c.stages) \in Stages
        BY <4>1, StagesFacts DEF StagesInv
      <4>. HIDE DEF rows
      <4>3. req'[s].stages = Tail(c.stages) /\ req' = [req EXCEPT ![s] = req'[s]]
        BY <2>0, <4>1, CallFields
      <4>. QED  BY <4>1, <4>2, <4>3 DEF StagesInv
    <3>4. ASSUME NEW t \in Tenants, MigrateTenant(s, t) PROVE Kept(s)
      <4>1. c.op = "fanout" /\ req' = [req EXCEPT ![s] = [c EXCEPT !.left = @ \ {t}]] /\ fanned' = fanned
        BY <3>4 DEF MigrateTenant, Goto, serverVars
      <4>2. c.stages \in Stages
        BY <4>1 DEF StagesInv
      <4>3. req'[s].stages = c.stages /\ req' = [req EXCEPT ![s] = req'[s]]
        BY <2>0, <4>1, CallFields
      <4>. QED  BY <4>1, <4>2, <4>3 DEF StagesInv
    <3>5. ASSUME FanoutDone(s) PROVE Kept(s)
      <4>1. req' = [req EXCEPT ![s] = Idle] /\ fanned' = (fanned \/ c.all)
        BY <3>5 DEF FanoutDone, Goto
      <4>2. (fanned \/ c.all) \in BOOLEAN
        OBVIOUS
      <4>3. fanned' \in BOOLEAN
        BY <4>1, <4>2, Zenon
      <4>. QED  BY <2>0, <4>1, <4>3 DEF Idle
    <3>. QED  BY <2>4, <3>1, <3>2, <3>3, <3>4, <3>5 DEF FanoutStep
  <2>5. ASSUME NEW r \in 1..MaxRelease, Restart(r) PROVE StagesInv'
    <3>1. fanned' \in BOOLEAN
      BY <2>5 DEF Restart
    <3>. QED  BY <2>5, <3>1 DEF Restart, StagesInv, Idle
  <2>6. CASE UNCHANGED tenantVars
    BY <2>6 DEF tenantVars, StagesInv
  <2>. QED  BY <2>1, <2>2, <2>3, <2>4, <2>5, <2>6 DEF TenantNext
<1>3. LifecycleInv /\ StagesInv => TenantTypeOK
  <2> SUFFICES ASSUME LifecycleInv, StagesInv, NEW s \in Requests PROVE req[s] \in Call \cup {Idle}
    BY DEF LifecycleInv, TypeInv, TenantTypeOK, StagesInv
  <2>1. req[s] \in TenantCall \cup {Idle}
    BY DEF LifecycleInv, TypeInv
  <2>2. ASSUME NEW c \in [op : {"fanout", "skeleton"}, all : BOOLEAN, stages : Seq(Types), left : SUBSET Tenants],
               c.stages \in Stages
        PROVE  c \in Call
    BY <2>2 DEF Call
  <2>3. req[s].op \in {"fanout", "skeleton"} => req[s].stages \in Stages
    BY DEF StagesInv
  <2>. QED  BY <2>1, <2>2, <2>3 DEF TenantCall, Call
<1>. QED  BY <1>1, <1>2, <1>3, LifecycleHolds, PTL DEF TenantSpec

-----------------------------------------------------------------------------
(* The synchronisation with QuickBooks.                                    *)

SavingAt(u) == {s \in Savers : saver[s] = u}

\* Jobs of a user overlap only if they are noted.
OneJobAtATime ==
    \A u \in SyncUsers \ twice : \A v, w \in WorkingAt(u) : v = w

\* Nothing comes between the read of the sequence and its write.
ReadIsCurrent ==
    \A w \in SyncWorkers : syncer[w] # Free /\ syncer[w].user \notin twice =>
        (syncer[w].at = "read" => syncer[w].next = pointer[syncer[w].user] + 1)

SyncInv == SyncTypeOK /\ OneJobAtATime /\ ReadIsCurrent /\ SyncFollowsSaves

LEMMA InitSyncInv == SyncInit => SyncInv
<1> SUFFICES ASSUME SyncInit PROVE SyncInv
  OBVIOUS
<1> USE SyncAssumption, FreeAssumption
<1>1. SyncTypeOK
  BY DEF SyncInit, SyncTypeOK
<1>2. \A u \in SyncUsers : WorkingAt(u) = {}
  BY DEF SyncInit, WorkingAt
<1>3. OneJobAtATime /\ ReadIsCurrent /\ SavedIsQueued
  BY <1>2 DEF SyncInit, OneJobAtATime, ReadIsCurrent, SavedIsQueued
<1>4. \A u \in SyncUsers : {s \in Savers : saver[s] = u} = {}
  BY DEF SyncInit
<1>5. SequenceCountsJobs
  BY <1>2, <1>4, FS_EmptySet DEF SyncInit, SequenceCountsJobs
<1> QED
  BY <1>1, <1>3, <1>5 DEF SyncInv, SyncFollowsSaves

LEMMA JobFields ==
  ASSUME SyncTypeOK, NEW w \in SyncWorkers, syncer[w] # Free
  PROVE  /\ syncer[w] \in SyncJob
         /\ syncer[w].user \in SyncUsers /\ syncer[w].fresh \in BOOLEAN
         /\ syncer[w].at \in {"found", "read"}
         /\ syncer[w].at = "read" => syncer[w].next \in Nat
BY DEF SyncTypeOK, SyncJob

\* How many jobs of a user are worked at, and saves not enqueued yet.
LEMMA SyncCounts ==
  ASSUME NEW u
  PROVE  /\ IsFiniteSet(WorkingAt(u)) /\ Cardinality(WorkingAt(u)) \in Nat
         /\ IsFiniteSet(SavingAt(u)) /\ Cardinality(SavingAt(u)) \in Nat
BY SyncAssumption, FS_Subset, FS_CardinalityType DEF WorkingAt, SavingAt

\* The equation of a user, in numbers.
LEMMA CountsOf ==
  ASSUME SequenceCountsJobs, NEW u \in SyncUsers \ (twice \cup lost)
  PROVE  saves[u] = pointer[u] + queue[u] + Cardinality(WorkingAt(u)) + Cardinality(SavingAt(u))
BY DEF SequenceCountsJobs, SavingAt

LEMMA CountsNext ==
  ASSUME \A u \in SyncUsers \ (twice' \cup lost') :
            saves'[u] = pointer'[u] + queue'[u] + Cardinality(WorkingAt(u)') + Cardinality(SavingAt(u)')
  PROVE  SequenceCountsJobs'
BY DEF SequenceCountsJobs, SavingAt

\* What a saver leaves as it was.
LEMMA SaverMoves ==
  ASSUME SyncInv, NEW s \in Savers, NEW u \in SyncUsers \cup {Free},
         saver' = [saver EXCEPT ![s] = u]
  PROVE  /\ saver' \in [Savers -> SyncUsers \cup {Free}]
         /\ \A v \in SyncUsers :
               /\ v # saver[s] /\ v # u => SavingAt(v)' = SavingAt(v)
               /\ v = u /\ saver[s] = Free => SavingAt(v)' = SavingAt(v) \cup {s} /\ s \notin SavingAt(v)
               /\ v = saver[s] /\ u = Free => SavingAt(v)' = SavingAt(v) \ {s} /\ s \in SavingAt(v)
BY SyncAssumption DEF SyncInv, SyncTypeOK, SavingAt

LEMMA SaveInv ==
  ASSUME SyncInv, NEW s \in Savers, NEW u \in SyncUsers, Save(s, u)
  PROVE  SyncInv'
<1> USE SyncAssumption, FreeAssumption DEF Save
<1>1. SyncTypeOK /\ OneJobAtATime /\ ReadIsCurrent /\ SavedIsQueued /\ SequenceCountsJobs
  BY DEF SyncInv, SyncFollowsSaves
<1>2. \A w \in SyncWorkers :
         /\ syncer[w] = Free => syncer'[w] = Free
         /\ syncer[w] # Free =>
              /\ syncer'[w] \in SyncJob /\ syncer'[w] # Free
              /\ syncer'[w].user = syncer[w].user /\ syncer'[w].at = syncer[w].at
              /\ syncer[w].at = "read" => syncer'[w].next = syncer[w].next
              /\ syncer[w].user # u => syncer'[w].fresh = syncer[w].fresh
  BY <1>1, JobFields DEF SyncJob, WorkingAt
<1>3. saves' \in [SyncUsers -> 0..MaxSaves] /\ saves' = [saves EXCEPT ![u] = saves[u] + 1]
  BY <1>1 DEF SyncTypeOK
<1>4. SyncTypeOK'
  BY <1>1, <1>2, <1>3, SaverMoves DEF SyncTypeOK
<1>5. \A v \in SyncUsers : WorkingAt(v)' = WorkingAt(v)
  BY <1>2 DEF WorkingAt
<1>6. OneJobAtATime' /\ ReadIsCurrent'
  <2>1. OneJobAtATime'
    BY <1>1, <1>5 DEF OneJobAtATime
  <2>2. ReadIsCurrent'
    <3> SUFFICES ASSUME NEW w \in SyncWorkers, syncer'[w] # Free, syncer'[w].user \notin twice,
                        syncer'[w].at = "read"
                 PROVE  syncer'[w].next = pointer[syncer'[w].user] + 1
      BY DEF ReadIsCurrent
    <3>1. /\ syncer[w] # Free /\ syncer'[w].user = syncer[w].user
          /\ syncer[w].at = "read" /\ syncer'[w].next = syncer[w].next
      BY <1>2
    <3> QED
      BY <1>1, <3>1 DEF ReadIsCurrent
  <2> QED
    BY <2>1, <2>2
<1>9. /\ SavingAt(u)' = SavingAt(u) \cup {s} /\ s \notin SavingAt(u)
      /\ \A v \in SyncUsers : v # u => SavingAt(v)' = SavingAt(v)
  <2>1. saver' = [saver EXCEPT ![s] = u] /\ saver[s] = Free
    OBVIOUS
  <2> HIDE DEF Save
  <2>2. \A v \in SyncUsers :
           /\ v # saver[s] /\ v # u => SavingAt(v)' = SavingAt(v)
           /\ v = u /\ saver[s] = Free => SavingAt(v)' = SavingAt(v) \cup {s} /\ s \notin SavingAt(v)
    BY <2>1, SaverMoves
  <2> QED
    BY <2>1, <2>2
<1>7. SavedIsQueued'
  <2> SUFFICES ASSUME NEW v \in unsynced' \ lost'
               PROVE  \/ queue'[v] > 0
                      \/ \E w \in WorkingAt(v)' : syncer'[w].fresh
                      \/ \E q \in Savers : saver'[q] = v
    BY DEF SavedIsQueued
  <2>1. CASE v = u
    BY <1>1, <2>1 DEF SyncTypeOK
  <2>2. CASE v # u
    <3>1. /\ v \in unsynced \ lost
          /\ v \in SyncUsers
      BY <1>1, <2>2 DEF SyncTypeOK
    <3>2. CASE \E w \in WorkingAt(v) : syncer[w].fresh
      BY <1>2, <1>5, <2>2, <3>1, <3>2 DEF WorkingAt
    <3>3. CASE \E q \in Savers : saver[q] = v
      BY <1>1, <2>2, <3>1, <3>3 DEF SyncTypeOK
    <3> QED
      BY <1>1, <3>1, <3>2, <3>3 DEF SavedIsQueued
  <2> QED
    BY <2>1, <2>2
<1>8. SequenceCountsJobs'
  <2> SUFFICES ASSUME NEW v \in SyncUsers \ (twice \cup lost)
               PROVE  saves'[v] = pointer[v] + queue[v] + Cardinality(WorkingAt(v))
                                    + Cardinality(SavingAt(v)')
    BY <1>5, CountsNext
  <2>1. saves[v] = pointer[v] + queue[v] + Cardinality(WorkingAt(v)) + Cardinality(SavingAt(v))
    BY <1>1, CountsOf
  <2>2. /\ saves[v] \in Nat /\ pointer[v] \in Nat /\ queue[v] \in Nat
        /\ Cardinality(WorkingAt(v)) \in Nat /\ Cardinality(SavingAt(v)) \in Nat
    BY <1>1, SyncCounts DEF SyncTypeOK
  <2>3. CASE v = u
    <3>1. Cardinality(SavingAt(v)') = Cardinality(SavingAt(v)) + 1
      BY <1>9, <2>3, SyncCounts, FS_AddElement
    <3>2. saves'[v] = saves[v] + 1
      BY <1>1, <1>3, <2>3 DEF SyncTypeOK
    <3> HIDE DEF Save
    <3> QED
      BY <2>1, <2>2, <3>1, <3>2
  <2>4. CASE v # u
    <3>1. SavingAt(v)' = SavingAt(v) /\ saves'[v] = saves[v]
      BY <1>1, <1>3, <1>9, <2>4 DEF SyncTypeOK
    <3> QED
      BY <2>1, <3>1
  <2> QED
    BY <2>3, <2>4
<1> QED
  BY <1>4, <1>6, <1>7, <1>8 DEF SyncInv, SyncFollowsSaves

LEMMA SaverStepInv ==
  ASSUME SyncInv, NEW s \in Savers, SaverStep(s)
  PROVE  SyncInv'
<1> USE SyncAssumption, FreeAssumption
<1>1. SyncTypeOK /\ OneJobAtATime /\ ReadIsCurrent /\ SavedIsQueued /\ SequenceCountsJobs
  BY DEF SyncInv, SyncFollowsSaves
<1>2. PICK u \in SyncUsers : u = saver[s]
  BY <1>1 DEF SaverStep, Enqueue, EnqueueFails, SyncTypeOK
<1>3. /\ saver' = [saver EXCEPT ![s] = Free]
      /\ UNCHANGED <<saves, syncer, pointer, unsynced, twice>>
      /\ \/ queue' = [queue EXCEPT ![u] = queue[u] + 1] /\ lost' = lost
         \/ queue' = queue /\ lost' = lost \cup {u}
  BY <1>2 DEF SaverStep, Enqueue, EnqueueFails
<1>4. \A v \in SyncUsers : WorkingAt(v)' = WorkingAt(v)
  BY <1>3 DEF WorkingAt
<1>5. SyncTypeOK' /\ OneJobAtATime' /\ ReadIsCurrent'
  <2>1. queue' \in [SyncUsers -> Nat] /\ lost' \subseteq SyncUsers
    BY <1>1, <1>3 DEF SyncTypeOK
  <2>2. SyncTypeOK'
    BY <1>1, <1>3, <2>1 DEF SyncTypeOK
  <2> QED
    BY <1>1, <1>3, <1>4, <2>2 DEF OneJobAtATime, ReadIsCurrent
<1>6. /\ SavingAt(u)' = SavingAt(u) \ {s} /\ s \in SavingAt(u)
      /\ \A v \in SyncUsers : v # u => SavingAt(v)' = SavingAt(v)
  <2>1. saver' = [saver EXCEPT ![s] = Free] /\ saver[s] = u /\ \A v \in SyncUsers : v # Free
    BY <1>2, <1>3
  <2> QED
    BY <2>1, SaverMoves
<1>7. SavedIsQueued'
  <2> SUFFICES ASSUME NEW v \in unsynced \ lost'
               PROVE  \/ queue'[v] > 0
                      \/ \E w \in WorkingAt(v) : syncer[w].fresh
                      \/ \E q \in Savers : saver'[q] = v
    BY <1>1, <1>3, <1>4 DEF SavedIsQueued, SyncTypeOK
  <2>0. v \in SyncUsers /\ v \notin lost
    BY <1>1, <1>3 DEF SyncTypeOK
  <2>1. CASE v = u
    BY <1>1, <1>3, <2>0, <2>1 DEF SyncTypeOK
  <2>2. CASE v # u
    <3>1. queue'[v] = queue[v]
      BY <1>1, <1>3, <2>0, <2>2 DEF SyncTypeOK
    <3>2. \A q \in Savers : saver[q] = v => saver'[q] = v
      BY <1>1, <1>2, <1>3, <2>2 DEF SyncTypeOK
    <3> QED
      BY <1>1, <2>0, <3>1, <3>2 DEF SavedIsQueued
  <2> QED
    BY <2>1, <2>2
<1>8. SequenceCountsJobs'
  <2> SUFFICES ASSUME NEW v \in SyncUsers \ (twice \cup lost')
               PROVE  saves[v] = pointer[v] + queue'[v] + Cardinality(WorkingAt(v))
                                    + Cardinality(SavingAt(v)')
    BY <1>3, <1>4, CountsNext
  <2>1. saves[v] = pointer[v] + queue[v] + Cardinality(WorkingAt(v)) + Cardinality(SavingAt(v))
    BY <1>1, <1>3, CountsOf
  <2>2. /\ saves[v] \in Nat /\ pointer[v] \in Nat /\ queue[v] \in Nat
        /\ Cardinality(WorkingAt(v)) \in Nat /\ Cardinality(SavingAt(v)) \in Nat
    BY <1>1, SyncCounts DEF SyncTypeOK
  <2>3. CASE v = u
    <3>1. Cardinality(SavingAt(v)') = Cardinality(SavingAt(v)) - 1
      BY <1>6, <2>3, SyncCounts, FS_RemoveElement
    <3>2. queue'[v] = queue[v] + 1
      BY <1>1, <1>3, <2>3 DEF SyncTypeOK
    <3> QED
      BY <2>1, <2>2, <3>1, <3>2
  <2>4. CASE v # u
    <3>1. SavingAt(v)' = SavingAt(v) /\ queue'[v] = queue[v]
      BY <1>1, <1>3, <1>6, <2>4 DEF SyncTypeOK
    <3> QED
      BY <2>1, <3>1
  <2> QED
    BY <2>3, <2>4
<1> QED
  BY <1>5, <1>7, <1>8 DEF SyncInv, SyncFollowsSaves

\* The worker w takes up, or goes on with, the job j, or is free.
LEMMA WorkerMoves ==
  ASSUME SyncInv, NEW w \in SyncWorkers, NEW j \in SyncJob \cup {Free},
         syncer' = [syncer EXCEPT ![w] = j]
  PROVE  /\ syncer' \in [SyncWorkers -> SyncJob \cup {Free}]
         /\ syncer'[w] = j /\ \A v \in SyncWorkers : v # w => syncer'[v] = syncer[v]
         /\ \A u \in SyncUsers :
               WorkingAt(u)' = IF j # Free /\ j.user = u THEN WorkingAt(u) \cup {w}
                                                       ELSE WorkingAt(u) \ {w}
BY DEF SyncInv, SyncTypeOK, WorkingAt

LEMMA TakeInv ==
  ASSUME SyncInv, NEW w \in SyncWorkers, NEW u \in SyncUsers, TakeJob(w, u)
  PROVE  SyncInv'
<1> USE SyncAssumption, FreeAssumption
<1>1. SyncTypeOK /\ OneJobAtATime /\ ReadIsCurrent /\ SavedIsQueued /\ SequenceCountsJobs
  BY DEF SyncInv, SyncFollowsSaves
<1> DEFINE j == [user |-> u, fresh |-> TRUE, at |-> "found"]
<1>2. j \in SyncJob /\ j.user = u /\ j.fresh /\ j.at = "found" /\ j # Free
  <2>1. j.fresh
    OBVIOUS
  <2>2. j \in SyncJob /\ j.user = u /\ j.at = "found"
    BY DEF SyncJob
  <2> QED
    BY <2>1, <2>2
<1>3. /\ syncer[w] = Free /\ queue[u] > 0
      /\ syncer' = [syncer EXCEPT ![w] = j]
      /\ queue' = [queue EXCEPT ![u] = queue[u] - 1]
      /\ twice' = IF WorkingAt(u) # {} THEN twice \cup {u} ELSE twice
      /\ UNCHANGED <<saves, saver, pointer, unsynced, lost>>
  BY DEF TakeJob
<1> HIDE DEF j
<1>4. /\ syncer' \in [SyncWorkers -> SyncJob \cup {Free}]
      /\ syncer'[w] = j /\ \A v \in SyncWorkers : v # w => syncer'[v] = syncer[v]
      /\ WorkingAt(u)' = WorkingAt(u) \cup {w} /\ w \notin WorkingAt(u)
      /\ \A v \in SyncUsers : v # u => WorkingAt(v)' = WorkingAt(v)
  <2>1. \A v \in SyncUsers : w \notin WorkingAt(v)
    BY <1>3 DEF WorkingAt
  <2>2. /\ syncer' \in [SyncWorkers -> SyncJob \cup {Free}]
        /\ syncer'[w] = j /\ \A v \in SyncWorkers : v # w => syncer'[v] = syncer[v]
        /\ \A v \in SyncUsers :
               WorkingAt(v)' = IF j # Free /\ j.user = v THEN WorkingAt(v) \cup {w}
                                                       ELSE WorkingAt(v) \ {w}
    BY <1>2, <1>3, WorkerMoves
  <2> QED
    BY <1>2, <2>1, <2>2
<1>5. queue' \in [SyncUsers -> Nat] /\ twice' \subseteq SyncUsers /\ twice \subseteq twice'
      /\ (WorkingAt(u) # {} => u \in twice')
  BY <1>1, <1>3 DEF SyncTypeOK
<1>6. SyncTypeOK'
  BY <1>1, <1>3, <1>4, <1>5 DEF SyncTypeOK
<1>7. OneJobAtATime'
  BY <1>1, <1>4, <1>5 DEF OneJobAtATime
<1>8. ReadIsCurrent'
  BY <1>1, <1>2, <1>3, <1>4, <1>5 DEF ReadIsCurrent
<1>9. SavedIsQueued'
  <2> SUFFICES ASSUME NEW v \in unsynced \ lost
               PROVE  \/ queue'[v] > 0
                      \/ \E q \in WorkingAt(v)' : syncer'[q].fresh
                      \/ \E s \in Savers : saver[s] = v
    BY <1>3 DEF SavedIsQueued
  <2>0. v \in SyncUsers
    BY <1>1 DEF SyncTypeOK
  <2>1. CASE v = u
    BY <1>2, <1>4, <2>1
  <2>2. CASE v # u
    <3>1. queue'[v] = queue[v]
      BY <1>1, <1>3, <2>0, <2>2 DEF SyncTypeOK
    <3>2. \A q \in WorkingAt(v) : q \in WorkingAt(v)' /\ syncer'[q] = syncer[q]
      BY <1>3, <1>4, <2>0, <2>2 DEF WorkingAt
    <3> QED
      BY <1>1, <3>1, <3>2 DEF SavedIsQueued
  <2> QED
    BY <2>1, <2>2
<1>10. SequenceCountsJobs'
  <2> SUFFICES ASSUME NEW v \in SyncUsers \ (twice' \cup lost)
               PROVE  saves[v] = pointer[v] + queue'[v] + Cardinality(WorkingAt(v)')
                                    + Cardinality(SavingAt(v))
    <3>1. \A v \in SyncUsers : SavingAt(v)' = SavingAt(v)
      BY <1>3 DEF SavingAt
    <3> QED
      BY <1>3, <3>1, CountsNext
  <2>1. saves[v] = pointer[v] + queue[v] + Cardinality(WorkingAt(v)) + Cardinality(SavingAt(v))
    BY <1>1, <1>5, CountsOf
  <2>2. /\ saves[v] \in Nat /\ pointer[v] \in Nat /\ queue[v] \in Nat
        /\ Cardinality(WorkingAt(v)) \in Nat /\ Cardinality(SavingAt(v)) \in Nat
    BY <1>1, SyncCounts DEF SyncTypeOK
  <2>3. CASE v = u
    <3>1. Cardinality(WorkingAt(v)') = Cardinality(WorkingAt(v)) + 1
      BY <1>4, <2>3, SyncCounts, FS_AddElement
    <3>2. queue'[v] = queue[v] - 1
      BY <1>1, <1>3, <2>3 DEF SyncTypeOK
    <3> QED
      BY <2>1, <2>2, <3>1, <3>2
  <2>4. CASE v # u
    <3>1. WorkingAt(v)' = WorkingAt(v) /\ queue'[v] = queue[v]
      BY <1>1, <1>3, <1>4, <2>4 DEF SyncTypeOK
    <3> QED
      BY <2>1, <3>1
  <2> QED
    BY <2>3, <2>4
<1> QED
  BY <1>6, <1>7, <1>8, <1>9, <1>10 DEF SyncInv, SyncFollowsSaves

\* A read changes nothing but the job.
LEMMA ReadInv ==
  ASSUME SyncInv, NEW w \in SyncWorkers, ReadPointer(w)
  PROVE  SyncInv'
<1> USE SyncAssumption, FreeAssumption
<1>1. SyncTypeOK /\ OneJobAtATime /\ ReadIsCurrent /\ SavedIsQueued /\ SequenceCountsJobs
  BY DEF SyncInv, SyncFollowsSaves
<1>2. syncer[w] # Free /\ UNCHANGED <<saves, saver, queue, pointer, unsynced, lost, twice>>
  BY DEF ReadPointer
<1>3. PICK u \in SyncUsers : u = syncer[w].user
  BY <1>1, <1>2, JobFields
<1>4. PICK f \in BOOLEAN : f = syncer[w].fresh
  BY <1>1, <1>2, JobFields
<1> DEFINE j == [user |-> u, fresh |-> f, at |-> "read", next |-> pointer[u] + 1]
<1>5. j \in SyncJob /\ j.user = u /\ j.fresh = f /\ j.at = "read" /\ j # Free
      /\ j.next = pointer[u] + 1
  BY <1>1 DEF SyncJob, SyncTypeOK
<1>6. syncer' = [syncer EXCEPT ![w] = j]
  BY <1>3, <1>4 DEF ReadPointer
<1> HIDE DEF j
<1>7. /\ syncer' \in [SyncWorkers -> SyncJob \cup {Free}]
      /\ syncer'[w] = j /\ \A v \in SyncWorkers : v # w => syncer'[v] = syncer[v]
      /\ \A v \in SyncUsers : WorkingAt(v)' = WorkingAt(v)
  <2>1. \A v \in SyncUsers : w \in WorkingAt(v) <=> v = u
    BY <1>2, <1>3 DEF WorkingAt
  <2>2. /\ syncer' \in [SyncWorkers -> SyncJob \cup {Free}]
        /\ syncer'[w] = j /\ \A v \in SyncWorkers : v # w => syncer'[v] = syncer[v]
        /\ \A v \in SyncUsers :
               WorkingAt(v)' = IF j # Free /\ j.user = v THEN WorkingAt(v) \cup {w}
                                                       ELSE WorkingAt(v) \ {w}
    BY <1>5, <1>6, WorkerMoves
  <2> QED
    BY <1>5, <2>1, <2>2
<1>8. SyncTypeOK' /\ OneJobAtATime'
  BY <1>1, <1>2, <1>7 DEF SyncTypeOK, OneJobAtATime
<1>9. ReadIsCurrent'
  BY <1>1, <1>2, <1>5, <1>7 DEF ReadIsCurrent
<1>10. \A q \in SyncWorkers : syncer[q] # Free => syncer'[q].fresh = syncer[q].fresh
  BY <1>4, <1>5, <1>7
<1>11. SavedIsQueued'
  <2> SUFFICES ASSUME NEW v \in unsynced \ lost
               PROVE  \/ queue[v] > 0
                      \/ \E q \in WorkingAt(v)' : syncer'[q].fresh
                      \/ \E s \in Savers : saver[s] = v
    BY <1>2 DEF SavedIsQueued
  <2>1. v \in SyncUsers
    BY <1>1 DEF SyncTypeOK
  <2>2. \A q \in WorkingAt(v) : q \in WorkingAt(v)' /\ syncer'[q].fresh = syncer[q].fresh
    BY <1>7, <1>10, <2>1 DEF WorkingAt
  <2> QED
    BY <1>1, <2>2 DEF SavedIsQueued
<1>12. SequenceCountsJobs'
  BY <1>1, <1>2, <1>7 DEF SequenceCountsJobs
<1> QED
  BY <1>8, <1>9, <1>11, <1>12 DEF SyncInv, SyncFollowsSaves

\* A worker that is rid of its job without a redelivery.
LEMMA JobEndsInv ==
  ASSUME SyncInv, NEW w \in SyncWorkers, UpsertPointer(w) \/ JobFails(w)
  PROVE  SyncInv'
<1> USE SyncAssumption, FreeAssumption
<1>1. SyncTypeOK /\ OneJobAtATime /\ ReadIsCurrent /\ SavedIsQueued /\ SequenceCountsJobs
  BY DEF SyncInv, SyncFollowsSaves
<1>2. /\ syncer[w] # Free /\ syncer' = [syncer EXCEPT ![w] = Free]
      /\ UNCHANGED <<saves, saver, queue, twice>>
  BY DEF UpsertPointer, JobFails
<1>3. PICK u \in SyncUsers : u = syncer[w].user
  BY <1>1, <1>2, JobFields
<1>4. PICK f \in BOOLEAN : f = syncer[w].fresh
  BY <1>1, <1>2, JobFields
<1>5. \/ /\ syncer[w].at = "read" /\ syncer[w].next \in Nat /\ lost' = lost
         /\ pointer' = [pointer EXCEPT ![u] = syncer[w].next]
         /\ unsynced' = IF f THEN unsynced \ {u} ELSE unsynced
      \/ lost' = lost \cup {u} /\ pointer' = pointer /\ unsynced' = unsynced
  BY <1>1, <1>2, <1>3, <1>4, JobFields DEF UpsertPointer, JobFails
<1>6. /\ syncer' \in [SyncWorkers -> SyncJob \cup {Free}]
      /\ syncer'[w] = Free /\ \A v \in SyncWorkers : v # w => syncer'[v] = syncer[v]
      /\ WorkingAt(u)' = WorkingAt(u) \ {w} /\ w \in WorkingAt(u)
      /\ \A v \in SyncUsers : v # u => WorkingAt(v)' = WorkingAt(v)
  <2>1. \A v \in SyncUsers : w \in WorkingAt(v) <=> v = u
    BY <1>2, <1>3 DEF WorkingAt
  <2>2. /\ syncer' \in [SyncWorkers -> SyncJob \cup {Free}]
        /\ syncer'[w] = Free /\ \A v \in SyncWorkers : v # w => syncer'[v] = syncer[v]
        /\ \A v \in SyncUsers : WorkingAt(v)' = WorkingAt(v) \ {w}
    BY <1>2, WorkerMoves
  <2> QED
    BY <2>1, <2>2
<1>7. pointer' \in [SyncUsers -> Nat] /\ lost' \subseteq SyncUsers /\ lost \subseteq lost'
      /\ unsynced' \subseteq unsynced /\ \A v \in SyncUsers : v # u => pointer'[v] = pointer[v]
  BY <1>1, <1>5 DEF SyncTypeOK
<1>8. SyncTypeOK' /\ OneJobAtATime'
  <2>1. SyncTypeOK'
    BY <1>1, <1>2, <1>6, <1>7 DEF SyncTypeOK
  <2>2. \A v \in SyncUsers : WorkingAt(v)' \subseteq WorkingAt(v)
    BY <1>6
  <2> QED
    BY <1>1, <1>2, <2>1, <2>2 DEF OneJobAtATime
<1>9. ReadIsCurrent'
  <2> SUFFICES ASSUME NEW v \in SyncWorkers, syncer'[v] # Free, syncer'[v].user \notin twice,
                      syncer'[v].at = "read"
               PROVE  syncer'[v].next = pointer'[syncer'[v].user] + 1
    BY <1>2 DEF ReadIsCurrent
  <2>1. v # w /\ syncer'[v] = syncer[v] /\ syncer[v] # Free
    BY <1>6
  <2>2. syncer[v].user \in SyncUsers /\ syncer[v].next = pointer[syncer[v].user] + 1
    BY <1>1, <2>1, JobFields DEF ReadIsCurrent
  <2>3. syncer[v].user # u
    BY <1>1, <1>2, <1>3, <2>1 DEF OneJobAtATime, WorkingAt
  <2> QED
    BY <1>7, <2>1, <2>2, <2>3
<1>10. SavedIsQueued'
  <2> SUFFICES ASSUME NEW v \in unsynced' \ lost'
               PROVE  \/ queue[v] > 0
                      \/ \E q \in WorkingAt(v)' : syncer'[q].fresh
                      \/ \E s \in Savers : saver[s] = v
    BY <1>2 DEF SavedIsQueued
  <2>1. v \in SyncUsers /\ v \in unsynced \ lost
    BY <1>1, <1>7 DEF SyncTypeOK
  <2>2. \A q \in WorkingAt(v) : syncer[q].fresh => q \in WorkingAt(v)' /\ syncer'[q] = syncer[q]
    BY <1>4, <1>5, <1>6, <2>1 DEF WorkingAt
  <2> QED
    BY <1>1, <2>1, <2>2 DEF SavedIsQueued
<1>11. SequenceCountsJobs'
  <2> SUFFICES ASSUME NEW v \in SyncUsers \ (twice \cup lost')
               PROVE  saves[v] = pointer'[v] + queue[v] + Cardinality(WorkingAt(v)')
                                    + Cardinality(SavingAt(v))
    <3>1. \A v \in SyncUsers : SavingAt(v)' = SavingAt(v)
      BY <1>2 DEF SavingAt
    <3> QED
      BY <1>2, <3>1, CountsNext
  <2>1. saves[v] = pointer[v] + queue[v] + Cardinality(WorkingAt(v)) + Cardinality(SavingAt(v))
    BY <1>1, <1>7, CountsOf
  <2>2. /\ saves[v] \in Nat /\ pointer[v] \in Nat /\ queue[v] \in Nat
        /\ Cardinality(WorkingAt(v)) \in Nat /\ Cardinality(SavingAt(v)) \in Nat
    BY <1>1, SyncCounts DEF SyncTypeOK
  <2>3. CASE v = u
    <3>1. Cardinality(WorkingAt(v)') = Cardinality(WorkingAt(v)) - 1
      BY <1>6, <2>3, SyncCounts, FS_RemoveElement
    <3>2. syncer[w].at = "read" /\ pointer'[v] = syncer[w].next
      BY <1>1, <1>5, <2>3 DEF SyncTypeOK
    <3>3. pointer'[v] = pointer[v] + 1
      BY <1>1, <1>2, <1>3, <2>3, <3>2 DEF ReadIsCurrent
    <3> QED
      BY <2>1, <2>2, <3>1, <3>3
  <2>4. CASE v # u
    BY <1>6, <1>7, <2>1, <2>4
  <2> QED
    BY <2>3, <2>4
<1> QED
  BY <1>8, <1>9, <1>10, <1>11 DEF SyncInv, SyncFollowsSaves

LEMMA RedeliverInv ==
  ASSUME SyncInv, NEW w \in SyncWorkers, NEW gone \in BOOLEAN, Redeliver(w, gone)
  PROVE  SyncInv'
<1> USE SyncAssumption, FreeAssumption
<1>1. SyncTypeOK /\ OneJobAtATime /\ ReadIsCurrent /\ SavedIsQueued /\ SequenceCountsJobs
  BY DEF SyncInv, SyncFollowsSaves
<1>2. syncer[w] # Free /\ UNCHANGED <<saves, saver, pointer, unsynced, lost>>
  BY DEF Redeliver
<1>3. PICK u \in SyncUsers : u = syncer[w].user
  BY <1>1, <1>2, JobFields
<1>4. /\ queue' = [queue EXCEPT ![u] = queue[u] + 1] /\ twice' = twice \cup {u}
      /\ syncer' \in {[syncer EXCEPT ![w] = Free], syncer}
  BY <1>3 DEF Redeliver
<1>5. /\ syncer' \in [SyncWorkers -> SyncJob \cup {Free}]
      /\ \A v \in SyncWorkers : syncer'[v] # Free => syncer'[v] = syncer[v]
      /\ WorkingAt(u)' \subseteq WorkingAt(u)
      /\ \A v \in SyncUsers : v # u => WorkingAt(v)' = WorkingAt(v)
  BY <1>1, <1>2, <1>3, <1>4 DEF SyncTypeOK, WorkingAt
<1>6. /\ queue' \in [SyncUsers -> Nat] /\ queue'[u] > 0
      /\ \A v \in SyncUsers : v # u => queue'[v] = queue[v]
  BY <1>1, <1>4 DEF SyncTypeOK
<1>7. SyncTypeOK' /\ OneJobAtATime'
  <2>1. SyncTypeOK'
    BY <1>1, <1>2, <1>4, <1>5, <1>6 DEF SyncTypeOK
  <2> QED
    BY <1>1, <1>4, <1>5, <2>1 DEF OneJobAtATime
<1>8. ReadIsCurrent'
  BY <1>1, <1>2, <1>4, <1>5 DEF ReadIsCurrent
<1>9. SavedIsQueued'
  <2> SUFFICES ASSUME NEW v \in unsynced \ lost
               PROVE  \/ queue'[v] > 0
                      \/ \E q \in WorkingAt(v)' : syncer'[q].fresh
                      \/ \E s \in Savers : saver[s] = v
    BY <1>2 DEF SavedIsQueued
  <2>1. v \in SyncUsers
    BY <1>1 DEF SyncTypeOK
  <2>2. v # u => \A q \in WorkingAt(v) : q \in WorkingAt(v)' /\ syncer'[q] = syncer[q]
    BY <1>5, <2>1 DEF WorkingAt
  <2> QED
    BY <1>1, <1>6, <2>1, <2>2 DEF SavedIsQueued
<1>10. SequenceCountsJobs'
  <2> SUFFICES ASSUME NEW v \in SyncUsers \ (twice' \cup lost)
               PROVE  saves[v] = pointer[v] + queue'[v] + Cardinality(WorkingAt(v)')
                                    + Cardinality(SavingAt(v))
    <3>1. \A v \in SyncUsers : SavingAt(v)' = SavingAt(v)
      BY <1>2 DEF SavingAt
    <3> QED
      BY <1>2, <3>1, CountsNext
  <2>1. v # u /\ v \in SyncUsers \ (twice \cup lost)
    BY <1>4
  <2>2. saves[v] = pointer[v] + queue[v] + Cardinality(WorkingAt(v)) + Cardinality(SavingAt(v))
    BY <1>1, <2>1, CountsOf
  <2> QED
    BY <1>5, <1>6, <2>1, <2>2
<1> QED
  BY <1>7, <1>8, <1>9, <1>10 DEF SyncInv, SyncFollowsSaves

LEMMA NextSyncInv == SyncInv /\ [SyncNext]_syncVars => SyncInv'
<1> SUFFICES ASSUME SyncInv, [SyncNext]_syncVars PROVE SyncInv'
  OBVIOUS
<1>1. CASE UNCHANGED syncVars
  BY <1>1 DEF syncVars, SyncInv, SyncTypeOK, OneJobAtATime, ReadIsCurrent, SyncFollowsSaves,
     SavedIsQueued, SequenceCountsJobs, WorkingAt
<1>2. CASE SyncNext
  BY <1>2, SaverStepInv, SaveInv, TakeInv, ReadInv, JobEndsInv, RedeliverInv DEF SyncNext, WorkerStep
<1> QED
  BY <1>1, <1>2

\* No save is forgotten and none is counted twice, for any number of users, saves
\* and workers, but for users whose jobs failed, were not enqueued, or overlapped.
THEOREM SyncAlwaysFollowsSaves == SyncSpec => [](SyncTypeOK /\ SyncFollowsSaves)
<1>1. SyncInv => SyncTypeOK /\ SyncFollowsSaves
  BY DEF SyncInv
<1> QED
  BY <1>1, InitSyncInv, NextSyncInv, PTL DEF SyncSpec
-----------------------------------------------------------------------------
(* Groups, profiles and holidays.                                          *)

Nobody == [m \in People |-> 0]
AllUnset == [x \in Permissions |-> "unset"]

\* The parts of a group that one call at most is saving.
GroupInv(g) ==
    g \notin spoilt =>
        /\ \A r, s \in Busy(g) : r = s
        /\ groups[g] # Missing =>
             /\ \A s \in Busy(g) : call[s].at = "create" => groups[g] = Nobody
             /\ Busy(g) = {} => groups[g] = [m \in People |-> IF m \in asked.list[g] THEN 1 ELSE 0]

\* A profile is created once at a time, and changed only when it is complete.
ProfileInv(p) ==
    /\ \A r, s \in Busy(p) : r = s
    /\ profiles[p] # Missing =>
         /\ \A s \in Busy(p) : profiles[p] = AllUnset /\ asked.granted[p] = call[s].granted
         /\ Busy(p) = {} /\ p \notin spoilt =>
              profiles[p] = [x \in Permissions |-> IF x \in asked.granted[p] THEN "granted" ELSE "denied"]

\* A holiday is created once, and holds what is asked for unless it is to come.
HolidayInv(h) ==
    /\ holidays[h] = Missing => Busy(h) = {}
    /\ \A r, s \in Busy(h) : r = s
    /\ \A s \in Busy(h) : call[s].list = asked.list[h]
    /\ holidays[h] # Missing /\ Busy(h) = {} /\ h \notin spoilt => holidays[h] = asked.list[h]

RosterInv ==
    /\ RosterTypeOK
    /\ \A g \in Groups : GroupInv(g)
    /\ \A p \in Profiles : ProfileInv(p)
    /\ \A h \in Holidays : HolidayInv(h)

LEMMA InitRosterInv == RosterInit => RosterInv
<1> SUFFICES ASSUME RosterInit PROVE RosterInv
  OBVIOUS
<1> USE RosterAssumption
<1>1. \A x : Busy(x) = {}
  BY DEF RosterInit, Busy
<1>2. asked \in [list : Lists, granted : [Profiles -> SUBSET Permissions]]
  BY DEF RosterInit, Lists
<1>3. RosterTypeOK
  BY <1>2 DEF RosterInit, RosterTypeOK
<1> QED
  BY <1>1, <1>3 DEF RosterInit, RosterInv, GroupInv, ProfileInv, HolidayInv

\* What a call is about.
LEMMA RosterFields ==
  ASSUME NEW c \in RosterCall \cup {Resting}
  PROVE  /\ c = Resting <=> c.at = "idle"
         /\ c.at \in {"resolve", "delete", "create"} => c.row \in Groups /\ c.list \subseteq People
         /\ c.at = "permissions" => c.row \in Profiles /\ c.granted \subseteq Permissions
         /\ c.at = "assign" => c.row \in Holidays /\ c.list \subseteq People
         /\ c.at \in {"idle", "resolve", "delete", "create", "permissions", "assign"}
BY DEF RosterCall, Resting

\* The call in slot s goes on to c.
LEMMA BusyAfter ==
  ASSUME RosterInv, NEW s \in Callers, NEW c \in RosterCall \cup {Resting},
         call' = [call EXCEPT ![s] = c]
  PROVE  /\ call' \in [Callers -> RosterCall \cup {Resting}]
         /\ call'[s] = c /\ \A r \in Callers : r # s => call'[r] = call[r]
         /\ \A x : Busy(x)' = IF c # Resting /\ c.row = x THEN Busy(x) \cup {s} ELSE Busy(x) \ {s}
BY DEF RosterInv, RosterTypeOK, Busy

\* Rows of the other kinds see nothing of a call for a row x.
OthersStay(s, x) ==
    /\ \A r \in Callers : r # s => call'[r] = call[r]
    /\ \A y \in (Groups \cup Profiles \cup Holidays) \ {x} :
         /\ Busy(y)' = Busy(y) /\ s \notin Busy(y)
         /\ y \in spoilt' <=> y \in spoilt
         /\ y \in Groups => groups'[y] = groups[y] /\ asked'.list[y] = asked.list[y]
         /\ y \in Profiles => profiles'[y] = profiles[y] /\ asked'.granted[y] = asked.granted[y]
         /\ y \in Holidays => holidays'[y] = holidays[y] /\ asked'.list[y] = asked.list[y]

LEMMA OthersStayInv ==
  ASSUME RosterInv, NEW s \in Callers, NEW x, OthersStay(s, x)
  PROVE  /\ \A g \in Groups \ {x} : GroupInv(g)'
         /\ \A p \in Profiles \ {x} : ProfileInv(p)'
         /\ \A h \in Holidays \ {x} : HolidayInv(h)'
<1>1. ASSUME NEW g \in Groups \ {x} PROVE GroupInv(g)'
  <2>1. \A r \in Busy(g) : call'[r] = call[r]
    BY DEF OthersStay, Busy
  <2> QED
    BY <2>1 DEF RosterInv, OthersStay, GroupInv
<1>2. ASSUME NEW p \in Profiles \ {x} PROVE ProfileInv(p)'
  <2>1. \A r \in Busy(p) : call'[r] = call[r]
    BY DEF OthersStay, Busy
  <2> QED
    BY <2>1 DEF RosterInv, OthersStay, ProfileInv
<1>3. ASSUME NEW h \in Holidays \ {x} PROVE HolidayInv(h)'
  <2>1. \A r \in Busy(h) : call'[r] = call[r]
    BY DEF OthersStay, Busy
  <2> QED
    BY <2>1 DEF RosterInv, OthersStay, HolidayInv
<1> QED
  BY <1>1, <1>2, <1>3

LEMMA AskedType ==
  ASSUME RosterTypeOK
  PROVE  /\ asked \in [list : Lists, granted : [Profiles -> SUBSET Permissions]]
         /\ asked.list \in [Groups \cup Holidays -> SUBSET People]
         /\ asked.granted \in [Profiles -> SUBSET Permissions]
BY DEF RosterTypeOK, Lists

LEMMA AskedList ==
  ASSUME RosterTypeOK, NEW x \in Groups \cup Holidays, NEW L \in SUBSET People,
         asked' = [asked EXCEPT !.list[x] = L]
  PROVE  /\ asked' \in [list : Lists, granted : [Profiles -> SUBSET Permissions]]
         /\ asked'.granted = asked.granted /\ asked'.list[x] = L
         /\ \A y \in Groups \cup Holidays : y # x => asked'.list[y] = asked.list[y]
<1>1. asked' = [asked EXCEPT !.list = [asked.list EXCEPT ![x] = L]]
  OBVIOUS
<1>2. [asked.list EXCEPT ![x] = L] \in Lists
  BY AskedType DEF Lists
<1> QED
  BY <1>1, <1>2, AskedType

LEMMA AskedGranted ==
  ASSUME RosterTypeOK, NEW p \in Profiles, NEW G \in SUBSET Permissions,
         asked' = [asked EXCEPT !.granted[p] = G]
  PROVE  /\ asked' \in [list : Lists, granted : [Profiles -> SUBSET Permissions]]
         /\ asked'.list = asked.list /\ asked'.granted[p] = G
         /\ \A y \in Profiles : y # p => asked'.granted[y] = asked.granted[y]
<1>1. asked' = [asked EXCEPT !.granted = [asked.granted EXCEPT ![p] = G]]
  OBVIOUS
<1>2. [asked.granted EXCEPT ![p] = G] \in [Profiles -> SUBSET Permissions]
  BY AskedType
<1> QED
  BY <1>1, <1>2, AskedType

LEMMA CreateGroupInv ==
  ASSUME RosterInv, NEW s \in Callers, NEW g \in Groups, NEW list \in SUBSET People,
         CreateGroup(s, g, list)
  PROVE  RosterInv'
<1> USE RosterAssumption
<1>1. RosterTypeOK
  BY DEF RosterInv
<1>2. /\ call[s] = Resting /\ groups[g] = Missing /\ Busy(g) = {}
      /\ groups' = [groups EXCEPT ![g] = Nobody] /\ asked' = [asked EXCEPT !.list[g] = {}]
      /\ spoilt' = spoilt \ {g} /\ UNCHANGED <<people, profiles, holidays>>
  BY DEF CreateGroup, groupOnly, Nobody
<1>3. PICK c \in RosterCall \cup {Resting} :
         /\ call' = [call EXCEPT ![s] = c]
         /\ c = Resting \/ (c.at = "resolve" /\ c.row = g)
  <2>1. CASE list = {}
    BY <1>1, <1>2, <2>1 DEF CreateGroup, RosterTypeOK
  <2>2. CASE list # {}
    <3> DEFINE c == [at |-> "resolve", row |-> g, list |-> list]
    <3>1. c \in RosterCall /\ c.at = "resolve" /\ c.row = g
      BY DEF RosterCall
    <3>2. call' = [call EXCEPT ![s] = c]
      BY <2>2 DEF CreateGroup
    <3> HIDE DEF c
    <3> QED
      BY <3>1, <3>2
  <2> QED
    BY <2>1, <2>2
<1>4. /\ call' \in [Callers -> RosterCall \cup {Resting}]
      /\ call'[s] = c /\ \A r \in Callers : r # s => call'[r] = call[r]
      /\ \A x : Busy(x)' = IF c # Resting /\ c.row = x THEN Busy(x) \cup {s} ELSE Busy(x) \ {s}
  BY <1>3, BusyAfter
<1>5. /\ asked' \in [list : Lists, granted : [Profiles -> SUBSET Permissions]]
      /\ asked'.granted = asked.granted /\ asked'.list[g] = {}
      /\ \A y \in Groups \cup Holidays : y # g => asked'.list[y] = asked.list[y]
  BY <1>1, <1>2, AskedList
<1>6. groups' \in [Groups -> [People -> Nat] \cup {Missing}] /\ groups'[g] = Nobody
      /\ \A y \in Groups : y # g => groups'[y] = groups[y]
  BY <1>1, <1>2 DEF RosterTypeOK, Nobody
<1>7. RosterTypeOK'
  BY <1>1, <1>2, <1>4, <1>5, <1>6 DEF RosterTypeOK
<1>8. OthersStay(s, g)
  <2>1. \A y : s \notin Busy(y)
    BY <1>2 DEF Busy
  <2>2. \A y : y # g => Busy(y)' = Busy(y)
    BY <1>3, <1>4, <2>1
  <2> QED
    BY <1>2, <1>4, <1>5, <1>6, <2>1, <2>2 DEF OthersStay
<1>9. GroupInv(g)'
  <2>1. Nobody = [m \in People |-> IF m \in {} THEN 1 ELSE 0]
    BY DEF Nobody
  <2>2. Busy(g)' \subseteq {s} /\ (\A r \in Busy(g)' : call'[r].at # "create")
    BY <1>2, <1>3, <1>4
  <2>3. Busy(g)' = {} => groups'[g] = [m \in People |-> IF m \in asked'.list[g] THEN 1 ELSE 0]
    BY <1>5, <1>6, <2>1
  <2> QED
    BY <2>2, <2>3 DEF GroupInv
<1> QED
  BY <1>7, <1>8, <1>9, OthersStayInv DEF RosterInv

LEMMA UpdateGroupInv ==
  ASSUME RosterInv, NEW s \in Callers, NEW g \in Groups, NEW list \in SUBSET People,
         UpdateGroup(s, g, list)
  PROVE  RosterInv'
<1> USE RosterAssumption
<1>1. RosterTypeOK
  BY DEF RosterInv
<1> DEFINE c == [at |-> "resolve", row |-> g, list |-> list]
<1>2. /\ call[s] = Resting /\ call' = [call EXCEPT ![s] = c]
      /\ spoilt' = IF Busy(g) = {} THEN spoilt ELSE spoilt \cup {g}
      /\ UNCHANGED <<people, groups, profiles, holidays, asked>>
  BY DEF UpdateGroup, groupOnly
<1>3. c \in RosterCall \cup {Resting} /\ c.at = "resolve" /\ c.row = g /\ c # Resting
  BY DEF RosterCall, Resting
<1> HIDE DEF c
<1>4. /\ call' \in [Callers -> RosterCall \cup {Resting}]
      /\ call'[s] = c /\ \A r \in Callers : r # s => call'[r] = call[r]
      /\ \A x : Busy(x)' = IF c # Resting /\ c.row = x THEN Busy(x) \cup {s} ELSE Busy(x) \ {s}
  BY <1>2, <1>3, BusyAfter
<1>5. RosterTypeOK'
  BY <1>1, <1>2, <1>4 DEF RosterTypeOK
<1>6. OthersStay(s, g)
  <2>1. \A y : s \notin Busy(y)
    BY <1>2 DEF Busy
  <2>2. \A y : y # g => Busy(y)' = Busy(y)
    BY <1>3, <1>4, <2>1
  <2>3. \A y : y # g => (y \in spoilt' <=> y \in spoilt)
    BY <1>2
  <2>4. groups' = groups /\ profiles' = profiles /\ holidays' = holidays /\ asked' = asked
    BY <1>2
  <2>5. \A r \in Callers : r # s => call'[r] = call[r]
    BY <1>4
  <2> QED
    BY <2>1, <2>2, <2>3, <2>4, <2>5 DEF OthersStay
<1>7. GroupInv(g)'
  <2>1. SUFFICES ASSUME g \notin spoilt'
                 PROVE  Busy(g)' = {s} /\ call'[s].at # "create"
    BY DEF GroupInv
  <2> QED
    BY <1>2, <1>3, <1>4, <2>1
<1> QED
  BY <1>5, <1>6, <1>7, OthersStayInv DEF RosterInv

\* The call of a group moves on: the lookups, the deletion, the creation.
LEMMA MembersInv ==
  ASSUME RosterInv, NEW s \in Callers, ResolveMembers(s) \/ DeleteMembers(s) \/ CreateMembers(s)
  PROVE  RosterInv'
<1> USE RosterAssumption
<1>1. RosterTypeOK /\ call[s] \in RosterCall \cup {Resting}
  BY DEF RosterInv, RosterTypeOK
<1>2. call[s].at \in {"resolve", "delete", "create"}
  BY DEF ResolveMembers, DeleteMembers, CreateMembers
<1>3. call[s] # Resting /\ call[s].row \in Groups /\ call[s].list \in SUBSET People
  BY <1>1, <1>2, RosterFields
<1>4. PICK g \in Groups, L \in SUBSET People : g = call[s].row /\ L = call[s].list
  BY <1>3
<1>5. s \in Busy(g) /\ \A y : y # g => s \notin Busy(y)
  BY <1>3, <1>4 DEF Busy
<1>6. UNCHANGED <<people, profiles, holidays, spoilt>>
  BY DEF ResolveMembers, DeleteMembers, CreateMembers, groupOnly
<1>7. GroupInv(g)
  BY DEF RosterInv
<1>8. ASSUME ResolveMembers(s) \/ DeleteMembers(s) PROVE RosterInv'
  <2>1. PICK c \in RosterCall \cup {Resting} :
           /\ call' = [call EXCEPT ![s] = c] /\ c # Resting /\ c.row = g
           /\ c.at = IF call[s].at = "resolve" THEN "delete" ELSE "create"
    <3> DEFINE at == IF call[s].at = "resolve" THEN "delete" ELSE "create"
               c == [call[s] EXCEPT !.at = at]
    <3>1. call' = [call EXCEPT ![s] = c]
      BY <1>8 DEF ResolveMembers, DeleteMembers, Step
    <3>2. call[s] \in [at : {"resolve", "delete", "create"}, row : Groups, list : SUBSET People]
      BY <1>1, <1>2 DEF RosterCall, Resting
    <3>3. c \in [at : {"resolve", "delete", "create"}, row : Groups, list : SUBSET People]
          /\ c.row = g /\ c.at = at
      BY <1>4, <3>2
    <3>4. c \in RosterCall /\ c # Resting
      BY <3>3, RosterFields DEF RosterCall, Resting
    <3> QED
      BY <3>1, <3>3, <3>4
  <2>2. /\ call' \in [Callers -> RosterCall \cup {Resting}]
        /\ call'[s] = c /\ \A r \in Callers : r # s => call'[r] = call[r]
        /\ \A x : Busy(x)' = IF c # Resting /\ c.row = x THEN Busy(x) \cup {s} ELSE Busy(x) \ {s}
    BY <2>1, BusyAfter
  <2>3. /\ asked' = asked
        /\ groups' \in [Groups -> [People -> Nat] \cup {Missing}]
        /\ \A y \in Groups : y # g => groups'[y] = groups[y]
        /\ c.at = "create" => groups'[g] \in {Missing, Nobody}
    <3>1. CASE ResolveMembers(s)
      BY <1>1, <2>1, <3>1 DEF ResolveMembers, RosterTypeOK
    <3>2. CASE DeleteMembers(s)
      BY <1>1, <1>4, <3>2 DEF DeleteMembers, RosterTypeOK, Nobody
    <3> QED
      BY <1>8, <3>1, <3>2
  <2>4. RosterTypeOK'
    BY <1>1, <1>6, <2>2, <2>3 DEF RosterTypeOK
  <2>5. OthersStay(s, g)
    <3>1. \A y : y # g => Busy(y)' = Busy(y)
      BY <1>5, <2>1, <2>2
    <3> QED
      BY <1>5, <1>6, <2>2, <2>3, <3>1 DEF OthersStay
  <2>6. GroupInv(g)'
    <3>1. Busy(g)' = Busy(g)
      BY <1>5, <2>1, <2>2
    <3>2. g \notin spoilt => Busy(g) = {s}
      BY <1>5, <1>7 DEF GroupInv
    <3> QED
      BY <1>6, <2>2, <2>3, <3>1, <3>2 DEF GroupInv
  <2> QED
    BY <2>4, <2>5, <2>6, OthersStayInv DEF RosterInv
<1>9. ASSUME CreateMembers(s) PROVE RosterInv'
  <2> DEFINE after == [m \in People |-> IF m \in L THEN groups[g][m] + 1 ELSE groups[g][m]]
  <2>1. /\ call[s].at = "create" /\ groups[g] # Missing
        /\ groups' = [groups EXCEPT ![g] = after]
        /\ asked' = [asked EXCEPT !.list[g] = L]
        /\ call' = [call EXCEPT ![s] = Resting]
    BY <1>4, <1>9 DEF CreateMembers, End
  <2>2. groups[g] \in [People -> Nat] /\ after \in [People -> Nat]
    BY <1>1, <2>1 DEF RosterTypeOK
  <2>3. /\ call' \in [Callers -> RosterCall \cup {Resting}]
        /\ call'[s] = Resting /\ \A r \in Callers : r # s => call'[r] = call[r]
        /\ \A x : Busy(x)' = Busy(x) \ {s}
    BY <2>1, BusyAfter
  <2>4. /\ asked' \in [list : Lists, granted : [Profiles -> SUBSET Permissions]]
        /\ asked'.granted = asked.granted /\ asked'.list[g] = L
        /\ \A y \in Groups \cup Holidays : y # g => asked'.list[y] = asked.list[y]
    BY <1>1, <2>1, AskedList
  <2>5. groups' \in [Groups -> [People -> Nat] \cup {Missing}] /\ groups'[g] = after
        /\ \A y \in Groups : y # g => groups'[y] = groups[y]
    BY <1>1, <2>1, <2>2 DEF RosterTypeOK
  <2>6. RosterTypeOK'
    BY <1>1, <1>6, <2>3, <2>4, <2>5 DEF RosterTypeOK
  <2>7. OthersStay(s, g)
    <3>1. \A y : y # g => Busy(y)' = Busy(y)
      BY <1>5, <2>3
    <3> QED
      BY <1>5, <1>6, <2>3, <2>4, <2>5, <3>1 DEF OthersStay
  <2>8. GroupInv(g)'
    <3> SUFFICES ASSUME g \notin spoilt'
                 PROVE  Busy(g)' = {} /\ after = [m \in People |-> IF m \in L THEN 1 ELSE 0]
      BY <2>4, <2>5 DEF GroupInv
    <3>1. Busy(g) = {s} /\ groups[g] = Nobody
      BY <1>5, <1>6, <1>7, <2>1 DEF GroupInv
    <3> QED
      BY <2>3, <3>1 DEF Nobody
  <2> QED
    BY <2>6, <2>7, <2>8, OthersStayInv DEF RosterInv
<1> QED
  BY <1>8, <1>9

LEMMA CreateProfileInv ==
  ASSUME RosterInv, NEW s \in Callers, NEW p \in Profiles, NEW granted \in SUBSET Permissions,
         CreateProfile(s, p, granted)
  PROVE  RosterInv'
<1> USE RosterAssumption
<1>1. RosterTypeOK
  BY DEF RosterInv
<1> DEFINE c == [at |-> "permissions", row |-> p, granted |-> granted]
<1>2. /\ call[s] = Resting /\ Busy(p) = {} /\ call' = [call EXCEPT ![s] = c]
      /\ profiles' = [profiles EXCEPT ![p] = AllUnset]
      /\ asked' = [asked EXCEPT !.granted[p] = granted]
      /\ spoilt' = spoilt \ {p} /\ UNCHANGED <<people, groups, holidays>>
  BY DEF CreateProfile, profileOnly, AllUnset
<1>3. c \in RosterCall \cup {Resting} /\ c.granted = granted /\ c.row = p /\ c # Resting
  BY DEF RosterCall, Resting
<1> HIDE DEF c
<1>4. /\ call' \in [Callers -> RosterCall \cup {Resting}]
      /\ call'[s] = c /\ \A r \in Callers : r # s => call'[r] = call[r]
      /\ \A x : Busy(x)' = IF c # Resting /\ c.row = x THEN Busy(x) \cup {s} ELSE Busy(x) \ {s}
  BY <1>2, <1>3, BusyAfter
<1>5. /\ asked' \in [list : Lists, granted : [Profiles -> SUBSET Permissions]]
      /\ asked'.list = asked.list /\ asked'.granted[p] = granted
      /\ \A y \in Profiles : y # p => asked'.granted[y] = asked.granted[y]
  BY <1>1, <1>2, AskedGranted
<1>6. profiles' \in [Profiles -> Grants \cup {Missing}] /\ profiles'[p] = AllUnset
      /\ \A y \in Profiles : y # p => profiles'[y] = profiles[y]
  BY <1>1, <1>2 DEF RosterTypeOK, AllUnset, Grants
<1>7. RosterTypeOK'
  BY <1>1, <1>2, <1>4, <1>5, <1>6 DEF RosterTypeOK
<1>8. OthersStay(s, p)
  <2>1. \A y : s \notin Busy(y)
    BY <1>2 DEF Busy
  <2>2. \A y : y # p => Busy(y)' = Busy(y)
    BY <1>3, <1>4, <2>1
  <2> QED
    BY <1>2, <1>4, <1>5, <1>6, <2>1, <2>2 DEF OthersStay
<1>9. ProfileInv(p)'
  <2>1. Busy(p)' = {s} /\ call'[s].granted = granted
    BY <1>2, <1>3, <1>4
  <2> QED
    BY <1>5, <1>6, <2>1 DEF ProfileInv
<1> QED
  BY <1>7, <1>8, <1>9, OthersStayInv DEF RosterInv

LEMMA CreatePermissionsInv ==
  ASSUME RosterInv, NEW s \in Callers, CreatePermissions(s)
  PROVE  RosterInv'
<1> USE RosterAssumption
<1>1. RosterTypeOK /\ call[s] \in RosterCall \cup {Resting}
  BY DEF RosterInv, RosterTypeOK
<1>2. call[s] # Resting /\ call[s].row \in Profiles /\ call[s].granted \in SUBSET Permissions
  BY <1>1, RosterFields DEF CreatePermissions
<1>3. PICK p \in Profiles, G \in SUBSET Permissions : p = call[s].row /\ G = call[s].granted
  BY <1>2
<1>4. s \in Busy(p) /\ \A y : y # p => s \notin Busy(y)
  BY <1>2, <1>3 DEF Busy
<1> DEFINE after == [x \in Permissions |-> IF x \in G THEN "granted" ELSE "denied"]
<1>5. /\ profiles[p] # Missing /\ profiles' = [profiles EXCEPT ![p] = after]
      /\ call' = [call EXCEPT ![s] = Resting] /\ UNCHANGED <<people, groups, holidays, asked, spoilt>>
  BY <1>3 DEF CreatePermissions, End, profileOnly
<1>6. /\ call' \in [Callers -> RosterCall \cup {Resting}]
      /\ call'[s] = Resting /\ \A r \in Callers : r # s => call'[r] = call[r]
      /\ \A x : Busy(x)' = Busy(x) \ {s}
  BY <1>5, BusyAfter
<1>7. profiles' \in [Profiles -> Grants \cup {Missing}] /\ profiles'[p] = after
      /\ \A y \in Profiles : y # p => profiles'[y] = profiles[y]
  BY <1>1, <1>5 DEF RosterTypeOK, Grants
<1>8. RosterTypeOK'
  BY <1>1, <1>5, <1>6, <1>7 DEF RosterTypeOK
<1>9. OthersStay(s, p)
  BY <1>4, <1>5, <1>6, <1>7 DEF OthersStay
<1>10. ProfileInv(p)'
  <2>1. ProfileInv(p)
    BY DEF RosterInv
  <2>2. Busy(p)' = {}
    <3>1. \A r, t \in Busy(p) : r = t
      BY <2>1 DEF ProfileInv
    <3> QED
      BY <1>4, <1>6, <3>1
  <2>3. asked'.granted[p] = G
    BY <1>3, <1>4, <1>5, <2>1, Zenon DEF ProfileInv
  <2> QED
    BY <1>7, <2>2, <2>3 DEF ProfileInv
<1> QED
  BY <1>8, <1>9, <1>10, OthersStayInv DEF RosterInv

LEMMA CreateHolidayInv ==
  ASSUME RosterInv, NEW s \in Callers, NEW h \in Holidays, NEW list \in SUBSET People,
         CreateHoliday(s, h, list)
  PROVE  RosterInv'
<1> USE RosterAssumption
<1>1. RosterTypeOK
  BY DEF RosterInv
<1>2. /\ call[s] = Resting /\ holidays[h] = Missing /\ Busy(h) = {}
      /\ holidays' = [holidays EXCEPT ![h] = {}] /\ asked' = [asked EXCEPT !.list[h] = list]
      /\ UNCHANGED <<people, groups, profiles, spoilt>>
  BY DEF CreateHoliday, holidayOnly, RosterInv, HolidayInv
<1>3. PICK c \in RosterCall \cup {Resting} :
         /\ call' = [call EXCEPT ![s] = c]
         /\ (c = Resting /\ list = {}) \/ (c # Resting /\ c.row = h /\ c.list = list)
  <2>1. CASE list = {}
    BY <1>1, <1>2, <2>1 DEF CreateHoliday, RosterTypeOK
  <2>2. CASE list # {}
    <3> DEFINE c == [at |-> "assign", row |-> h, list |-> list]
    <3>1. c \in RosterCall /\ c # Resting /\ c.row = h /\ c.list = list
      BY DEF RosterCall, Resting
    <3>2. call' = [call EXCEPT ![s] = c]
      BY <2>2 DEF CreateHoliday
    <3> HIDE DEF c
    <3> QED
      BY <3>1, <3>2
  <2> QED
    BY <2>1, <2>2
<1>4. /\ call' \in [Callers -> RosterCall \cup {Resting}]
      /\ call'[s] = c /\ \A r \in Callers : r # s => call'[r] = call[r]
      /\ \A x : Busy(x)' = IF c # Resting /\ c.row = x THEN Busy(x) \cup {s} ELSE Busy(x) \ {s}
  BY <1>3, BusyAfter
<1>5. /\ asked' \in [list : Lists, granted : [Profiles -> SUBSET Permissions]]
      /\ asked'.granted = asked.granted /\ asked'.list[h] = list
      /\ \A y \in Groups \cup Holidays : y # h => asked'.list[y] = asked.list[y]
  BY <1>1, <1>2, AskedList
<1>6. holidays' \in [Holidays -> (SUBSET People) \cup {Missing}] /\ holidays'[h] = {}
      /\ \A y \in Holidays : y # h => holidays'[y] = holidays[y]
  BY <1>1, <1>2 DEF RosterTypeOK
<1>7. RosterTypeOK'
  BY <1>1, <1>2, <1>4, <1>5, <1>6 DEF RosterTypeOK
<1>8. OthersStay(s, h)
  <2>1. \A y : s \notin Busy(y)
    BY <1>2 DEF Busy
  <2>2. \A y : y # h => Busy(y)' = Busy(y)
    BY <1>3, <1>4, <2>1
  <2> QED
    BY <1>2, <1>4, <1>5, <1>6, <2>1, <2>2 DEF OthersStay
<1>9. HolidayInv(h)'
  <2>1. \/ Busy(h)' = {} /\ list = {}
        \/ Busy(h)' = {s} /\ call'[s].list = list
    BY <1>2, <1>3, <1>4
  <2> QED
    BY <1>5, <1>6, <2>1 DEF HolidayInv
<1> QED
  BY <1>7, <1>8, <1>9, OthersStayInv DEF RosterInv

LEMMA AssignUsersInv ==
  ASSUME RosterInv, NEW s \in Callers, AssignUsers(s)
  PROVE  RosterInv'
<1> USE RosterAssumption
<1>1. RosterTypeOK /\ call[s] \in RosterCall \cup {Resting}
  BY DEF RosterInv, RosterTypeOK
<1>2. call[s] # Resting /\ call[s].row \in Holidays /\ call[s].list \in SUBSET People
  BY <1>1, RosterFields DEF AssignUsers
<1>3. PICK h \in Holidays, L \in SUBSET People : h = call[s].row /\ L = call[s].list
  BY <1>2
<1>4. s \in Busy(h) /\ \A y : y # h => s \notin Busy(y)
  BY <1>2, <1>3 DEF Busy
<1>5. /\ holidays' = [holidays EXCEPT ![h] = L]
      /\ call' = [call EXCEPT ![s] = Resting] /\ UNCHANGED <<people, groups, profiles, asked, spoilt>>
  BY <1>3 DEF AssignUsers, End, holidayOnly
<1>6. /\ call' \in [Callers -> RosterCall \cup {Resting}]
      /\ call'[s] = Resting /\ \A r \in Callers : r # s => call'[r] = call[r]
      /\ \A x : Busy(x)' = Busy(x) \ {s}
  BY <1>5, BusyAfter
<1>7. holidays' \in [Holidays -> (SUBSET People) \cup {Missing}] /\ holidays'[h] = L
      /\ \A y \in Holidays : y # h => holidays'[y] = holidays[y]
  BY <1>1, <1>5 DEF RosterTypeOK
<1>8. RosterTypeOK'
  BY <1>1, <1>5, <1>6, <1>7 DEF RosterTypeOK
<1>9. OthersStay(s, h)
  BY <1>4, <1>5, <1>6, <1>7 DEF OthersStay
<1>10. HolidayInv(h)'
  <2>1. Busy(h)' = {} /\ asked'.list[h] = L
    BY <1>3, <1>4, <1>5, <1>6 DEF RosterInv, HolidayInv
  <2> QED
    BY <1>7, <2>1 DEF HolidayInv
<1> QED
  BY <1>8, <1>9, <1>10, OthersStayInv DEF RosterInv

\* A row whose call is cut off is spoilt, and what was written stays.
LEMMA CutOffInv ==
  ASSUME RosterInv, NEW s \in Callers, CutOff(s)
  PROVE  RosterInv'
<1> USE RosterAssumption
<1>1. RosterTypeOK /\ call[s] \in RosterCall \cup {Resting}
  BY DEF RosterInv, RosterTypeOK
<1>2. call[s] # Resting /\ call[s].row \in Groups \cup Profiles \cup Holidays
  BY <1>1, RosterFields DEF CutOff
<1>3. PICK y \in Groups \cup Profiles \cup Holidays : y = call[s].row
  BY <1>2
<1>4. /\ spoilt' = spoilt \cup {y} /\ call' = [call EXCEPT ![s] = Resting]
      /\ UNCHANGED <<people, groups, profiles, holidays, asked>>
  BY <1>3 DEF CutOff, End
<1>5. /\ call' \in [Callers -> RosterCall \cup {Resting}]
      /\ call'[s] = Resting /\ \A r \in Callers : r # s => call'[r] = call[r]
      /\ \A x : Busy(x)' = Busy(x) \ {s}
  BY <1>4, BusyAfter
<1>6. RosterTypeOK'
  BY <1>1, <1>4, <1>5 DEF RosterTypeOK
<1>7. s \in Busy(y) /\ \A x : x # y => s \notin Busy(x)
  BY <1>2, <1>3 DEF Busy
<1>8. OthersStay(s, y)
  BY <1>4, <1>5, <1>7 DEF OthersStay
<1>9. (\A g \in Groups \ {y} : GroupInv(g)') /\ (\A p \in Profiles \ {y} : ProfileInv(p)')
      /\ \A h \in Holidays \ {y} : HolidayInv(h)'
  BY <1>8, OthersStayInv
<1>10. y \in Groups => GroupInv(y)'
  BY <1>4 DEF GroupInv
<1>11. \A r \in Busy(y)' : r \in Busy(y) /\ call'[r] = call[r]
  BY <1>5 DEF Busy
<1>12. y \in Profiles => ProfileInv(y)'
  BY <1>4, <1>11 DEF RosterInv, ProfileInv
<1>13. y \in Holidays => HolidayInv(y)'
  <2>1. y \in Holidays => HolidayInv(y)
    BY DEF RosterInv
  <2>2. Busy(y) = {} => Busy(y)' = {}
    BY <1>11
  <2> QED
    BY <1>4, <1>11, <2>1, <2>2 DEF HolidayInv
<1> QED
  BY <1>6, <1>9, <1>10, <1>12, <1>13 DEF RosterInv

\* The operations that are one command.
LEMMA RowStepInv ==
  ASSUME RosterInv,
         \/ \E g, to \in Groups : RemoveGroup(g, to)
         \/ \E p, to \in Profiles : RemoveProfile(p, to)
         \/ \E p \in Profiles, x \in Permissions, grant \in BOOLEAN : SetPermission(p, x, grant)
         \/ \E m \in People : RemovePerson(m)
  PROVE  RosterInv'
<1> USE RosterAssumption
<1>1. /\ RosterTypeOK /\ \A g \in Groups : GroupInv(g)
      /\ \A p \in Profiles : ProfileInv(p)
      /\ \A h \in Holidays : HolidayInv(h)
  BY DEF RosterInv
<1>2. UNCHANGED <<call, spoilt>> /\ \A y : Busy(y)' = Busy(y)
  BY DEF RemoveGroup, RemoveProfile, SetPermission, RemovePerson, Busy
<1>3. ASSUME NEW g \in Groups, NEW to \in Groups, RemoveGroup(g, to) PROVE RosterInv'
  <2>1. groups' = [groups EXCEPT ![g] = Missing] /\ UNCHANGED <<people, profiles, holidays, asked>>
    BY <1>3 DEF RemoveGroup, groupOnly
  <2>2. groups' \in [Groups -> [People -> Nat] \cup {Missing}]
        /\ \A y \in Groups : groups'[y] \in {Missing, groups[y]}
    BY <1>1, <2>1 DEF RosterTypeOK
  <2>3. RosterTypeOK'
    BY <1>1, <1>2, <2>1, <2>2 DEF RosterTypeOK
  <2>4. \A y \in Groups : GroupInv(y)'
    BY <1>1, <1>2, <2>1, <2>2 DEF GroupInv
  <2> QED
    BY <1>1, <1>2, <2>1, <2>3, <2>4 DEF RosterInv, ProfileInv, HolidayInv
<1>4. ASSUME NEW p \in Profiles, NEW to \in Profiles, RemoveProfile(p, to) PROVE RosterInv'
  <2>1. profiles' = [profiles EXCEPT ![p] = Missing] /\ UNCHANGED <<people, groups, holidays, asked>>
    BY <1>4 DEF RemoveProfile, profileOnly
  <2>2. profiles' \in [Profiles -> Grants \cup {Missing}]
        /\ \A y \in Profiles : profiles'[y] \in {Missing, profiles[y]}
    BY <1>1, <2>1 DEF RosterTypeOK
  <2>3. RosterTypeOK'
    BY <1>1, <1>2, <2>1, <2>2 DEF RosterTypeOK
  <2>4. \A y \in Profiles : ProfileInv(y)'
    BY <1>1, <1>2, <2>1, <2>2 DEF ProfileInv
  <2> QED
    BY <1>1, <1>2, <2>1, <2>3, <2>4 DEF RosterInv, GroupInv, HolidayInv
<1>5. ASSUME NEW p \in Profiles, NEW x \in Permissions, NEW grant \in BOOLEAN,
             SetPermission(p, x, grant)
      PROVE  RosterInv'
  <2>1. PICK v \in {"granted", "denied"} : v = IF grant THEN "granted" ELSE "denied"
    OBVIOUS
  <2>2. PICK G \in SUBSET Permissions :
           /\ G = IF grant THEN asked.granted[p] \cup {x} ELSE asked.granted[p] \ {x}
           /\ asked' = [asked EXCEPT !.granted[p] = G]
    <3>1. asked.granted[p] \subseteq Permissions
      BY <1>1, AskedType
    <3>2. asked' = [asked EXCEPT !.granted[p] = IF grant THEN asked.granted[p] \cup {x}
                                                         ELSE asked.granted[p] \ {x}]
      BY <1>5 DEF SetPermission
    <3> QED
      BY <3>1, <3>2
  <2>3. /\ profiles[p] # Missing /\ profiles[p][x] # "unset"
        /\ profiles' = [profiles EXCEPT ![p] = [profiles[p] EXCEPT ![x] = v]]
        /\ UNCHANGED <<people, groups, holidays>>
    BY <1>5, <2>1 DEF SetPermission, profileOnly
  <2>4. profiles[p] \in Grants
    BY <1>1, <2>3 DEF RosterTypeOK
  <2>5. /\ profiles' \in [Profiles -> Grants \cup {Missing}]
        /\ profiles'[p] = [profiles[p] EXCEPT ![x] = v]
        /\ \A y \in Profiles : y # p => profiles'[y] = profiles[y]
    BY <1>1, <2>3, <2>4 DEF RosterTypeOK, Grants
  <2>6. /\ asked' \in [list : Lists, granted : [Profiles -> SUBSET Permissions]]
        /\ asked'.list = asked.list /\ asked'.granted[p] = G
        /\ \A y \in Profiles : y # p => asked'.granted[y] = asked.granted[y]
    <3>1. asked' = [asked EXCEPT !.granted[p] = G]
      BY <2>2
    <3>2. RosterTypeOK /\ p \in Profiles /\ G \in SUBSET Permissions
      BY <1>1
    <3> QED
      BY <3>1, <3>2, AskedGranted, Zenon
  <2>7. RosterTypeOK'
    BY <1>1, <1>2, <2>3, <2>5, <2>6 DEF RosterTypeOK
  <2>8. ProfileInv(p)'
    <3>1. Busy(p) = {}
      <4> SUFFICES ASSUME NEW s \in Busy(p) PROVE FALSE
        OBVIOUS
      <4>1. profiles[p] = AllUnset
        BY <1>1, <2>3 DEF ProfileInv
      <4>2. AllUnset[x] = "unset"
        BY DEF AllUnset
      <4> QED
        BY <2>3, <4>1, <4>2
    <3>2. ASSUME p \notin spoilt
          PROVE  profiles'[p] = [z \in Permissions |-> IF z \in G THEN "granted" ELSE "denied"]
      <4>1. profiles[p] = [z \in Permissions |-> IF z \in asked.granted[p] THEN "granted" ELSE "denied"]
        BY <1>1, <2>3, <3>1, <3>2 DEF ProfileInv
      <4> QED
        BY <2>1, <2>2, <2>5, <4>1
    <3> QED
      BY <1>2, <2>6, <3>1, <3>2 DEF ProfileInv
  <2>9. \A y \in Profiles \ {p} : ProfileInv(y)'
    <3> SUFFICES ASSUME NEW y \in Profiles, y # p PROVE ProfileInv(y)'
      OBVIOUS
    <3>1. /\ profiles'[y] = profiles[y] /\ asked'.granted[y] = asked.granted[y]
          /\ Busy(y)' = Busy(y) /\ ProfileInv(y)
      BY <1>1, <1>2, <2>5, <2>6
    <3> QED
      BY <1>2, <3>1 DEF ProfileInv
  <2>10. (\A g \in Groups : GroupInv(g)') /\ \A h \in Holidays : HolidayInv(h)'
    BY <1>1, <1>2, <2>3, <2>6 DEF GroupInv, HolidayInv
  <2> QED
    BY <2>7, <2>8, <2>9, <2>10 DEF RosterInv
<1>6. ASSUME NEW m \in People, RemovePerson(m) PROVE RosterInv'
  <2>1. people' \subseteq people /\ UNCHANGED <<groups, profiles, holidays, asked>>
    BY <1>6 DEF RemovePerson
  <2>2. RosterTypeOK'
    BY <1>1, <1>2, <2>1 DEF RosterTypeOK
  <2> QED
    BY <1>1, <1>2, <2>1, <2>2 DEF RosterInv, GroupInv, ProfileInv, HolidayInv
<1> QED
  BY <1>3, <1>4, <1>5, <1>6

LEMMA NextRosterInv == RosterInv /\ [RosterNext]_rosterVars => RosterInv'
<1> SUFFICES ASSUME RosterInv, [RosterNext]_rosterVars PROVE RosterInv'
  OBVIOUS
<1>1. CASE UNCHANGED rosterVars
  BY <1>1 DEF rosterVars, RosterInv, RosterTypeOK, GroupInv, ProfileInv, HolidayInv, Busy
<1>2. CASE RosterNext
  BY <1>2, CreateGroupInv, UpdateGroupInv, MembersInv, CreateProfileInv, CreatePermissionsInv,
     CreateHolidayInv, AssignUsersInv, CutOffInv, RowStepInv DEF RosterNext
<1> QED
  BY <1>1, <1>2

\* The parts of a row are in the end those that were asked for last, for any number
\* of rows, parts and calls, but where calls overlapped or ended early.
THEOREM PartsAreAlwaysAsAsked == RosterSpec => [](RosterTypeOK /\ PartsAreAsAsked)
<1>1. RosterInv => RosterTypeOK /\ PartsAreAsAsked
  BY DEF RosterInv, GroupInv, ProfileInv, HolidayInv, PartsAreAsAsked, GroupHoldsLastList,
     PermissionsAreExplicit, HolidayHasItsUsers, Settled
<1> QED
  BY <1>1, InitRosterInv, NextRosterInv, PTL DEF RosterSpec
-----------------------------------------------------------------------------
(* The seed scripts.                                                       *)

\* What a run is building it began with nothing, and has not finished.
MakingIsUnfinished ==
    seedRun # NoRun =>
        /\ seedRun.lists <= Len(ListsOf(seedRun.script))
        /\ seedRun.making # "nothing" => ListsDone
        /\ seedRun.making \in SeedGroups =>
              seedRun.script = "uom" /\ built[seedRun.making] < Len(GroupCommands)
        /\ seedRun.making = "vacation" =>
              seedRun.script = "users" /\ vacation < Len(VacationCommands) /\ seedRun.left = {}
        /\ seedRun.making = "prior" =>
              /\ seedRun.script = "uom" /\ seedRun.left = {"prior"}
              /\ prior = NoRun /\ openFrom \in {NoRun, seedRun.date}
              /\ built[Bagged] > 0

Making(x) == seedRun # NoRun /\ seedRun.making = x

\* What nobody is building is not there, or whole, or a run stopped while it did.
PartsAreWhole ==
    /\ \A g \in SeedGroups : Making(g) \/ g \in stopped \/ built[g] \in {0, Len(GroupCommands)}
    /\ Making("vacation") \/ "vacation" \in stopped \/ vacation \in {0, Len(VacationCommands)}

\* What a run has looked at it is building, or there it is.
LookedAtIsThere ==
    seedRun # NoRun =>
        /\ seedRun.script = "uom" =>
              \A g \in SeedGroups \ seedRun.left :
                  Making(g) \/ g \in stopped \/ built[g] = Len(GroupCommands)
        /\ seedRun.script = "users" /\ "vacation" \notin seedRun.left =>
              \/ Making("vacation") \/ "vacation" \in stopped
              \/ vacation = Len(VacationCommands)

\* Once the past rate is there, the row it belongs to is not created again.
PriorIsLast ==
    prior # NoRun =>
        /\ openFrom \in {NoRun, prior}
        /\ built[Bagged] > 0 /\ ~Making(Bagged)

SeedInv ==
    /\ SeedTypeOK /\ MakingIsUnfinished /\ PartsAreWhole
    /\ LookedAtIsThere /\ PriorIsLast /\ PunchesSeededOnce

LEMMA SeedLengths ==
    /\ Len(GroupCommands) = 5 /\ Len(VacationCommands) = 4
    /\ Len(UomLists) = 2 /\ Len(UserLists) = 5
    /\ DOMAIN UomLists = 1..2 /\ DOMAIN UserLists = 1..5
BY DEF GroupCommands, VacationCommands, UomLists, UserLists

LEMMA InitSeedInv == SeedInit => SeedInv
<1> SUFFICES ASSUME SeedInit PROVE SeedInv
  OBVIOUS
<1>1. SeedTypeOK
  BY SeedAssumption, SeedLengths DEF SeedInit, SeedTypeOK, Days
<1> QED
  BY <1>1, SeedAssumption, SeedLengths DEF SeedInit, SeedInv, MakingIsUnfinished, PartsAreWhole,
     LookedAtIsThere, PriorIsLast, PunchesSeededOnce, Making

\* The run moves on, and what is built stays as it is.
LEMMA StartInv ==
  ASSUME SeedInv, NEW script \in {"uom", "users"}, StartScript(script)
  PROVE  SeedInv'
<1> USE DEF StartScript
<1>1. SeedTypeOK'
  BY SeedAssumption, SeedLengths DEF SeedInv, SeedTypeOK, Runs
<1>2. seedRun' # NoRun
  BY <1>1, SeedAssumption, SeedLengths, NoRunAssumption DEF Runs, SeedInv, SeedTypeOK
<1> QED
  BY <1>1, <1>2, SeedAssumption, SeedLengths DEF SeedInv, SeedTypeOK, MakingIsUnfinished,
     ListsOf, PartsAreWhole, LookedAtIsThere, PriorIsLast, PunchesSeededOnce, Making

LEMMA RunFields ==
  ASSUME SeedTypeOK, seedRun # NoRun
  PROVE  /\ seedRun \in Runs
         /\ seedRun.script \in {"uom", "users"} /\ seedRun.lists \in 0..5
         /\ seedRun.left \subseteq SeedGroups \cup SeedPunches \cup {"prior", "vacation"}
         /\ seedRun.making \in SeedGroups \cup {"nothing", "prior", "vacation"}
         /\ seedRun.date \in Days
BY SeedLengths DEF SeedTypeOK, Runs

LEMMA NextSeedInv == SeedInv /\ [SeedNext]_seedVars => SeedInv'
<1> SUFFICES ASSUME SeedInv, [SeedNext]_seedVars PROVE SeedInv'
  OBVIOUS
<1> USE SeedAssumption, SeedLengths, NoRunAssumption
<1> DEFINE Rest == /\ MakingIsUnfinished' /\ PartsAreWhole' /\ LookedAtIsThere' /\ PriorIsLast'
                   /\ PunchesSeededOnce'
<1>0. SeedTypeOK /\ (seedRun # NoRun => seedRun \in Runs)
  BY RunFields DEF SeedInv
<1>1. CASE SeedList
  <2>1. seedRun # NoRun /\ ~ListsDone /\ seedRun.making = "nothing"
    BY <1>1 DEF SeedList, SeedInv, MakingIsUnfinished
  <2>0. /\ seedRun.lists + 1 \in 0..Len(ListsOf(seedRun.script))
        /\ seedRun.lists + 1 \in 0..5 /\ today \in Days
        /\ ListsOf(seedRun.script)[seedRun.lists + 1] \in
             {UomLists[i] : i \in DOMAIN UomLists} \cup {UserLists[i] : i \in DOMAIN UserLists}
    <3>1. /\ seedRun.script \in {"uom", "users"} /\ seedRun.lists \in 0..5 /\ today \in Days
          /\ seedRun.lists <= Len(ListsOf(seedRun.script))
          /\ seedRun.lists # Len(ListsOf(seedRun.script))
      BY <1>0, <2>1, RunFields DEF SeedTypeOK, SeedInv, MakingIsUnfinished, ListsDone
    <3>2. CASE seedRun.script = "uom"
      <4>1. ListsOf(seedRun.script) = UomLists
        BY <3>2 DEF ListsOf
      <4>2. seedRun.lists + 1 \in 1..2 /\ Len(UomLists) = 2
        BY <3>1, <4>1
      <4>3. seedRun.lists + 1 \in DOMAIN UomLists
        BY <4>2
      <4>4. UomLists[seedRun.lists + 1] \in {UomLists[i] : i \in DOMAIN UomLists}
        BY <4>3, Zenon
      <4>5. seedRun.lists + 1 \in 0..5 /\ seedRun.lists + 1 \in 0..Len(UomLists)
        BY <3>1, <4>2
      <4> QED
        BY <3>1, <4>1, <4>4, <4>5
    <3>3. CASE seedRun.script = "users"
      <4>1. ListsOf(seedRun.script) = UserLists
        BY <3>3 DEF ListsOf
      <4>2. seedRun.lists + 1 \in 1..5 /\ Len(UserLists) = 5
        BY <3>1, <4>1
      <4>3. seedRun.lists + 1 \in DOMAIN UserLists
        BY <4>2
      <4>4. UserLists[seedRun.lists + 1] \in {UserLists[i] : i \in DOMAIN UserLists}
        BY <4>3, Zenon
      <4>5. seedRun.lists + 1 \in 0..5 /\ seedRun.lists + 1 \in 0..Len(UserLists)
        BY <3>1, <4>2
      <4> QED
        BY <3>1, <4>1, <4>4, <4>5
    <3> QED
      BY <3>1, <3>2, <3>3
  <2>2. seedRun' \in Runs /\ seedRun'.making = "nothing" /\ seedRun'.script = seedRun.script
        /\ seedRun'.left = seedRun.left /\ seedRun'.lists = seedRun.lists + 1
    <3>1. seedRun' = [seedRun EXCEPT !.lists = seedRun.lists + 1, !.date = today]
      BY <1>1 DEF SeedList
    <3>2. seedRun.lists + 1 \in 0..Len(UserLists) /\ today \in Days
      BY <2>0
    <3> QED
      BY <1>0, <2>1, <3>1, <3>2 DEF Runs
  <2>3. listed' \subseteq {UomLists[i] : i \in DOMAIN UomLists} \cup {UserLists[i] : i \in DOMAIN UserLists}
    BY <1>0, <1>1, <2>0 DEF SeedList, SeedTypeOK
  <2>4. SeedTypeOK'
    BY <1>0, <1>1, <2>2, <2>3 DEF SeedList, SeedTypeOK
  <2>5. Rest
    BY <1>0, <1>1, <2>0, <2>1, <2>2 DEF SeedList, SeedInv, MakingIsUnfinished, PartsAreWhole,
       LookedAtIsThere, PriorIsLast, PunchesSeededOnce, Making
  <2> QED
    BY <2>4, <2>5 DEF SeedInv
<1>2. CASE MoveOpenRow
  <2>1. /\ seedRun # NoRun /\ ListsDone /\ seedRun.making = "nothing"
        /\ seedRun.script = "uom" /\ seedRun.left = {"prior"}
    BY <1>2 DEF MoveOpenRow, Idling, Running
  <2>2. /\ seedRun' \in Runs /\ seedRun' # NoRun /\ seedRun'.script = "uom"
        /\ seedRun'.lists = seedRun.lists
        /\ \A g \in SeedGroups : seedRun'.making # g
        /\ seedRun'.making # "vacation"
        /\ seedRun'.left \cap SeedGroups = {}
        /\ seedRun'.making = "prior" => seedRun'.left = {"prior"} /\ seedRun'.date = today
                                        /\ built[Bagged] > 0 /\ prior = NoRun
        /\ today \in Days
    <3>0. today \in Days /\ seedRun \in Runs
      BY <1>0, <2>1 DEF SeedTypeOK
    <3>1. CASE built[Bagged] > 0 /\ prior = NoRun
      <4>1. seedRun' = [seedRun EXCEPT !.making = "prior", !.date = today]
        BY <1>2, <3>1 DEF MoveOpenRow
      <4> QED
        BY <2>1, <3>0, <3>1, <4>1 DEF Runs
    <3>2. CASE ~(built[Bagged] > 0 /\ prior = NoRun)
      <4>1. seedRun' = [seedRun EXCEPT !.left = {}]
        BY <1>2, <3>2 DEF MoveOpenRow
      <4> QED
        BY <2>1, <3>0, <3>2, <4>1 DEF Runs
    <3> QED
      BY <3>1, <3>2
  <2>3. /\ openFrom' \in Days \cup {NoRun}
        /\ openFrom' = openFrom \/ (prior = NoRun /\ openFrom' \in {NoRun, today})
        /\ seedRun'.making = "prior" => openFrom' \in {NoRun, today}
    BY <1>0, <1>2, <2>1, <2>2 DEF MoveOpenRow, SeedTypeOK
  <2>4. SeedTypeOK'
    BY <1>0, <1>2, <2>2, <2>3 DEF MoveOpenRow, SeedTypeOK
  <2>5. UNCHANGED <<built, prior, punchRows, vacation, stopped>> /\ ListsDone'
    BY <1>2, <2>1, <2>2 DEF MoveOpenRow, ListsDone
  <2>6. Rest
    BY <1>0, <2>1, <2>2, <2>3, <2>5 DEF SeedInv, MakingIsUnfinished, PartsAreWhole,
       LookedAtIsThere, PriorIsLast, PunchesSeededOnce, Making
  <2> QED
    BY <2>4, <2>6 DEF SeedInv
<1>3. CASE CreatePriorRow
  <2>1. /\ seedRun # NoRun /\ ListsDone /\ seedRun.making = "prior" /\ seedRun.script = "uom"
        /\ seedRun.left = {"prior"} /\ prior = NoRun /\ openFrom \in {NoRun, seedRun.date}
        /\ built[Bagged] > 0
    BY <1>3 DEF CreatePriorRow, Running, SeedInv, MakingIsUnfinished
  <2>2. /\ seedRun' \in Runs /\ seedRun'.script = "uom" /\ seedRun'.making = "nothing"
        /\ seedRun'.left = {} /\ prior' = seedRun.date /\ prior' \in Days
    BY <1>0, <1>3, <2>1, RunFields DEF CreatePriorRow, Runs
  <2>3. SeedTypeOK'
    BY <1>0, <1>3, <2>2 DEF CreatePriorRow, SeedTypeOK
  <2>4. Rest
    BY <1>0, <1>3, <2>1, <2>2 DEF CreatePriorRow, SeedInv, MakingIsUnfinished, PartsAreWhole,
       LookedAtIsThere, PriorIsLast, PunchesSeededOnce, Making
  <2> QED
    BY <2>3, <2>4 DEF SeedInv
<1>4. CASE FindVacation
  <2>1. /\ seedRun # NoRun /\ ListsDone /\ seedRun.making = "nothing" /\ seedRun.script = "users"
    BY <1>4 DEF FindVacation, Idling, Running
  <2>2. /\ seedRun' \in Runs /\ seedRun' # NoRun /\ seedRun'.script = "users"
        /\ seedRun'.lists = seedRun.lists /\ seedRun'.left = {}
        /\ seedRun'.making = IF vacation > 0 THEN "nothing" ELSE "vacation"
    BY <1>0, <1>4, <2>1, RunFields DEF FindVacation, Runs
  <2>3. SeedTypeOK' /\ ListsDone'
    BY <1>0, <1>4, <2>1, <2>2 DEF FindVacation, SeedTypeOK, ListsDone
  <2>4. Rest
    BY <1>0, <1>4, <2>1, <2>2, <2>3 DEF FindVacation, SeedTypeOK, SeedInv, MakingIsUnfinished, PartsAreWhole,
       LookedAtIsThere, PriorIsLast, PunchesSeededOnce, Making
  <2> QED
    BY <2>3, <2>4 DEF SeedInv
<1>5. CASE WriteVacationPart
  <2>1. /\ seedRun # NoRun /\ ListsDone /\ seedRun.making = "vacation" /\ seedRun.script = "users"
        /\ seedRun.left = {} /\ vacation < 4 /\ vacation \in 0..4
    BY <1>0, <1>5 DEF WriteVacationPart, Running, SeedInv, MakingIsUnfinished, SeedTypeOK
  <2>2. /\ vacation' = vacation + 1
        /\ seedRun' \in Runs /\ seedRun' # NoRun /\ seedRun'.script = "users"
        /\ seedRun'.lists = seedRun.lists /\ seedRun'.left = {}
        /\ seedRun'.making = IF vacation' = 4 THEN "nothing" ELSE "vacation"
    BY <1>0, <1>5, <2>1, RunFields DEF WriteVacationPart, Runs
  <2>3. SeedTypeOK' /\ ListsDone'
    BY <1>0, <1>5, <2>1, <2>2 DEF WriteVacationPart, SeedTypeOK, ListsDone
  <2>4. Rest
    BY <1>0, <1>5, <2>1, <2>2, <2>3 DEF WriteVacationPart, SeedInv, MakingIsUnfinished, PartsAreWhole,
       LookedAtIsThere, PriorIsLast, PunchesSeededOnce, Making
  <2> QED
    BY <2>3, <2>4 DEF SeedInv
<1>6. CASE ScriptDone
  <2>1. seedRun # NoRun /\ seedRun.making = "nothing" /\ seedRun' = NoRun
    BY <1>6 DEF ScriptDone
  <2> QED
    BY <1>0, <1>6, <2>1 DEF ScriptDone, SeedInv, SeedTypeOK, MakingIsUnfinished, PartsAreWhole,
       LookedAtIsThere, PriorIsLast, PunchesSeededOnce, Making
<1>7. CASE StopScript
  <2>1. /\ seedRun # NoRun /\ seedRun' = NoRun
        /\ \A x \in SeedGroups \cup {"vacation"} : Making(x) => x \in stopped'
        /\ stopped \subseteq stopped' /\ stopped' \subseteq SeedGroups \cup {"vacation"}
    BY <1>0, <1>7, RunFields DEF StopScript, Making, SeedTypeOK
  <2>2. SeedTypeOK'
    BY <1>0, <1>7, <2>1 DEF StopScript, SeedTypeOK
  <2>3. Rest
    BY <1>0, <1>7, <2>1 DEF StopScript, SeedInv, MakingIsUnfinished, PartsAreWhole,
       LookedAtIsThere, PriorIsLast, PunchesSeededOnce, Making
  <2> QED
    BY <2>2, <2>3 DEF SeedInv
<1>8. CASE SeedMidnight
  <2>1. SeedTypeOK'
    BY <1>0, <1>8 DEF SeedMidnight, SeedTypeOK, Days
  <2>2. Rest
    BY <1>0, <1>8 DEF SeedMidnight, SeedInv, MakingIsUnfinished, PartsAreWhole,
       LookedAtIsThere, PriorIsLast, PunchesSeededOnce, Making, ListsDone
  <2> QED
    BY <2>1, <2>2 DEF SeedInv
<1>9. ASSUME NEW g \in SeedGroups, FindGroup(g) PROVE SeedInv'
  <2>1. /\ seedRun # NoRun /\ ListsDone /\ seedRun.making = "nothing" /\ seedRun.script = "uom"
        /\ g \in seedRun.left
    BY <1>9 DEF FindGroup, Idling, Running
  <2>2. /\ seedRun' \in Runs /\ seedRun' # NoRun /\ seedRun'.script = "uom"
        /\ seedRun'.lists = seedRun.lists /\ seedRun'.left = seedRun.left \ {g}
        /\ seedRun'.making = IF built[g] > 0 THEN "nothing" ELSE g
    <3>1. today \in Days /\ seedRun \in Runs /\ seedRun.left \ {g} \subseteq
             SeedGroups \cup SeedPunches \cup {"prior", "vacation"}
      BY <1>0, <2>1, RunFields DEF SeedTypeOK
    <3>2. PICK m \in {"nothing", g} : m = IF built[g] > 0 THEN "nothing" ELSE g
      OBVIOUS
    <3>3. seedRun' = [seedRun EXCEPT !.left = seedRun.left \ {g}, !.date = today, !.making = m]
      BY <1>9, <3>2 DEF FindGroup
    <3> QED
      BY <2>1, <3>1, <3>2, <3>3 DEF Runs
  <2>3. SeedTypeOK' /\ ListsDone'
    BY <1>0, <1>9, <2>1, <2>2 DEF FindGroup, SeedTypeOK, ListsDone
  <2>4. built \in [SeedGroups -> 0..5] /\ UNCHANGED <<built, openFrom, prior, punchRows, vacation, stopped>>
    BY <1>0, <1>9 DEF FindGroup, SeedTypeOK
  <2>5. Rest
    BY <2>1, <2>2, <2>3, <2>4 DEF SeedInv, MakingIsUnfinished, PartsAreWhole,
       LookedAtIsThere, PriorIsLast, PunchesSeededOnce, Making
  <2> QED
    BY <2>3, <2>5 DEF SeedInv
<1>10. ASSUME NEW g \in SeedGroups, WriteGroupPart(g) PROVE SeedInv'
  <2>1. /\ seedRun # NoRun /\ ListsDone /\ seedRun.making = g /\ seedRun.script = "uom"
        /\ built \in [SeedGroups -> 0..5] /\ built[g] < 5
    BY <1>0, <1>10 DEF WriteGroupPart, Running, SeedInv, MakingIsUnfinished, SeedTypeOK
  <2>2. /\ built' = [built EXCEPT ![g] = built[g] + 1]
        /\ built' \in [SeedGroups -> 0..5] /\ built'[g] = built[g] + 1
        /\ \A h \in SeedGroups : h # g => built'[h] = built[h]
    BY <1>10, <2>1 DEF WriteGroupPart
  <2>3. /\ seedRun' \in Runs /\ seedRun' # NoRun /\ seedRun'.script = "uom"
        /\ seedRun'.lists = seedRun.lists /\ seedRun'.left = seedRun.left
        /\ seedRun'.making = IF built'[g] = 5 THEN "nothing" ELSE g
    BY <1>0, <1>10, <2>1, <2>2, RunFields DEF WriteGroupPart, Runs
  <2>4. /\ openFrom' \in Days \cup {NoRun} /\ (g # Bagged => openFrom' = openFrom)
        /\ UNCHANGED <<today, listed, prior, punchRows, vacation, stopped>>
    BY <1>0, <1>10, <2>1, RunFields DEF WriteGroupPart, SeedTypeOK
  <2>5. SeedTypeOK' /\ ListsDone'
    BY <1>0, <2>1, <2>2, <2>3, <2>4 DEF SeedTypeOK, ListsDone
  <2>6. g = Bagged => prior = NoRun
    BY <2>1 DEF SeedInv, PriorIsLast, Making
  <2>7. Rest
    BY <2>1, <2>2, <2>3, <2>4, <2>5, <2>6 DEF SeedInv, MakingIsUnfinished, PartsAreWhole,
       LookedAtIsThere, PriorIsLast, PunchesSeededOnce, Making
  <2> QED
    BY <2>5, <2>7 DEF SeedInv
<1>11. ASSUME NEW p \in SeedPunches, SeedPunch(p) PROVE SeedInv'
  <2>1. /\ seedRun # NoRun /\ ListsDone /\ seedRun.making = "nothing" /\ seedRun.script = "users"
    BY <1>11 DEF SeedPunch, Idling, Running
  <2>2. /\ seedRun' \in Runs /\ seedRun' # NoRun /\ seedRun'.script = "users"
        /\ seedRun'.lists = seedRun.lists /\ seedRun'.making = "nothing"
        /\ "vacation" \in seedRun.left => "vacation" \in seedRun'.left
    BY <1>0, <1>11, <2>1, RunFields DEF SeedPunch, Runs
  <2>3. /\ seedRun.date \in Days
        /\ punchRows' = [punchRows EXCEPT ![p] = [punchRows[p] EXCEPT ![seedRun.date] = 1]]
        /\ punchRows \in [SeedPunches -> [Days -> 0..2]]
    BY <1>0, <1>11, <2>1, RunFields DEF SeedPunch, SeedTypeOK
  <2>4. punchRows' \in [SeedPunches -> [Days -> 0..2]] /\ PunchesSeededOnce'
    BY <2>3 DEF PunchesSeededOnce, SeedInv
  <2>5. SeedTypeOK' /\ ListsDone'
    BY <1>0, <1>11, <2>1, <2>2, <2>4 DEF SeedPunch, SeedTypeOK, ListsDone
  <2>6. Rest
    BY <1>11, <2>1, <2>2, <2>4, <2>5 DEF SeedPunch, SeedInv, MakingIsUnfinished, PartsAreWhole,
       LookedAtIsThere, PriorIsLast, Making
  <2> QED
    BY <2>5, <2>6 DEF SeedInv
<1>12. CASE UNCHANGED seedVars
  BY <1>12 DEF seedVars, SeedInv, ListsOf, SeedTypeOK, MakingIsUnfinished, PartsAreWhole,
     LookedAtIsThere, PriorIsLast, PunchesSeededOnce, Making, ListsDone
<1> QED
  BY <1>1, <1>2, <1>3, <1>4, <1>5, <1>6, <1>7, <1>8, <1>9, <1>10, <1>11, <1>12, StartInv DEF SeedNext

\* The seed scripts can be run again: wherever runs stop and on whatever days they
\* are started, for any Groups and records.
THEOREM SeedsAreAlwaysSafe == SeedSpec => [](SeedTypeOK /\ SeedsAreSafeToRerun)
<1>1. SeedInv => SeedTypeOK /\ SeedsAreSafeToRerun
  <2> SUFFICES ASSUME SeedInv PROVE SeedTypeOK /\ SeedsAreSafeToRerun
    OBVIOUS
  <2> USE SeedAssumption, SeedLengths
  <2>1. EndedSeedIsWhole
    BY RunFields DEF SeedInv, EndedSeedIsWhole, LookedAtIsThere, Making
  <2>2. PriorMeetsCurrent
    BY DEF SeedInv, PriorMeetsCurrent, PriorIsLast
  <2> QED
    BY <2>1, <2>2 DEF SeedInv, SeedsAreSafeToRerun
<1> QED
  BY <1>1, InitSeedInv, NextSeedInv, PTL DEF SeedSpec

-----------------------------------------------------------------------------
(* Sums over finite sets, as SumFunctionOnSet computes them: an induction   *)
(* over the parts of a set, by way of a least part that is none of T.       *)

\* A set that has every finite set whose parts, less one element, it has.
LEMMA SubsetsUpTo ==
    ASSUME NEW S, IsFiniteSet(S), NEW T,
           \A A \in SUBSET S : (\A x \in A : A \ {x} \in T) => A \in T
    PROVE  SUBSET S \subseteq T
<1>. DEFINE R == StrictSubsetOrdering(S)
            M == (SUBSET S) \ T
<1>1. SUFFICES ASSUME M # {} PROVE FALSE
  OBVIOUS
<1>2. IsWellFoundedOn(R, FiniteSubsetsOf(S))
  BY FS_StrictSubsetOrderingWellFounded
<1>3. M \subseteq FiniteSubsetsOf(S)
  BY FS_FiniteSubsetsOfFinite
<1>4. \E A \in M : \A B \in M : ~(<<B, A>> \in R)
  <2>. HIDE DEF M, R
  <2>. QED  BY <1>1, <1>2, <1>3, WFMin
<1>5. PICK A \in M : \A B \in M : <<B, A>> \notin R
  BY <1>4
<1>6. ASSUME NEW x \in A
      PROVE  A \ {x} \in T
  <2>1. A \ {x} \in SUBSET S /\ A \in SUBSET S /\ A \ {x} \subseteq A /\ A \ {x} # A
    OBVIOUS
  <2>2. <<A \ {x}, A>> \in R
    BY <2>1 DEF StrictSubsetOrdering
  <2>. QED  BY <1>5, <2>1, <2>2
<1>. QED  BY <1>6

\* What SumFunctionOnSet computes by: g has the sums over the sets in D.
Sums(g, f, D) ==
    g = [s \in D |-> IF s = {} THEN 0
                     ELSE f[CHOOSE x \in s : TRUE] + g[s \ {CHOOSE x \in s : TRUE}]]

LEMMA SumsAt ==
    ASSUME NEW g, NEW f, NEW D, Sums(g, f, D), NEW s \in D
    PROVE  g[s] = IF s = {} THEN 0
                  ELSE f[CHOOSE x \in s : TRUE] + g[s \ {CHOOSE x \in s : TRUE}]
<1>. DEFINE e(t) == IF t = {} THEN 0
                    ELSE f[CHOOSE x \in t : TRUE] + g[t \ {CHOOSE x \in t : TRUE}]
<1>1. g = [t \in D |-> e(t)]
  BY DEF Sums
<1>. HIDE DEF e
<1>2. g[s] = e(s)
  BY <1>1
<1>. QED  BY <1>2 DEF e

LEMMA SumUnfolds ==
    ASSUME NEW f, NEW S
    PROVE  SumFunctionOnSet(f, S) = (CHOOSE g : Sums(g, f, SUBSET S))[S]
BY DEF SumFunctionOnSet, FoldFunctionOnSet, MapThenFoldSet, Sums

\* Two such functions agree where both are defined.
LEMMA SumsAgree ==
    ASSUME NEW f, NEW A, NEW B, NEW g, NEW h,
           Sums(g, f, SUBSET A), Sums(h, f, SUBSET B),
           NEW t \in SUBSET A, t \in SUBSET B, IsFiniteSet(t)
    PROVE  g[t] = h[t]
<1>. DEFINE T == {u \in SUBSET t : g[u] = h[u]}
<1>1. ASSUME NEW u \in SUBSET t, \A x \in u : u \ {x} \in T
      PROVE  u \in T
  <2>1. u \in SUBSET A /\ u \in SUBSET B
    OBVIOUS
  <2>2. /\ g[u] = IF u = {} THEN 0
                   ELSE f[CHOOSE x \in u : TRUE] + g[u \ {CHOOSE x \in u : TRUE}]
        /\ h[u] = IF u = {} THEN 0
                   ELSE f[CHOOSE x \in u : TRUE] + h[u \ {CHOOSE x \in u : TRUE}]
    <3>. DEFINE DA == SUBSET A
                DB == SUBSET B
    <3>1. Sums(g, f, DA) /\ u \in DA /\ Sums(h, f, DB) /\ u \in DB
      BY <2>1
    <3>. HIDE DEF DA, DB
    <3>. QED  BY <3>1, SumsAt
  <2>3. CASE u = {}
    BY <2>2, <2>3
  <2>4. CASE u # {}
    <3>1. (CHOOSE x \in u : TRUE) \in u
      BY <2>4
    <3>. DEFINE c == CHOOSE x \in u : TRUE
    <3>2. c \in u
      BY <3>1
    <3>3. g[u] = f[c] + g[u \ {c}] /\ h[u] = f[c] + h[u \ {c}]
      BY <2>2, <2>4
    <3>. HIDE DEF c
    <3>4. g[u \ {c}] = h[u \ {c}]
      BY <1>1, <3>2
    <3>. QED  BY <3>3, <3>4
  <2>. QED  BY <2>3, <2>4
<1>2. SUBSET t \subseteq T
  <2>. HIDE DEF T
  <2>1. \A u \in SUBSET t : (\A x \in u : u \ {x} \in T) => u \in T
    BY <1>1
  <2>. QED  BY <2>1, SubsetsUpTo
<1>. QED  BY <1>2

\* There is one for every finite set.
LEMMA SumsExist ==
    ASSUME NEW f, NEW S, IsFiniteSet(S)
    PROVE  \E g : Sums(g, f, SUBSET S)
<1>. DEFINE T == {A \in SUBSET S : \E g : Sums(g, f, SUBSET A)}
<1>1. ASSUME NEW A \in SUBSET S, \A x \in A : A \ {x} \in T
      PROVE  A \in T
  <2>. DEFINE without(x) == CHOOSE g : Sums(g, f, SUBSET (A \ {x}))
              below(t) == without(CHOOSE x \in A : x \notin t)[t]
              c(t) == CHOOSE x \in t : TRUE
              sum(t) == IF t = A
                        THEN IF A = {} THEN 0 ELSE f[c(A)] + below(A \ {c(A)})
                        ELSE below(t)
              G == [t \in SUBSET A |-> sum(t)]
  <2>1. ASSUME NEW x \in A
        PROVE  Sums(without(x), f, SUBSET (A \ {x}))
    BY <1>1
  <2>. HIDE DEF without
  <2>2. ASSUME NEW t \in SUBSET A, NEW x \in A, x \notin t
        PROVE  below(t) = without(x)[t]
    <3>. DEFINE y == CHOOSE z \in A : z \notin t
    <3>1. y \in A /\ y \notin t
      BY <2>2
    <3>2. below(t) = without(y)[t]
      OBVIOUS
    <3>. HIDE DEF y, below
    <3>3. t \in SUBSET (A \ {x}) /\ t \in SUBSET (A \ {y})
      BY <2>2, <3>1
    <3>4. IsFiniteSet(t)
      BY FS_Subset
    <3>5. Sums(without(x), f, SUBSET (A \ {x})) /\ Sums(without(y), f, SUBSET (A \ {y}))
      BY <2>1, <2>2, <3>1
    <3>6. without(x)[t] = without(y)[t]
      <4>. DEFINE p == without(x)
                  q == without(y)
                  X == A \ {x}
                  Y == A \ {y}
      <4>1. Sums(p, f, SUBSET X) /\ Sums(q, f, SUBSET Y) /\ t \in SUBSET X /\ t \in SUBSET Y
        BY <3>3, <3>5
      <4>. HIDE DEF p, q, X, Y
      <4>2. p[t] = q[t]
        BY <4>1, <3>4, SumsAgree
      <4>. QED  BY <4>2 DEF p, q
    <3>. QED  BY <3>2, <3>6
  <2>. HIDE DEF below
  <2>3. ASSUME NEW t \in SUBSET A
        PROVE  sum(t) = IF t = {} THEN 0 ELSE f[c(t)] + sum(t \ {c(t)})
    <3>1. t # {} => c(t) \in t
      OBVIOUS
    <3>. HIDE DEF c
    <3>2. CASE t = A
      <4>1. t # {} => t \ {c(t)} # A
        BY <3>1, <3>2
      <4>. QED  BY <3>2, <4>1
    <3>3. CASE t # A
      <4>1. PICK x \in A : x \notin t
        BY <3>3
      <4>2. below(t) = without(x)[t]
        BY <2>2, <4>1
      <4>3. sum(t) = without(x)[t]
        BY <3>3, <4>2
      <4>4. without(x)[t] = IF t = {} THEN 0 ELSE f[c(t)] + without(x)[t \ {c(t)}]
        <5>. DEFINE D == SUBSET (A \ {x})
                    p == without(x)
        <5>1. Sums(p, f, D) /\ t \in D
          BY <2>1, <4>1
        <5>. HIDE DEF D, p
        <5>2. p[t] = IF t = {} THEN 0 ELSE f[CHOOSE z \in t : TRUE] + p[t \ {CHOOSE z \in t : TRUE}]
          BY <5>1, SumsAt
        <5>. QED  BY <5>2 DEF p, c
      <4>5. CASE t = {}
        BY <4>3, <4>4, <4>5
      <4>6. CASE t # {}
        <5>. DEFINE u == t \ {c(t)}
        <5>1. u \in SUBSET A /\ u # A /\ x \notin u
          BY <3>1, <4>1
        <5>2. below(u) = without(x)[u]
          <6>. HIDE DEF u
          <6>. QED  BY <2>2, <4>1, <5>1
        <5>3. sum(u) = without(x)[u]
          BY <5>1, <5>2
        <5>4. without(x)[t] = f[c(t)] + without(x)[u]
          BY <4>4, <4>6
        <5>5. sum(t) = f[c(t)] + sum(u)
          <6>. HIDE DEF u, sum
          <6>. QED  BY <4>3, <5>3, <5>4
        <5>. QED  BY <4>6, <5>5
      <4>. QED  BY <4>5, <4>6
    <3>. QED  BY <3>2, <3>3
  <2>. HIDE DEF sum
  <2>4. Sums(G, f, SUBSET A)
    <3>1. ASSUME NEW t \in SUBSET A
          PROVE  G[t] = IF t = {} THEN 0 ELSE f[c(t)] + G[t \ {c(t)}]
      <4>1. t \ {c(t)} \in SUBSET A
        OBVIOUS
      <4>2. G[t] = sum(t) /\ G[t \ {c(t)}] = sum(t \ {c(t)})
        BY <4>1
      <4>. QED  BY <2>3, <4>2
    <3>. DEFINE e(t) == IF t = {} THEN 0 ELSE f[CHOOSE x \in t : TRUE] + G[t \ {CHOOSE x \in t : TRUE}]
    <3>2. \A t \in SUBSET A : G[t] = e(t)
      BY <3>1
    <3>3. G = [t \in SUBSET A |-> G[t]]
      OBVIOUS
    <3>. HIDE DEF G, e
    <3>4. G = [t \in SUBSET A |-> e(t)]
      BY <3>2, <3>3
    <3>. QED  BY <3>4 DEF Sums, e
  <2>. QED  BY <2>4
<1>2. SUBSET S \subseteq T
  <2>. HIDE DEF T
  <2>1. \A A \in SUBSET S : (\A x \in A : A \ {x} \in T) => A \in T
    BY <1>1
  <2>. QED  BY <2>1, SubsetsUpTo
<1>. QED  BY <1>2

LEMMA SumOfNone ==
    ASSUME NEW f
    PROVE  SumFunctionOnSet(f, {}) = 0
<1>. DEFINE D == SUBSET {}
            g == CHOOSE h : Sums(h, f, D)
<1>1. Sums(g, f, D) /\ {} \in D
  <2>1. \E h : Sums(h, f, D)
    BY SumsExist, FS_EmptySet
  <2>. QED  BY <2>1
<1>2. SumFunctionOnSet(f, {}) = g[{}]
  BY SumUnfolds
<1>. HIDE DEF D, g
<1>3. g[{}] = 0
  BY <1>1, SumsAt
<1>. QED  BY <1>2, <1>3

\* The element that is taken first is one of the set.
LEMMA SumTakesOne ==
    ASSUME NEW f, NEW S, IsFiniteSet(S), S # {}
    PROVE  \E c \in S : SumFunctionOnSet(f, S) = f[c] + SumFunctionOnSet(f, S \ {c})
<1>. DEFINE c == CHOOSE x \in S : TRUE
            R == S \ {c}
            g == CHOOSE h : Sums(h, f, SUBSET S)
            k == CHOOSE h : Sums(h, f, SUBSET R)
<1>1. c \in S
  OBVIOUS
<1>2. SumFunctionOnSet(f, S) = g[S] /\ SumFunctionOnSet(f, R) = k[R]
  BY SumUnfolds
<1>. HIDE DEF c
<1>3. IsFiniteSet(R)
  BY FS_Subset
<1>4. Sums(g, f, SUBSET S) /\ Sums(k, f, SUBSET R)
  <2>1. (\E h : Sums(h, f, SUBSET S)) /\ (\E h : Sums(h, f, SUBSET R))
    BY <1>3, SumsExist
  <2>. QED  BY <2>1
<1>5. R \in SUBSET S /\ R \in SUBSET R
  OBVIOUS
<1>. HIDE DEF g, k
<1>6. g[S] = f[c] + g[R]
  <2>. DEFINE D == SUBSET S
  <2>1. Sums(g, f, D) /\ S \in D
    BY <1>4
  <2>. HIDE DEF D
  <2>2. g[S] = IF S = {} THEN 0 ELSE f[CHOOSE x \in S : TRUE] + g[S \ {CHOOSE x \in S : TRUE}]
    BY <2>1, SumsAt
  <2>. QED  BY <2>2 DEF c
<1>. HIDE DEF R
<1>7. g[R] = k[R]
  BY <1>3, <1>4, <1>5, SumsAgree
<1>. QED  BY <1>1, <1>2, <1>6, <1>7 DEF R

LEMMA SumIsInteger ==
    ASSUME NEW f, NEW S, IsFiniteSet(S), \A x \in S : f[x] \in Int
    PROVE  SumFunctionOnSet(f, S) \in Int
<1>. DEFINE T == {A \in SUBSET S : SumFunctionOnSet(f, A) \in Int}
<1>1. ASSUME NEW A \in SUBSET S, \A x \in A : A \ {x} \in T
      PROVE  A \in T
  <2>1. CASE A = {}
    BY <2>1, SumOfNone
  <2>2. CASE A # {}
    <3>1. IsFiniteSet(A)
      BY FS_Subset
    <3>2. PICK c \in A : SumFunctionOnSet(f, A) = f[c] + SumFunctionOnSet(f, A \ {c})
      BY <2>2, <3>1, SumTakesOne
    <3>3. SumFunctionOnSet(f, A \ {c}) \in Int /\ f[c] \in Int
      BY <1>1
    <3>. QED  BY <3>2, <3>3
  <2>. QED  BY <2>1, <2>2
<1>2. SUBSET S \subseteq T
  <2>. HIDE DEF T
  <2>1. \A A \in SUBSET S : (\A x \in A : A \ {x} \in T) => A \in T
    BY <1>1
  <2>. QED  BY <2>1, SubsetsUpTo
<1>. QED  BY <1>2

\* Any element can be taken first.
LEMMA SumTakesAny ==
    ASSUME NEW f, NEW S, IsFiniteSet(S), \A x \in S : f[x] \in Int, NEW y \in S
    PROVE  SumFunctionOnSet(f, S) = f[y] + SumFunctionOnSet(f, S \ {y})
<1>. DEFINE T == {A \in SUBSET S : \A z \in A :
                    SumFunctionOnSet(f, A) = f[z] + SumFunctionOnSet(f, A \ {z})}
<1>0. \A A \in SUBSET S : IsFiniteSet(A) /\ SumFunctionOnSet(f, A) \in Int
  BY FS_Subset, SumIsInteger
<1>1. ASSUME NEW A \in SUBSET S, \A x \in A : A \ {x} \in T
      PROVE  A \in T
  <2>1. SUFFICES ASSUME NEW z \in A
                 PROVE  SumFunctionOnSet(f, A) = f[z] + SumFunctionOnSet(f, A \ {z})
    OBVIOUS
  <2>2. PICK c \in A : SumFunctionOnSet(f, A) = f[c] + SumFunctionOnSet(f, A \ {c})
    BY <1>0, SumTakesOne
  <2>3. CASE c = z
    BY <2>2, <2>3
  <2>4. CASE c # z
    <3>. DEFINE B == (A \ {c}) \ {z}
    <3>1. z \in A \ {c} /\ c \in A \ {z} /\ (A \ {z}) \ {c} = B /\ B \in SUBSET S
      BY <2>4
    <3>2. SumFunctionOnSet(f, A \ {c}) = f[z] + SumFunctionOnSet(f, B)
      <4>1. A \ {c} \in T
        BY <1>1
      <4>. QED  BY <3>1, <4>1
    <3>3. SumFunctionOnSet(f, A \ {z}) = f[c] + SumFunctionOnSet(f, (A \ {z}) \ {c})
      <4>1. A \ {z} \in T
        BY <1>1
      <4>. QED  BY <3>1, <4>1
    <3>4. SumFunctionOnSet(f, A \ {z}) = f[c] + SumFunctionOnSet(f, B)
      BY <3>1, <3>3
    <3>5. SumFunctionOnSet(f, B) \in Int /\ f[c] \in Int /\ f[z] \in Int
      BY <1>0, <3>1
    <3>. HIDE DEF B
    <3>. QED  BY <2>2, <3>2, <3>4, <3>5
  <2>. QED  BY <2>3, <2>4
<1>2. SUBSET S \subseteq T
  <2>. HIDE DEF T
  <2>1. \A A \in SUBSET S : (\A x \in A : A \ {x} \in T) => A \in T
    BY <1>1
  <2>. QED  BY <2>1, SubsetsUpTo
<1>. QED  BY <1>2

\* The sum over two sets that have nothing in common.
LEMMA SumOfBoth ==
    ASSUME NEW f, NEW S, NEW B, IsFiniteSet(S), IsFiniteSet(B), S \cap B = {},
           \A x \in S \cup B : f[x] \in Int
    PROVE  SumFunctionOnSet(f, S \cup B) = SumFunctionOnSet(f, S) + SumFunctionOnSet(f, B)
<1>. DEFINE T == {A \in SUBSET S :
                    SumFunctionOnSet(f, A \cup B) = SumFunctionOnSet(f, A) + SumFunctionOnSet(f, B)}
<1>0. ASSUME NEW A \in SUBSET S
      PROVE  /\ IsFiniteSet(A) /\ IsFiniteSet(A \cup B) /\ SumFunctionOnSet(f, A) \in Int
             /\ SumFunctionOnSet(f, B) \in Int /\ SumFunctionOnSet(f, A \cup B) \in Int
  <2>1. IsFiniteSet(A)
    BY FS_Subset
  <2>2. IsFiniteSet(A \cup B)
    BY <2>1, FS_Union
  <2>. QED  BY <2>1, <2>2, SumIsInteger
<1>1. ASSUME NEW A \in SUBSET S, \A x \in A : A \ {x} \in T
      PROVE  A \in T
  <2>1. CASE A = {}
    <3>1. A \cup B = B /\ SumFunctionOnSet(f, A) = 0
      BY <2>1, SumOfNone
    <3>2. SumFunctionOnSet(f, B) \in Int
      BY <1>0
    <3>3. SumFunctionOnSet(f, A \cup B) = SumFunctionOnSet(f, A) + SumFunctionOnSet(f, B)
      <4>1. SumFunctionOnSet(f, A \cup B) = SumFunctionOnSet(f, B)
        BY <3>1, Zenon
      <4>. QED  BY <3>1, <3>2, <4>1
    <3>. QED  BY <3>3
  <2>2. ASSUME A # {} PROVE A \in T
    <3>1. PICK c : c \in A
      BY <2>2
    <3>2. (A \cup B) \ {c} = (A \ {c}) \cup B
      BY <3>1
    <3>3. SumFunctionOnSet(f, A \cup B) = f[c] + SumFunctionOnSet(f, (A \cup B) \ {c})
      <4>. DEFINE U == A \cup B
      <4>1. c \in U /\ IsFiniteSet(U) /\ \A x \in U : f[x] \in Int
        BY <1>0, <3>1
      <4>. HIDE DEF U
      <4>2. SumFunctionOnSet(f, U) = f[c] + SumFunctionOnSet(f, U \ {c})
        BY <4>1, SumTakesAny
      <4>. QED  BY <4>2 DEF U
    <3>4. SumFunctionOnSet(f, A) = f[c] + SumFunctionOnSet(f, A \ {c})
      BY <1>0, <3>1, SumTakesAny
    <3>5. SumFunctionOnSet(f, (A \ {c}) \cup B) = SumFunctionOnSet(f, A \ {c}) + SumFunctionOnSet(f, B)
      BY <1>1, <3>1
    <3>6. f[c] \in Int /\ SumFunctionOnSet(f, A \ {c}) \in Int /\ SumFunctionOnSet(f, B) \in Int
      BY <1>0, <3>1
    <3>7. SumFunctionOnSet(f, A \cup B) = f[c] + SumFunctionOnSet(f, (A \ {c}) \cup B)
      BY <3>2, <3>3
    <3>8. SumFunctionOnSet(f, A \cup B) = SumFunctionOnSet(f, A) + SumFunctionOnSet(f, B)
      BY <3>4, <3>5, <3>6, <3>7
    <3>. QED  BY <3>8
  <2>. QED  BY <2>1, <2>2
<1>2. SUBSET S \subseteq T
  <2>. HIDE DEF T
  <2>1. \A A \in SUBSET S : (\A x \in A : A \ {x} \in T) => A \in T
    BY <1>1
  <2>. QED  BY <2>1, SubsetsUpTo
<1>3. S \in T
  <2>. HIDE DEF T
  <2>. QED  BY <1>2
<1>. QED  BY <1>3

\* The sum of sums, taken element by element.
LEMMA SumOfTwo ==
    ASSUME NEW f, NEW h, NEW e, NEW S, IsFiniteSet(S),
           \A x \in S : f[x] \in Int /\ h[x] \in Int /\ e[x] = f[x] + h[x]
    PROVE  SumFunctionOnSet(e, S) = SumFunctionOnSet(f, S) + SumFunctionOnSet(h, S)
<1>. DEFINE T == {A \in SUBSET S :
                    SumFunctionOnSet(e, A) = SumFunctionOnSet(f, A) + SumFunctionOnSet(h, A)}
<1>0. ASSUME NEW A \in SUBSET S
      PROVE  IsFiniteSet(A) /\ SumFunctionOnSet(f, A) \in Int /\ SumFunctionOnSet(h, A) \in Int
  <2>1. IsFiniteSet(A)
    BY FS_Subset
  <2>. QED  BY <2>1, SumIsInteger
<1>1. ASSUME NEW A \in SUBSET S, \A x \in A : A \ {x} \in T
      PROVE  A \in T
  <2>1. ASSUME A = {} PROVE A \in T
    <3>1. SumFunctionOnSet(e, A) = 0 /\ SumFunctionOnSet(f, A) = 0 /\ SumFunctionOnSet(h, A) = 0
      BY <2>1, SumOfNone
    <3>. QED  BY <3>1
  <2>2. ASSUME A # {} PROVE A \in T
    <3>1. PICK c \in A : SumFunctionOnSet(e, A) = e[c] + SumFunctionOnSet(e, A \ {c})
      BY <1>0, <2>2, SumTakesOne
    <3>2. SumFunctionOnSet(f, A) = f[c] + SumFunctionOnSet(f, A \ {c})
      BY <1>0, SumTakesAny
    <3>3. SumFunctionOnSet(h, A) = h[c] + SumFunctionOnSet(h, A \ {c})
      BY <1>0, SumTakesAny
    <3>4. SumFunctionOnSet(e, A \ {c}) = SumFunctionOnSet(f, A \ {c}) + SumFunctionOnSet(h, A \ {c})
      BY <1>1
    <3>5. /\ SumFunctionOnSet(f, A \ {c}) \in Int /\ SumFunctionOnSet(h, A \ {c}) \in Int
          /\ f[c] \in Int /\ h[c] \in Int /\ e[c] = f[c] + h[c]
      BY <1>0
    <3>6. SumFunctionOnSet(e, A) = SumFunctionOnSet(f, A) + SumFunctionOnSet(h, A)
      BY <3>1, <3>2, <3>3, <3>4, <3>5
    <3>. QED  BY <3>6
  <2>. QED  BY <2>1, <2>2
<1>2. SUBSET S \subseteq T
  <2>. HIDE DEF T
  <2>1. \A A \in SUBSET S : (\A x \in A : A \ {x} \in T) => A \in T
    BY <1>1
  <2>. QED  BY <2>1, SubsetsUpTo
<1>3. S \in T
  <2>. HIDE DEF T
  <2>. QED  BY <1>2
<1>. QED  BY <1>3

\* What is nowhere less has no smaller sum.
LEMMA SumGrows ==
    ASSUME NEW f, NEW h, NEW S, IsFiniteSet(S),
           \A x \in S : f[x] \in Int /\ h[x] \in Int /\ f[x] <= h[x]
    PROVE  SumFunctionOnSet(f, S) <= SumFunctionOnSet(h, S)
<1>. DEFINE T == {A \in SUBSET S : SumFunctionOnSet(f, A) <= SumFunctionOnSet(h, A)}
<1>0. ASSUME NEW A \in SUBSET S
      PROVE  IsFiniteSet(A) /\ SumFunctionOnSet(f, A) \in Int /\ SumFunctionOnSet(h, A) \in Int
  <2>1. IsFiniteSet(A)
    BY FS_Subset
  <2>. QED  BY <2>1, SumIsInteger
<1>1. ASSUME NEW A \in SUBSET S, \A x \in A : A \ {x} \in T
      PROVE  A \in T
  <2>1. ASSUME A = {} PROVE A \in T
    <3>1. SumFunctionOnSet(f, A) = 0 /\ SumFunctionOnSet(h, A) = 0
      BY <2>1, SumOfNone
    <3>. QED  BY <3>1
  <2>2. ASSUME A # {} PROVE A \in T
    <3>1. PICK c \in A : SumFunctionOnSet(f, A) = f[c] + SumFunctionOnSet(f, A \ {c})
      BY <1>0, <2>2, SumTakesOne
    <3>3. SumFunctionOnSet(h, A) = h[c] + SumFunctionOnSet(h, A \ {c})
      BY <1>0, SumTakesAny
    <3>4. SumFunctionOnSet(f, A \ {c}) <= SumFunctionOnSet(h, A \ {c})
      BY <1>1
    <3>5. /\ SumFunctionOnSet(f, A \ {c}) \in Int /\ SumFunctionOnSet(h, A \ {c}) \in Int
          /\ f[c] \in Int /\ h[c] \in Int /\ f[c] <= h[c]
      BY <1>0
    <3>6. SumFunctionOnSet(f, A) <= SumFunctionOnSet(h, A)
      BY <3>1, <3>3, <3>4, <3>5
    <3>. QED  BY <3>6
  <2>. QED  BY <2>1, <2>2
<1>2. SUBSET S \subseteq T
  <2>. HIDE DEF T
  <2>1. \A A \in SUBSET S : (\A x \in A : A \ {x} \in T) => A \in T
    BY <1>1
  <2>. QED  BY <2>1, SubsetsUpTo
<1>3. S \in T
  <2>. HIDE DEF T
  <2>. QED  BY <1>2
<1>. QED  BY <1>3

\* Two functions that agree on the set have the same sum over it.
LEMMA SumsOfSame ==
    ASSUME NEW f, NEW h, NEW S, IsFiniteSet(S), \A x \in S : f[x] = h[x] /\ f[x] \in Int
    PROVE  SumFunctionOnSet(f, S) = SumFunctionOnSet(h, S)
<1>1. \A x \in S : f[x] \in Int /\ h[x] \in Int /\ f[x] <= h[x] /\ h[x] <= f[x]
  OBVIOUS
<1>2. SumFunctionOnSet(f, S) <= SumFunctionOnSet(h, S)
  BY <1>1, SumGrows
<1>3. SumFunctionOnSet(h, S) <= SumFunctionOnSet(f, S)
  BY <1>1, SumGrows
<1>4. SumFunctionOnSet(f, S) \in Int /\ SumFunctionOnSet(h, S) \in Int
  BY <1>1, SumIsInteger
<1>. QED  BY <1>2, <1>3, <1>4

\* A sum of zeros.
LEMMA SumOfZeros ==
    ASSUME NEW f, NEW S, IsFiniteSet(S), \A x \in S : f[x] = 0
    PROVE  SumFunctionOnSet(f, S) = 0
<1>1. SumFunctionOnSet(f, S) \in Int
  BY SumIsInteger
<1>2. SumFunctionOnSet(f, S) = SumFunctionOnSet(f, S) + SumFunctionOnSet(f, S)
  BY SumOfTwo
<1>. QED  BY <1>1, <1>2

\* No element is more than the sum, if none is negative.
LEMMA SumIsAtLeast ==
    ASSUME NEW f, NEW S, IsFiniteSet(S), \A x \in S : f[x] \in Int /\ f[x] >= 0, NEW y \in S
    PROVE  SumFunctionOnSet(f, S) >= f[y] /\ SumFunctionOnSet(f, S) \in Int
<1>. DEFINE R == S \ {y}
            z == [x \in R |-> 0]
<1>1. SumFunctionOnSet(f, S) = f[y] + SumFunctionOnSet(f, R)
  BY SumTakesAny
<1>2. IsFiniteSet(R) /\ \A x \in R : z[x] = 0 /\ f[x] \in Int /\ f[x] >= 0
  BY FS_Subset
<1>. HIDE DEF R, z
<1>3. SumFunctionOnSet(z, R) = 0
  BY <1>2, SumOfZeros
<1>4. SumFunctionOnSet(z, R) <= SumFunctionOnSet(f, R)
  <2>1. \A x \in R : z[x] \in Int /\ f[x] \in Int /\ z[x] <= f[x]
    BY <1>2
  <2>. QED  BY <1>2, <2>1, SumGrows
<1>5. SumFunctionOnSet(f, R) \in Int
  BY <1>2, SumIsInteger
<1>. QED  BY <1>1, <1>3, <1>4, <1>5

-----------------------------------------------------------------------------
(* The payroll: what is booked becomes records.                            *)

\* The days from a to z have a record of a personal day of so many hours each.
DaysHaveRecords(a, z, hours) ==
    \A d \in DaysOfPeriod : a <= d /\ d <= z =>
        \E r \in Existing :
            records[r] = [day |-> d, hours |-> hours, type |-> "personal", status |-> "clock_out"]

RecordsFit ==
    /\ IsFiniteSet(Existing)
    /\ \A r \in Existing : records[r].type = "personal" => records[r].hours >= 0

BookingFits ==
    booking # NotBooking =>
        /\ booking.of.hours >= 0
        /\ booking.of.from <= booking.at
        /\ IF booking.of.part THEN booking.at = booking.of.from ELSE booking.at <= booking.of.to
        /\ DaysHaveRecords(booking.of.from, booking.at - 1, booking.of.hours)

BookedFits ==
    \A b \in booked : b.complete =>
        DaysHaveRecords(b.of.from, IF b.of.part THEN b.of.from ELSE b.of.to, b.of.hours)

PayrollInv == PayrollTypeOK /\ RecordsFit /\ BookingFits /\ BookedFits

LEMMA InitPayrollInv == PayrollInit => PayrollInv
<1>. SUFFICES ASSUME PayrollInit PROVE PayrollInv
  OBVIOUS
<1>1. Existing = {}
  BY DEF PayrollInit, Existing
<1>2. IsFiniteSet(Existing)
  BY <1>1, FS_EmptySet
<1>. QED
  BY <1>1, <1>2 DEF PayrollInit, PayrollInv, PayrollTypeOK, RecordsFit, BookingFits, BookedFits

\* A record that is added leaves the others.
LEMMA AddInv ==
    ASSUME PayrollTypeOK, RecordsFit, NEW r \in TimeRecords, NEW record \in Record, Add(r, record),
           record.type = "personal" => record.hours >= 0
    PROVE  /\ records' \in [TimeRecords -> Record \cup {NoRecord}]
           /\ RecordsFit'
           /\ records'[r] = record /\ r \in Existing'
           /\ \A a, z, hours : DaysHaveRecords(a, z, hours) => DaysHaveRecords(a, z, hours)'
<1>1. record # NoRecord
  BY DEF Record, NoRecord
<1>2. records' = [records EXCEPT ![r] = record] /\ r \notin Existing
  BY DEF Add
<1>3. records \in [TimeRecords -> Record \cup {NoRecord}]
  BY DEF PayrollTypeOK
<1>4. /\ records' \in [TimeRecords -> Record \cup {NoRecord}]
      /\ records'[r] = record
      /\ \A q \in TimeRecords \ {r} : records'[q] = records[q]
  BY <1>2, <1>3
<1>5. Existing' = Existing \cup {r}
  BY <1>1, <1>2, <1>4 DEF Existing
<1>6. IsFiniteSet(Existing')
  BY <1>5, FS_AddElement DEF RecordsFit
<1>7. \A q \in Existing : q \in Existing' /\ records'[q] = records[q]
  BY <1>2, <1>4, <1>5 DEF Existing
<1>8. \A q \in Existing' : records'[q].type = "personal" => records'[q].hours >= 0
  BY <1>4, <1>5, <1>7 DEF RecordsFit
<1>9. \A a, z, hours : DaysHaveRecords(a, z, hours) => DaysHaveRecords(a, z, hours)'
  BY <1>7 DEF DaysHaveRecords
<1>. QED  BY <1>4, <1>5, <1>6, <1>8, <1>9 DEF RecordsFit

LEMMA PunchInv ==
    ASSUME PayrollInv, NEW r \in TimeRecords, NEW d \in DaysOfPeriod, ClockPunch(r, d)
    PROVE  PayrollInv'
<1>1. PICK record \in Record : Add(r, record) /\ record.type = "regular"
  <2>1. \A h \in PunchHours : [day |-> d, hours |-> h, type |-> "regular", status |-> "clock_out"] \in Record
    BY PayrollAssumption DEF Record, HoursTypes
  <2>2. [day |-> d, hours |-> 0, type |-> "regular", status |-> "open"] \in Record
    BY DEF Record, HoursTypes
  <2>. QED  BY <2>1, <2>2 DEF ClockPunch
<1>2. UNCHANGED <<booking, booked>>
  BY DEF ClockPunch
<1>3. /\ records' \in [TimeRecords -> Record \cup {NoRecord}] /\ RecordsFit'
      /\ \A a, z, hours : DaysHaveRecords(a, z, hours) => DaysHaveRecords(a, z, hours)'
  <2>1. record.type # "personal"
    BY <1>1
  <2>. QED  BY <1>1, <2>1, AddInv DEF PayrollInv
<1>4. PayrollTypeOK'
  BY <1>2, <1>3 DEF PayrollInv, PayrollTypeOK
<1>5. BookingFits'
  BY <1>2, <1>3 DEF PayrollInv, BookingFits
<1>6. BookedFits'
  BY <1>2, <1>3 DEF PayrollInv, BookedFits
<1>. QED  BY <1>3, <1>4, <1>5, <1>6 DEF PayrollInv

LEMMA SubmitInv ==
    ASSUME PayrollInv, NEW from \in DaysOfPeriod, NEW to \in DaysOfPeriod, NEW some \in BOOLEAN,
           NEW hours \in PunchHours \cup {WorkdayHours}, Submit(from, to, some, hours)
    PROVE  PayrollInv'
<1>1. hours \in Int /\ hours >= 0
  BY PayrollAssumption DEF Submit
<1>. DEFINE s == [from |-> from, to |-> to, part |-> some, hours |-> hours]
<1>2. s \in Submission /\ records' = records
  BY <1>1 DEF Submit, Submission
<1>3. RecordsFit' /\ \A a, z, h : DaysHaveRecords(a, z, h) => DaysHaveRecords(a, z, h)'
  BY <1>2 DEF PayrollInv, RecordsFit, DaysHaveRecords, Existing
<1>4. from \in Int /\ to \in Int
  BY PayrollAssumption DEF DaysOfPeriod
<1>5. CASE some \/ from <= to
  <2>1. booking' = [at |-> from, of |-> s] /\ booked' = booked
    BY <1>5 DEF Submit
  <2>2. PayrollTypeOK'
    BY <1>2, <2>1 DEF PayrollInv, PayrollTypeOK
  <2>3. BookedFits'
    BY <1>3, <2>1 DEF PayrollInv, BookedFits
  <2>4. DaysHaveRecords(from, from - 1, hours)'
    BY DEF DaysHaveRecords, DaysOfPeriod
  <2>5. /\ booking'.at = from /\ booking'.of.from = from /\ booking'.of.to = to
        /\ booking'.of.part = some /\ booking'.of.hours = hours
    BY <2>1
  <2>6. BookingFits'
    BY <1>1, <1>4, <1>5, <2>4, <2>5 DEF BookingFits
  <2>. QED  BY <1>3, <2>2, <2>3, <2>6 DEF PayrollInv
<1>6. CASE ~some /\ ~(from <= to)
  <2>1. booking = NotBooking /\ booking' = booking /\ booked' = booked \cup {[of |-> s, complete |-> TRUE]}
    BY <1>6 DEF Submit
  <2>2. PayrollTypeOK'
    <3>1. [of |-> s, complete |-> TRUE] \in [of : Submission, complete : BOOLEAN]
      BY <1>2
    <3>2. booked' \subseteq [of : Submission, complete : BOOLEAN]
      BY <2>1, <3>1 DEF PayrollInv, PayrollTypeOK
    <3>. QED  BY <1>2, <2>1, <3>2 DEF PayrollInv, PayrollTypeOK
  <2>3. BookingFits'
    BY <2>1 DEF BookingFits
  \* No day is from the first to the last.
  <2>4. BookedFits'
    <3>1. SUFFICES ASSUME NEW b \in booked', b.complete
                   PROVE  DaysHaveRecords(b.of.from, IF b.of.part THEN b.of.from ELSE b.of.to, b.of.hours)'
      BY DEF BookedFits
    <3>2. CASE b \in booked
      BY <1>3, <3>1, <3>2 DEF PayrollInv, BookedFits
    <3>3. CASE b = [of |-> s, complete |-> TRUE]
      <4>1. b.of.from = from /\ b.of.to = to /\ b.of.part = some
        BY <3>3
      <4>2. \A d \in DaysOfPeriod : ~(from <= d /\ d <= to)
        BY <1>4, <1>6 DEF DaysOfPeriod
      <4>. QED  BY <1>6, <4>1, <4>2 DEF DaysHaveRecords
    <3>. QED  BY <2>1, <3>2, <3>3
  <2>. QED  BY <1>3, <2>2, <2>3, <2>4 DEF PayrollInv
<1>. QED  BY <1>5, <1>6

LEMMA BookInv ==
    ASSUME PayrollInv, NEW r \in TimeRecords, BookDay(r)
    PROVE  PayrollInv'
<1>. DEFINE s == booking.of
            at == booking.at
            record == [day |-> at, hours |-> s.hours, type |-> "personal", status |-> "clock_out"]
            last == IF s.part THEN s.from ELSE s.to
<1>1. /\ booking # NotBooking /\ Add(r, record)
      /\ \/ IsLastDay(at, s) /\ booking' = NotBooking /\ booked' = booked \cup {[of |-> s, complete |-> TRUE]}
         \/ ~IsLastDay(at, s) /\ booking' = [booking EXCEPT !.at = @ + 1] /\ booked' = booked
  BY DEF BookDay
<1>2. /\ booking \in [at : DaysOfPeriod, of : Submission]
      /\ at \in DaysOfPeriod /\ at \in Int /\ at <= LastDay /\ LastDay \in Int
      /\ s \in Submission /\ s.hours \in Int /\ s.from \in Int /\ s.to \in Int /\ s.to <= LastDay
      /\ s.part \in BOOLEAN
  BY <1>1, PayrollAssumption DEF PayrollInv, PayrollTypeOK, Submission, DaysOfPeriod
<1>3. /\ s.hours >= 0 /\ s.from <= at
      /\ IF s.part THEN at = s.from ELSE at <= s.to
      /\ DaysHaveRecords(s.from, at - 1, s.hours)
  BY <1>1 DEF PayrollInv, BookingFits
<1>4. record \in Record /\ record.type = "personal" /\ record.hours >= 0
  BY <1>2, <1>3 DEF Record, HoursTypes
<1>5. /\ records' \in [TimeRecords -> Record \cup {NoRecord}] /\ RecordsFit'
      /\ records'[r] = record /\ r \in Existing'
      /\ \A a, z, hours : DaysHaveRecords(a, z, hours) => DaysHaveRecords(a, z, hours)'
  <2>. DEFINE new == record
  <2>1. new \in Record /\ Add(r, new) /\ (new.type = "personal" => new.hours >= 0)
    BY <1>1, <1>4
  <2>2. PayrollTypeOK /\ RecordsFit
    BY DEF PayrollInv
  <2>. HIDE DEF new
  <2>3. /\ records' \in [TimeRecords -> Record \cup {NoRecord}] /\ RecordsFit'
        /\ records'[r] = new /\ r \in Existing'
        /\ \A a, z, hours : DaysHaveRecords(a, z, hours) => DaysHaveRecords(a, z, hours)'
    BY <2>1, <2>2, AddInv
  <2>. QED  BY <2>3 DEF new
<1>6. PICK o \in Submission : o = s
  BY <1>2
<1>7. PICK now \in DaysOfPeriod : now = at
  BY <1>2
<1>8. DaysHaveRecords(o.from, now, o.hours)'
  <2>1. DaysHaveRecords(o.from, now - 1, o.hours)'
    BY <1>3, <1>5, <1>6, <1>7
  <2>2. records'[r] = [day |-> now, hours |-> o.hours, type |-> "personal", status |-> "clock_out"]
    BY <1>5, <1>6, <1>7
  <2>3. \A d \in DaysOfPeriod : d <= now => d <= now - 1 \/ d = now
    BY <1>2, <1>7 DEF DaysOfPeriod
  <2>. QED  BY <1>5, <2>1, <2>2, <2>3 DEF DaysHaveRecords
<1>. HIDE DEF record
<1>9. CASE IsLastDay(at, s)
  <2>1. booking' = NotBooking /\ booked' = booked \cup {[of |-> o, complete |-> TRUE]}
    BY <1>1, <1>6, <1>9
  <2>2. now = IF o.part THEN o.from ELSE o.to
    BY <1>2, <1>3, <1>6, <1>7, <1>9 DEF IsLastDay
  <2>3. PayrollTypeOK'
    <3>1. [of |-> o, complete |-> TRUE] \in [of : Submission, complete : BOOLEAN]
      OBVIOUS
    <3>2. booked \subseteq [of : Submission, complete : BOOLEAN]
      BY DEF PayrollInv, PayrollTypeOK
    <3>3. booked' \subseteq [of : Submission, complete : BOOLEAN]
      BY <2>1, <3>1, <3>2
    <3>. QED  BY <1>5, <2>1, <3>3 DEF PayrollTypeOK
  <2>4. BookingFits'
    BY <2>1 DEF BookingFits
  <2>5. BookedFits'
    <3>1. SUFFICES ASSUME NEW b \in booked', b.complete
                   PROVE  DaysHaveRecords(b.of.from, IF b.of.part THEN b.of.from ELSE b.of.to, b.of.hours)'
      BY DEF BookedFits
    <3>2. CASE b \in booked
      BY <1>5, <3>1, <3>2 DEF PayrollInv, BookedFits
    <3>3. CASE b = [of |-> o, complete |-> TRUE]
      <4>1. b.of = o
        BY <3>3
      <4>. QED  BY <1>8, <2>2, <4>1
    <3>. QED  BY <2>1, <3>2, <3>3
  <2>. QED  BY <1>5, <2>3, <2>4, <2>5 DEF PayrollInv
<1>10. CASE ~IsLastDay(at, s)
  <2>1. booking' = [booking EXCEPT !.at = @ + 1] /\ booked' = booked
    BY <1>1, <1>10
  <2>2. ~o.part /\ now + 1 <= o.to /\ now + 1 \in DaysOfPeriod /\ (now + 1) - 1 = now
        /\ o.from <= now + 1 /\ o.hours >= 0
    BY <1>2, <1>3, <1>6, <1>7, <1>10, PayrollAssumption DEF IsLastDay, DaysOfPeriod
  <2>3. booking' = [at |-> now + 1, of |-> o]
    BY <1>2, <1>6, <1>7, <2>1
  <2>4. PayrollTypeOK'
    <3>1. booked' \subseteq [of : Submission, complete : BOOLEAN]
      BY <2>1 DEF PayrollInv, PayrollTypeOK
    <3>2. booking' \in [at : DaysOfPeriod, of : Submission]
      BY <2>2, <2>3
    <3>. QED  BY <1>5, <3>1, <3>2 DEF PayrollTypeOK
  <2>5. BookingFits'
    <3>1. booking'.at = now + 1 /\ booking'.of = o
      BY <2>3
    <3>2. DaysHaveRecords(o.from, (now + 1) - 1, o.hours)'
      BY <1>8, <2>2
    <3>. QED  BY <2>2, <3>1, <3>2 DEF BookingFits
  <2>6. BookedFits'
    BY <1>5, <2>1 DEF PayrollInv, BookedFits
  <2>. QED  BY <1>5, <2>4, <2>5, <2>6 DEF PayrollInv
<1>. QED  BY <1>9, <1>10

LEMMA NextPayrollInv == PayrollInv /\ [PayrollNext]_payrollVars => PayrollInv'
<1>. SUFFICES ASSUME PayrollInv, [PayrollNext]_payrollVars PROVE PayrollInv'
  OBVIOUS
<1>1. ASSUME BookingFails PROVE PayrollInv'
  <2>1. /\ booking # NotBooking /\ booking' = NotBooking /\ records' = records
        /\ booked' = booked \cup {[of |-> booking.of, complete |-> FALSE]}
    BY <1>1 DEF BookingFails
  <2>2. booking.of \in Submission
    BY <2>1 DEF PayrollInv, PayrollTypeOK
  <2>3. PayrollTypeOK'
    <3>1. [of |-> booking.of, complete |-> FALSE] \in [of : Submission, complete : BOOLEAN]
      BY <2>2
    <3>2. /\ booked \subseteq [of : Submission, complete : BOOLEAN]
          /\ records \in [TimeRecords -> Record \cup {NoRecord}]
      BY DEF PayrollInv, PayrollTypeOK
    <3>3. booked' \subseteq [of : Submission, complete : BOOLEAN]
      BY <2>1, <3>1, <3>2
    <3>. QED  BY <2>1, <3>2, <3>3 DEF PayrollTypeOK
  <2>4. BookingFits' /\ RecordsFit'
    BY <2>1 DEF PayrollInv, BookingFits, RecordsFit, Existing
  <2>5. BookedFits'
    <3>1. \A a, z, hours : DaysHaveRecords(a, z, hours) => DaysHaveRecords(a, z, hours)'
      BY <2>1 DEF DaysHaveRecords, Existing
    <3>2. \A b \in booked' : b.complete => b \in booked
      BY <2>1
    <3>. QED  BY <3>1, <3>2 DEF PayrollInv, BookedFits
  <2>. QED  BY <2>3, <2>4, <2>5 DEF PayrollInv
<1>2. CASE UNCHANGED payrollVars
  BY <1>2 DEF payrollVars, PayrollInv, PayrollTypeOK, RecordsFit, BookingFits, BookedFits, DaysHaveRecords, Existing
<1>. QED  BY <1>1, <1>2, PunchInv, SubmitInv, BookInv DEF PayrollNext

-----------------------------------------------------------------------------
(* What the report adds up.                                                *)

hoursOf == [r \in Existing |-> records[r].hours]

LEMMA TotalIsSum ==
    ASSUME PayrollTypeOK, RecordsFit, NEW rs \in SUBSET Existing
    PROVE  /\ IsFiniteSet(rs) /\ Total(rs) = SumFunctionOnSet(hoursOf, rs)
           /\ \A r \in rs : hoursOf[r] = records[r].hours /\ hoursOf[r] \in Int
           /\ Total(rs) \in Int
<1>. DEFINE h == [r \in rs |-> records[r].hours]
<1>1. IsFiniteSet(rs)
  BY FS_Subset DEF RecordsFit
<1>2. \A r \in rs : h[r] = records[r].hours /\ hoursOf[r] = records[r].hours /\ records[r].hours \in Int
  <2>1. ASSUME NEW r \in rs PROVE records[r] \in Record
    BY DEF PayrollTypeOK, Existing
  <2>2. ASSUME NEW r \in rs PROVE h[r] = records[r].hours /\ hoursOf[r] = records[r].hours
    BY DEF hoursOf
  <2>. QED  BY <2>1, <2>2 DEF Record
<1>3. Total(rs) = SumFunctionOnSet(h, rs)
  BY DEF Total, SumFunction
<1>. HIDE DEF h
<1>4. SumFunctionOnSet(h, rs) = SumFunctionOnSet(hoursOf, rs)
  BY <1>1, <1>2, SumsOfSame
<1>5. SumFunctionOnSet(hoursOf, rs) \in Int
  BY <1>1, <1>2, SumIsInteger
<1>. QED  BY <1>1, <1>2, <1>3, <1>4, <1>5

\* Records of two sets that have none in common.
LEMMA TotalOfBoth ==
    ASSUME PayrollTypeOK, RecordsFit, NEW P \in SUBSET Existing, NEW Q \in SUBSET Existing, P \cap Q = {}
    PROVE  Total(P \cup Q) = Total(P) + Total(Q)
<1>1. P \cup Q \in SUBSET Existing
  OBVIOUS
<1>2. Total(P \cup Q) = SumFunctionOnSet(hoursOf, P \cup Q) /\ Total(P) = SumFunctionOnSet(hoursOf, P)
      /\ Total(Q) = SumFunctionOnSet(hoursOf, Q)
  BY <1>1, TotalIsSum
<1>3. IsFiniteSet(P) /\ IsFiniteSet(Q) /\ \A r \in P \cup Q : hoursOf[r] \in Int
  BY <1>1, TotalIsSum
<1>4. SumFunctionOnSet(hoursOf, P \cup Q) = SumFunctionOnSet(hoursOf, P) + SumFunctionOnSet(hoursOf, Q)
  BY <1>3, SumOfBoth
<1>. QED  BY <1>2, <1>4

LEMMA TotalOfNone == Total({}) = 0
<1>. DEFINE h == [r \in {} |-> records[r].hours]
<1>1. Total({}) = SumFunctionOnSet(h, {})
  BY DEF Total, SumFunction
<1>. QED  BY <1>1, SumOfNone

LEMMA TotalNotNegative ==
    ASSUME PayrollTypeOK, RecordsFit, NEW P \in SUBSET Existing,
           \A r \in P : records[r].hours >= 0
    PROVE  Total(P) >= 0 /\ \A r \in P : Total(P) >= records[r].hours
<1>1. IsFiniteSet(P) /\ Total(P) = SumFunctionOnSet(hoursOf, P)
      /\ \A r \in P : hoursOf[r] = records[r].hours /\ hoursOf[r] \in Int
  BY TotalIsSum
<1>2. \A r \in P : Total(P) >= records[r].hours /\ Total(P) \in Int
  <2>1. ASSUME NEW r \in P
        PROVE  SumFunctionOnSet(hoursOf, P) >= hoursOf[r] /\ SumFunctionOnSet(hoursOf, P) \in Int
    BY <1>1, SumIsAtLeast
  <2>. QED  BY <1>1, <2>1
<1>3. CASE P = {}
  BY <1>3, TotalOfNone
<1>4. CASE P # {}
  <2>1. PICK r : r \in P
    BY <1>4
  <2>2. records[r].hours \in Int /\ records[r].hours >= 0
    BY <1>1, <2>1
  <2>. QED  BY <1>2, <2>1, <2>2
<1>. QED  BY <1>2, <1>3, <1>4

\* The days of a complete submission are reported.
LEMMA BookedAreReported == PayrollInv => BookedDaysAreReported
<1>. SUFFICES ASSUME PayrollInv, NEW b \in booked, b.complete,
                     NEW d \in b.of.from..(IF b.of.part THEN b.of.from ELSE b.of.to)
              PROVE  Hours(d, d, "personal") >= b.of.hours
  BY DEF BookedDaysAreReported
<1>1. b.of \in Submission
  BY DEF PayrollInv, PayrollTypeOK
<1>. DEFINE z == IF b.of.part THEN b.of.from ELSE b.of.to
            P == Counted(d, d, "personal")
<1>2. b.of.from \in DaysOfPeriod /\ z \in DaysOfPeriod
  BY <1>1 DEF Submission
<1>3. d \in DaysOfPeriod /\ d \in Int /\ b.of.from <= d /\ d <= z
  BY <1>2, PayrollAssumption DEF DaysOfPeriod
<1>4. DaysHaveRecords(b.of.from, z, b.of.hours)
  BY DEF PayrollInv, BookedFits
<1>. HIDE DEF z
<1>5. PICK r \in Existing :
        records[r] = [day |-> d, hours |-> b.of.hours, type |-> "personal", status |-> "clock_out"]
  BY <1>3, <1>4 DEF DaysHaveRecords
<1>6. r \in P /\ records[r].hours = b.of.hours
  BY <1>3, <1>5 DEF Counted, InPeriod
<1>7. P \in SUBSET Existing /\ \A q \in P : records[q].hours >= 0
  BY DEF Counted, InPeriod, PayrollInv, RecordsFit
<1>8. Hours(d, d, "personal") = Total(P)
  BY DEF Hours
<1>. HIDE DEF P
<1>9. PayrollTypeOK /\ RecordsFit
  BY DEF PayrollInv
<1>. QED  BY <1>6, <1>7, <1>8, <1>9, TotalNotNegative

-----------------------------------------------------------------------------
(* Periods that follow each other.                                         *)

LEMMA CountedOfBoth ==
    ASSUME PayrollTypeOK, NEW d \in 1..LastDay, NEW type
    PROVE  /\ Counted(0, LastDay, type) = Counted(0, d - 1, type) \cup Counted(d, LastDay, type)
           /\ Counted(0, d - 1, type) \cap Counted(d, LastDay, type) = {}
           /\ InPeriod(0, LastDay) = InPeriod(0, d - 1) \cup InPeriod(d, LastDay)
           /\ \A r \in Counted(0, d - 1, type) : records[r].day \in Int /\ records[r].day < d
           /\ \A r \in Counted(d, LastDay, type) : records[r].day \in Int /\ d <= records[r].day
           /\ Counted(0, LastDay, type) \in SUBSET Existing
<1>1. d \in Int /\ LastDay \in Int /\ 1 <= d /\ d <= LastDay
  BY PayrollAssumption
<1>2. ASSUME NEW r \in Existing
      PROVE  records[r].day \in Int /\ 0 <= records[r].day /\ records[r].day <= LastDay
  <2>1. records[r] \in Record
    BY DEF PayrollTypeOK, Existing
  <2>. QED  BY <1>1, <2>1 DEF Record, DaysOfPeriod
<1>3. ASSUME NEW r \in Existing
      PROVE  /\ records[r].day \in 0..LastDay
             /\ records[r].day \in 0..(d - 1) <=> records[r].day < d
             /\ records[r].day \in d..LastDay <=> d <= records[r].day
             /\ records[r].day < d <=> ~(d <= records[r].day)
  BY <1>1, <1>2
<1>4. InPeriod(0, LastDay) = Existing
  BY <1>3 DEF InPeriod
<1>5. InPeriod(0, d - 1) = {r \in Existing : records[r].day < d}
  BY <1>3 DEF InPeriod
<1>6. InPeriod(d, LastDay) = {r \in Existing : d <= records[r].day}
  BY <1>3 DEF InPeriod
<1>. QED  BY <1>2, <1>3, <1>4, <1>5, <1>6 DEF Counted

\* Weeks begin on a Monday.
LEMMA MondaysCut ==
    ASSUME NEW d \in Int, (FirstWeekday + d) % 7 = 1, NEW x \in Int, NEW y \in Int, x < d, d <= y
    PROVE  Monday(x) # Monday(y)
<1>1. FirstWeekday \in Int
  BY PayrollAssumption
<1>2. Monday(x) <= x /\ Monday(x) \in Int
  BY <1>1 DEF Monday
<1>3. Monday(y) >= d /\ Monday(y) \in Int
  <2>1. (FirstWeekday + d + 6) % 7 = 0
    BY <1>1
  <2>2. (FirstWeekday + y + 6) % 7 <= y - d /\ (FirstWeekday + y + 6) % 7 \in Int
    BY <1>1, <2>1
  <2>. QED  BY <2>2 DEF Monday
<1>. QED  BY <1>2, <1>3

LEMMA MondayIsInteger ==
    ASSUME NEW x \in Int
    PROVE  Monday(x) \in Int
BY PayrollAssumption DEF Monday

-----------------------------------------------------------------------------
(* Overtime.                                                               *)

beyondThreshold(h) == IF h > OvertimeThreshold THEN h - OvertimeThreshold ELSE 0
ofWeek(P, w) == {r \in P : Monday(records[r].day) = w}
weeksOf(P) == {Monday(records[r].day) : r \in P}
overtimeIn(P, W) == [w \in W |-> beyondThreshold(Total(ofWeek(P, w)))]

LEMMA OvertimeIsSum ==
    ASSUME NEW from, NEW to
    PROVE  LET P == Counted(from, to, "regular")
           IN  Overtime(from, to) = SumFunctionOnSet(overtimeIn(P, weeksOf(P)), weeksOf(P))
BY DEF Overtime, SumFunction, overtimeIn, weeksOf, ofWeek, beyondThreshold

LEMMA WeeksAreFinite ==
    ASSUME PayrollTypeOK, RecordsFit, NEW P \in SUBSET Existing
    PROVE  IsFiniteSet(weeksOf(P))
<1>1. IsFiniteSet(P)
  BY TotalIsSum
<1>2. IsFiniteSet({Monday(records[r].day) : r \in P})
  <2>. DEFINE m == [r \in P |-> Monday(records[r].day)]
              M == weeksOf(P)
  <2>1. m \in Surjection(P, M)
    BY DEF Surjection, weeksOf
  <2>. HIDE DEF m, M
  <2>2. IsFiniteSet(M)
    BY <1>1, <2>1, FS_Surjection
  <2>. QED  BY <2>2 DEF M, weeksOf
<1>. QED  BY <1>2 DEF weeksOf

LEMMA BeyondThreshold ==
    ASSUME NEW h \in Int
    PROVE  beyondThreshold(h) \in Int /\ beyondThreshold(h) >= 0 /\ beyondThreshold(0) = 0
BY PayrollAssumption DEF beyondThreshold

LEMMA OvertimeInWeek ==
    ASSUME PayrollTypeOK, RecordsFit, NEW P \in SUBSET Existing, NEW W, NEW w \in W
    PROVE  /\ overtimeIn(P, W)[w] = beyondThreshold(Total(ofWeek(P, w)))
           /\ overtimeIn(P, W)[w] \in Int /\ overtimeIn(P, W)[w] >= 0
           /\ w \notin weeksOf(P) => ofWeek(P, w) = {} /\ overtimeIn(P, W)[w] = 0
<1>1. overtimeIn(P, W)[w] = beyondThreshold(Total(ofWeek(P, w)))
  BY DEF overtimeIn
<1>2. ofWeek(P, w) \in SUBSET Existing
  BY DEF ofWeek
<1>3. Total(ofWeek(P, w)) \in Int
  BY <1>2, TotalIsSum
<1>4. ASSUME w \notin weeksOf(P) PROVE ofWeek(P, w) = {} /\ overtimeIn(P, W)[w] = 0
  <2>1. ofWeek(P, w) = {}
    BY <1>4 DEF ofWeek, weeksOf
  <2>2. Total(ofWeek(P, w)) = 0
    BY <2>1, TotalOfNone
  <2>3. beyondThreshold(Total(ofWeek(P, w))) = 0
    BY <1>3, <2>2, BeyondThreshold
  <2>. QED  BY <1>1, <2>1, <2>3
<1>. QED  BY <1>1, <1>3, <1>4, BeyondThreshold

\* Weeks without records add nothing.
LEMMA OvertimeOverMore ==
    ASSUME PayrollTypeOK, RecordsFit, NEW P \in SUBSET Existing, NEW W, IsFiniteSet(W), weeksOf(P) \subseteq W
    PROVE  SumFunctionOnSet(overtimeIn(P, weeksOf(P)), weeksOf(P)) = SumFunctionOnSet(overtimeIn(P, W), W)
<1>. DEFINE V == weeksOf(P)
            R == W \ V
            f == overtimeIn(P, W)
            g == overtimeIn(P, V)
<1>1. \A w \in W : f[w] \in Int /\ (w \in V => g[w] = f[w]) /\ (w \in R => f[w] = 0)
  BY OvertimeInWeek
<1>2. IsFiniteSet(V) /\ IsFiniteSet(R) /\ W = V \cup R /\ V \cap R = {}
  BY FS_Subset
<1>. HIDE DEF V, R, f, g
<1>3. SumFunctionOnSet(f, V \cup R) = SumFunctionOnSet(f, V) + SumFunctionOnSet(f, R)
  BY <1>1, <1>2, SumOfBoth
<1>4. SumFunctionOnSet(f, R) = 0
  BY <1>1, <1>2, SumOfZeros
<1>5. SumFunctionOnSet(f, V) = SumFunctionOnSet(g, V)
  BY <1>1, <1>2, SumsOfSame
<1>6. SumFunctionOnSet(f, V) \in Int
  BY <1>1, <1>2, SumIsInteger
<1>7. SumFunctionOnSet(f, W) = SumFunctionOnSet(f, V \cup R)
  BY <1>2
<1>8. SumFunctionOnSet(f, W) = SumFunctionOnSet(g, V)
  BY <1>3, <1>4, <1>5, <1>6, <1>7
<1>. QED  BY <1>8 DEF V, f, g

\* The overtime of the two parts against that of the whole: the same where no
\* week is in both, and no more where no hours are negative.
LEMMA OvertimeOfBoth ==
    ASSUME PayrollTypeOK, RecordsFit, NEW P \in SUBSET Existing, NEW Q \in SUBSET Existing, P \cap Q = {}
    PROVE  LET over(S) == SumFunctionOnSet(overtimeIn(S, weeksOf(S)), weeksOf(S))
           IN  /\ weeksOf(P) \cap weeksOf(Q) = {} => over(P \cup Q) = over(P) + over(Q)
               /\ (\A r \in P \cup Q : records[r].hours >= 0) => over(P \cup Q) >= over(P) + over(Q)
<1>. DEFINE S == P \cup Q
            W == weeksOf(S)
            f == overtimeIn(P, W)
            g == overtimeIn(Q, W)
            e == overtimeIn(S, W)
            b == [w \in W |-> f[w] + g[w]]
<1>1. S \in SUBSET Existing /\ IsFiniteSet(W) /\ weeksOf(P) \subseteq W /\ weeksOf(Q) \subseteq W
  <2>1. S \in SUBSET Existing
    OBVIOUS
  <2>. QED  BY <2>1, WeeksAreFinite DEF weeksOf
<1>2. /\ SumFunctionOnSet(overtimeIn(P, weeksOf(P)), weeksOf(P)) = SumFunctionOnSet(f, W)
      /\ SumFunctionOnSet(overtimeIn(Q, weeksOf(Q)), weeksOf(Q)) = SumFunctionOnSet(g, W)
      /\ SumFunctionOnSet(overtimeIn(S, weeksOf(S)), weeksOf(S)) = SumFunctionOnSet(e, W)
  <2>. HIDE DEF W
  <2>. QED  BY <1>1, OvertimeOverMore DEF W
<1>3. ASSUME NEW w \in W
      PROVE  /\ f[w] \in Int /\ g[w] \in Int /\ e[w] \in Int /\ b[w] = f[w] + g[w]
             /\ weeksOf(P) \cap weeksOf(Q) = {} => e[w] = b[w]
             /\ (\A r \in P \cup Q : records[r].hours >= 0) => b[w] <= e[w]
  <2>. DEFINE p == ofWeek(P, w)
              q == ofWeek(Q, w)
  <2>1. /\ f[w] = beyondThreshold(Total(p)) /\ g[w] = beyondThreshold(Total(q))
        /\ e[w] = beyondThreshold(Total(ofWeek(S, w)))
        /\ f[w] \in Int /\ g[w] \in Int /\ e[w] \in Int
    BY <1>1, OvertimeInWeek
  <2>2. b[w] = f[w] + g[w]
    OBVIOUS
  <2>3. ofWeek(S, w) = p \cup q /\ p \in SUBSET Existing /\ q \in SUBSET Existing /\ p \cap q = {}
    BY DEF ofWeek
  <2>4. p \subseteq P /\ q \subseteq Q
    BY DEF ofWeek
  <2>5. weeksOf(P) \cap weeksOf(Q) = {} => p = {} \/ q = {}
    BY DEF ofWeek, weeksOf
  <2>. HIDE DEF p, q, f, g, e, b, W, S
  <2>6. Total(p \cup q) = Total(p) + Total(q)
    BY <2>3, TotalOfBoth
  <2>7. Total(ofWeek(S, w)) = Total(p) + Total(q)
    BY <2>3, <2>6
  <2>8. Total(p) \in Int /\ Total(q) \in Int
    BY <2>3, TotalIsSum
  <2>9. p = {} => Total(p) = 0
    BY TotalOfNone
  <2>10. q = {} => Total(q) = 0
    BY TotalOfNone
  <2>. DEFINE hp == Total(p)
              hq == Total(q)
  <2>11. /\ f[w] = beyondThreshold(hp) /\ g[w] = beyondThreshold(hq) /\ e[w] = beyondThreshold(hp + hq)
         /\ hp \in Int /\ hq \in Int
    BY <2>1, <2>7, <2>8
  <2>12. OvertimeThreshold \in Int /\ OvertimeThreshold >= 0
    BY PayrollAssumption
  <2>13. ASSUME weeksOf(P) \cap weeksOf(Q) = {} PROVE e[w] = b[w]
    <3>1. hp = 0 \/ hq = 0
      BY <2>5, <2>9, <2>10, <2>13
    <3>. HIDE DEF hp, hq
    <3>. QED  BY <2>2, <2>11, <2>12, <3>1 DEF beyondThreshold
  <2>14. ASSUME \A r \in P \cup Q : records[r].hours >= 0 PROVE b[w] <= e[w]
    <3>1. hp >= 0 /\ hq >= 0
      BY <2>3, <2>4, <2>14, TotalNotNegative
    <3>. HIDE DEF hp, hq
    <3>. QED  BY <2>2, <2>11, <2>12, <3>1 DEF beyondThreshold
  <2>. QED  BY <2>1, <2>2, <2>13, <2>14
<1>. HIDE DEF f, g, e, b, W
<1>4. SumFunctionOnSet(b, W) = SumFunctionOnSet(f, W) + SumFunctionOnSet(g, W)
  <2>1. \A w \in W : f[w] \in Int /\ g[w] \in Int /\ b[w] = f[w] + g[w]
    BY <1>3
  <2>. QED  BY <1>1, <2>1, SumOfTwo
<1>5. ASSUME weeksOf(P) \cap weeksOf(Q) = {}
      PROVE  SumFunctionOnSet(e, W) = SumFunctionOnSet(b, W)
  <2>1. \A w \in W : e[w] = b[w] /\ e[w] \in Int
    BY <1>3, <1>5
  <2>. QED  BY <1>1, <2>1, SumsOfSame
<1>6. ASSUME \A r \in P \cup Q : records[r].hours >= 0
      PROVE  SumFunctionOnSet(b, W) <= SumFunctionOnSet(e, W)
  <2>1. \A w \in W : b[w] \in Int /\ e[w] \in Int /\ b[w] <= e[w]
    BY <1>3, <1>6
  <2>. QED  BY <1>1, <2>1, SumGrows
<1>7. SumFunctionOnSet(b, W) \in Int /\ SumFunctionOnSet(e, W) \in Int
  <2>1. \A w \in W : b[w] \in Int /\ e[w] \in Int
    BY <1>3
  <2>. QED  BY <1>1, <2>1, SumIsInteger
<1>8. SumFunctionOnSet(b, W) <= SumFunctionOnSet(e, W) <=> SumFunctionOnSet(e, W) >= SumFunctionOnSet(b, W)
  BY <1>7
<1>. QED  BY <1>2, <1>4, <1>5, <1>6, <1>8

LEMMA ReportsAlwaysAddUp == PayrollTypeOK /\ RecordsFit => ReportsAddUp
<1>. SUFFICES ASSUME PayrollTypeOK, RecordsFit, NEW d \in 1..LastDay
              PROVE
        /\ \A type \in HoursTypes : Hours(0, LastDay, type) = Hours(0, d - 1, type) + Hours(d, LastDay, type)
        /\ Unresolved(0, LastDay) <=> Unresolved(0, d - 1) \/ Unresolved(d, LastDay)
        /\ (FirstWeekday + d) % 7 = 1 =>
              Overtime(0, LastDay) = Overtime(0, d - 1) + Overtime(d, LastDay)
        /\ (\A r \in Existing : records[r].hours >= 0) =>
              Overtime(0, LastDay) >= Overtime(0, d - 1) + Overtime(d, LastDay)
  BY DEF ReportsAddUp
<1>1. ASSUME NEW type \in HoursTypes
      PROVE  Hours(0, LastDay, type) = Hours(0, d - 1, type) + Hours(d, LastDay, type)
  <2>. DEFINE P == Counted(0, d - 1, type)
              Q == Counted(d, LastDay, type)
  <2>1. Counted(0, LastDay, type) = P \cup Q /\ P \cap Q = {} /\ P \cup Q \subseteq Existing
    BY CountedOfBoth
  <2>2. Hours(0, LastDay, type) = Total(P \cup Q) /\ Hours(0, d - 1, type) = Total(P)
        /\ Hours(d, LastDay, type) = Total(Q)
    BY <2>1 DEF Hours
  <2>3. P \in SUBSET Existing /\ Q \in SUBSET Existing
    BY <2>1
  <2>. HIDE DEF P, Q
  <2>4. Total(P \cup Q) = Total(P) + Total(Q)
    BY <2>1, <2>3, TotalOfBoth
  <2>. QED  BY <2>2, <2>4
<1>2. Unresolved(0, LastDay) <=> Unresolved(0, d - 1) \/ Unresolved(d, LastDay)
  <2>1. InPeriod(0, LastDay) = InPeriod(0, d - 1) \cup InPeriod(d, LastDay)
    BY CountedOfBoth
  <2>. QED  BY <2>1 DEF Unresolved
<1>. DEFINE P == Counted(0, d - 1, "regular")
            Q == Counted(d, LastDay, "regular")
            over(S) == SumFunctionOnSet(overtimeIn(S, weeksOf(S)), weeksOf(S))
<1>3. Counted(0, LastDay, "regular") = P \cup Q /\ P \cap Q = {} /\ P \cup Q \subseteq Existing
  BY CountedOfBoth
<1>4. Overtime(0, d - 1) = over(P) /\ Overtime(d, LastDay) = over(Q) /\ Overtime(0, LastDay) = over(P \cup Q)
  <2>1. Overtime(0, LastDay) = over(Counted(0, LastDay, "regular"))
    BY OvertimeIsSum
  <2>. QED  BY <1>3, <2>1, OvertimeIsSum
<1>5. ASSUME (FirstWeekday + d) % 7 = 1
      PROVE  weeksOf(P) \cap weeksOf(Q) = {}
  <2>1. d \in Int
    BY PayrollAssumption
  <2>2. ASSUME NEW r \in P, NEW q \in Q
        PROVE  Monday(records[r].day) # Monday(records[q].day)
    <3>1. records[r].day \in Int /\ records[r].day < d /\ records[q].day \in Int /\ d <= records[q].day
      BY CountedOfBoth
    <3>. QED  BY <1>5, <2>1, <3>1, MondaysCut
  <2>. HIDE DEF P, Q
  <2>. QED  BY <2>2 DEF weeksOf
<1>6. P \in SUBSET Existing /\ Q \in SUBSET Existing
  BY <1>3
<1>. HIDE DEF P, Q
<1>7. /\ weeksOf(P) \cap weeksOf(Q) = {} => over(P \cup Q) = over(P) + over(Q)
      /\ (\A r \in P \cup Q : records[r].hours >= 0) => over(P \cup Q) >= over(P) + over(Q)
  BY <1>3, <1>6, OvertimeOfBoth
<1>. HIDE DEF over
<1>. QED  BY <1>1, <1>2, <1>3, <1>4, <1>5, <1>7

\* For any punches, submissions and failures between two records: the report of
\* a period is the sum of the reports of its parts, but for the overtime of a
\* week that is cut, and has every day that was booked.
THEOREM EveryHourIsAlwaysCounted == PayrollSpec => [](PayrollTypeOK /\ EveryHourIsCounted)
<1>1. PayrollInv => PayrollTypeOK /\ EveryHourIsCounted
  BY ReportsAlwaysAddUp, BookedAreReported DEF PayrollInv, EveryHourIsCounted
<1>. QED  BY <1>1, InitPayrollInv, NextPayrollInv, PTL DEF PayrollSpec

-----------------------------------------------------------------------------
(* The five together.                                                      *)

\* They share no state: a behaviour of the instances that are checked together
\* is one of each of them, so that what is proved of a part holds there too.
THEOREM PartsDoNotInterfere ==
    MCSpec => SyncSpec /\ PayrollSpec /\ RosterSpec /\ TenantSpec /\ SeedSpec
<1>1. MCInit => SyncInit /\ PayrollInit /\ RosterInit /\ TenantInit /\ SeedInit
  BY DEF MCInit
<1>2. [MCNext]_allVars =>
        /\ [SyncNext]_syncVars /\ [PayrollNext]_payrollVars /\ [RosterNext]_rosterVars
        /\ [TenantNext]_tenantVars /\ [SeedNext]_seedVars
  BY DEF MCNext, allVars, Sync, Pay, Roster, Tenancy, Seeding
<1>. QED
  BY <1>1, <1>2, PTL DEF MCSpec, SyncSpec, PayrollSpec, RosterSpec, TenantSpec, SeedSpec

\* Every variable of the back office keeps its type, whatever fails and restarts.
THEOREM BackOfficeTyping == MCSpec => []BackOfficeTypeOK
<1>1. MCSpec => SyncSpec /\ PayrollSpec /\ RosterSpec /\ TenantSpec /\ SeedSpec
  BY PartsDoNotInterfere
<1>2. SyncSpec => []SyncTypeOK
  BY SyncAlwaysFollowsSaves, PTL
<1>3. PayrollSpec => []PayrollTypeOK
  BY EveryHourIsAlwaysCounted, PTL
<1>4. RosterSpec => []RosterTypeOK
  BY PartsAreAlwaysAsAsked, PTL
<1>5. TenantSpec => []TenantTypeOK
  BY TenantTyping
<1>6. SeedSpec => []SeedTypeOK
  BY SeedsAreAlwaysSafe, PTL
<1>7. SyncTypeOK /\ PayrollTypeOK /\ RosterTypeOK /\ TenantTypeOK /\ SeedTypeOK => BackOfficeTypeOK
  BY DEF BackOfficeTypeOK
<1>. QED
  BY <1>1, <1>2, <1>3, <1>4, <1>5, <1>6, <1>7, PTL
=============================================================================
