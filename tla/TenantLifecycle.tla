--------------------------- MODULE TenantLifecycle ---------------------------
(***************************************************************************)
(* What the rest of the system may rely on about tenants: one that can be  *)
(* reached has a database with a schema, stays, and its schema only moves  *)
(* on.  TenantProvisioning implements this specification.                  *)
(***************************************************************************)
EXTENDS Naturals

CONSTANTS Tenants, MaxRelease

VARIABLES
    reachable,     \* the tenants that requests are served for
    version,       \* version[t]: the release of t's schema, 0 before t is reachable
    staffed        \* the tenants that have a Super Admin

LifecycleInit ==
    /\ reachable = {}
    /\ version = [t \in Tenants |-> 0]
    /\ staffed = {}

OpenTenant(t) ==
    /\ t \notin reachable
    /\ reachable' = reachable \cup {t}
    /\ \E r \in 1..MaxRelease : version' = [version EXCEPT ![t] = r]
    /\ UNCHANGED staffed

Upgrade(t) ==
    /\ t \in reachable
    /\ \E r \in 1..MaxRelease : r > version[t] /\ version' = [version EXCEPT ![t] = r]
    /\ UNCHANGED <<reachable, staffed>>

Staff(t) ==
    /\ t \in reachable \ staffed
    /\ staffed' = staffed \cup {t}
    /\ UNCHANGED <<reachable, version>>

LifecycleNext == \E t \in Tenants : OpenTenant(t) \/ Upgrade(t) \/ Staff(t)

LifecycleSpec == LifecycleInit /\ [][LifecycleNext]_<<reachable, version, staffed>>
=============================================================================
