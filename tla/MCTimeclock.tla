----------------------------- MODULE MCTimeclock -----------------------------
(***************************************************************************)
(* An instance of Timeclock for TLC, and beside it, in behaviours of its   *)
(* own, one of the sweep over all tenants (TenantSweep).                   *)
(***************************************************************************)
EXTENDS Timeclock, TenantSweep, TLC

CONSTANTS worker, manager

VARIABLE part   \* the module that moves

ADayEach == [t \in Times |-> t]

allVars == <<tcVars, sweepVars, part>>

MCInit ==
    /\ part \in {"clock", "overrides", "sweep"}
    /\ TCInit /\ SweepInit /\ (part # "sweep" => down = {})

\* "clock": two days, and one user who corrects records; "overrides": one day, and
\* whoever is a manager.
Clock ==
    /\ part \in {"clock", "overrides"}
    /\ TCNext
    /\ part = "clock" => \A p \in Punches : holder'[p] \in {manager, NoUser}
    /\ part = "overrides" => now' = now
    /\ UNCHANGED <<sweepVars, part>>

SweepPart(A) == part = "sweep" /\ A /\ UNCHANGED <<tcVars, part>>

\* The sweep of the one tenant runs every day; a sweep over all tenants goes on,
\* and its repeatable job fires again.
MCSpec ==
    /\ MCInit
    /\ [][Clock \/ SweepPart(SweepsNext)]_allVars
    /\ WF_clockVars(SweepTenant(now))
    /\ WF_allVars(SweepPart(SweepStep))
=============================================================================
