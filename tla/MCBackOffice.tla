---------------------------- MODULE MCBackOffice ----------------------------
(***************************************************************************)
(* Instances of five modules that share no state, for one run of TLC: in a  *)
(* behaviour one of them moves.                                            *)
(***************************************************************************)
EXTENDS QuickBooksSync, Payroll, Rosters, TenantProvisioning, SeedScripts

VARIABLE part

CONSTANTS
    Touched,     \* the group and the profile whose parts vary
    qa, wbc      \* a tenant for tests and one that is live

TypeOfEach == [t \in Tenants |-> IF t = qa THEN "testing" ELSE "live"]
HoursOfPunches == {-1, 2}

MCInit ==
    /\ part \in {"sync", "payroll", "rosters", "tenants", "seeds"}
    /\ SyncInit /\ PayrollInit /\ RosterInit /\ TenantInit /\ SeedInit

Sync == part = "sync" /\ SyncNext
    /\ UNCHANGED <<payrollVars, rosterVars, tenantVars, seedVars>>
Pay == part = "payroll" /\ PayrollNext
    /\ UNCHANGED <<syncVars, rosterVars, tenantVars, seedVars>>
Roster == part = "rosters" /\ RosterNext
    /\ UNCHANGED <<syncVars, payrollVars, tenantVars, seedVars>>
Tenancy == part = "tenants" /\ TenantNext
    /\ UNCHANGED <<syncVars, payrollVars, rosterVars, seedVars>>
Seeding == part = "seeds" /\ SeedNext
    /\ UNCHANGED <<syncVars, payrollVars, rosterVars, tenantVars>>

allVars == <<syncVars, payrollVars, rosterVars, tenantVars, seedVars, part>>

MCNext == (Sync \/ Pay \/ Roster \/ Tenancy \/ Seeding) /\ UNCHANGED part

MCSpec == MCInit /\ [][MCNext]_allVars

\* Every variable keeps its type, whatever fails and whenever.
BackOfficeTypeOK ==
    SyncTypeOK /\ PayrollTypeOK /\ RosterTypeOK /\ TenantTypeOK /\ SeedTypeOK

\* Records are created in order, and one submission is looked at in the end.
\* Rows are of one kind at a time, and the second is there to transfer to.
Small ==
    /\ \A r \in TimeRecords : records[r] # NoRecord => \A q \in 1..(r - 1) : records[q] # NoRecord
    /\ Cardinality(booked) <= 1
    /\ \/ \A g \in Groups : groups[g] = Missing /\ Busy(g) = {}
       \/ \A p \in Profiles : profiles[p] = Missing /\ Busy(p) = {}
    /\ \/ \A h \in Holidays : holidays[h] = Missing /\ Busy(h) = {}
       \/ \A g \in Groups, p \in Profiles : groups[g] = Missing /\ profiles[p] = Missing
    /\ \A s \in Callers : call[s] # Resting =>
          \/ call[s].row \in Touched \cup Holidays
          \/ call[s].at = "permissions" /\ call[s].granted = {}
=============================================================================
