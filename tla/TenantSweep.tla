----------------------------- MODULE TenantSweep -----------------------------
(***************************************************************************)
(* The daily job that flags stale punches of all tenants                   *)
(* (TimeclockAutoCloseService.sweepAllTenants): one tenant after another,  *)
(* until one of them does not answer.  Timeclock has the sweep of one.     *)
(***************************************************************************)
EXTENDS FiniteSets

CONSTANTS
    SweptTenants   \* skeleton and the tenants of the registry

VARIABLES
    stale,         \* the tenants that have a stale open punch
    down,          \* the tenants whose database does not answer
    sweep          \* the tenants that the job has still to visit

sweepVars == <<stale, down, sweep>>

SweepTypeOK ==
    stale \subseteq SweptTenants /\ down \subseteq SweptTenants /\ sweep \subseteq SweptTenants

SweepInit == stale = {} /\ down \in SUBSET SweptTenants /\ sweep = {}

\* A punch is left open over midnight.
BecomeStale(t) ==
    /\ stale' = stale \cup {t}
    /\ UNCHANGED <<down, sweep>>

\* A database fails, or is there again.
Outage(t) ==
    /\ down' = IF t \in down THEN down \ {t} ELSE down \cup {t}
    /\ UNCHANGED <<stale, sweep>>

\* The repeatable job fires and reads the registry.
StartSweep ==
    /\ sweep = {}
    /\ sweep' = SweptTenants
    /\ UNCHANGED <<stale, down>>

\* Mutant of SweepNext: the job is over with the first tenant it flags.
SweepOne(t) ==
    /\ t \in sweep \ down
    /\ stale' = stale \ {t}
    /\ sweep' = IF t \in stale THEN {} ELSE sweep \ {t}
    /\ UNCHANGED down

SweepNext(t) ==
    /\ t \in sweep \ down
    /\ stale' = stale \ {t}
    /\ sweep' = sweep \ {t}
    /\ UNCHANGED down

\* The job throws at the first tenant that does not answer.
SweepThrows(t) ==
    /\ t \in sweep \cap down
    /\ sweep' = {}
    /\ UNCHANGED <<stale, down>>

SweepStep == StartSweep \/ \E t \in SweptTenants : SweepNext(t) \/ SweepThrows(t)

SweepsNext == SweepStep \/ \E t \in SweptTenants : BecomeStale(t) \/ Outage(t)

SweepSpec == SweepInit /\ [][SweepsNext]_sweepVars

-----------------------------------------------------------------------------
\* sweepAllTenants: once all databases answer for good, every stale punch is
\* flagged, since each later run reaches all tenants.  One that stays down
\* can keep the others from it.
StaleIsSwept ==
    \A t \in SweptTenants : <>[](down = {}) => [](t \in stale => <>(t \notin stale))
=============================================================================
