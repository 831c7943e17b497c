------------------------------ MODULE SeedScripts ------------------------------
(***************************************************************************)
(* The scripts that fill the demo tenant (seed-uom-demo-data.ts,           *)
(* seed-users-demo-data.ts).  Each is a row of commands without a          *)
(* transaction, run by hand, one at a time; a run can stop anywhere and be *)
(* started again, on the same day or later.  What is looked up before it   *)
(* is created is a row; what belongs to the row is created after it.       *)
(***************************************************************************)
EXTENDS Naturals, Sequences

CONSTANTS
    SeedGroups,      \* the UOM Groups; they come in any order here
    Bagged,          \* the one that gets a rate of the past
    SeedPunches,     \* the time clock records
    LastSeedDay,     \* bound on the days
    NoRun            \* no run, and no day

ASSUME SeedAssumption ==
    /\ Bagged \in SeedGroups /\ LastSeedDay \in Nat /\ NoRun \notin Nat
    /\ {"nothing", "prior", "vacation"} \cap SeedGroups = {}
    /\ {"prior", "vacation"} \cap SeedPunches = {}

VARIABLES
    today,
    seedRun,         \* the run, or NoRun
    listed,          \* the lists of rows that are complete
    built,           \* built[g]: how many of the commands for g took effect
    openFrom,        \* first day of the open history row of Bagged, or NoRun
    prior,           \* last day of the row of its past rate, or NoRun
    punchRows,       \* punchRows[p][d]: the rows created for p on day d
    vacation,        \* commands for the days off that took effect
    stopped          \* what a run was building when it stopped; for the
                     \* properties only

seedVars == <<today, seedRun, listed, built, openFrom, prior, punchRows, vacation, stopped>>

-----------------------------------------------------------------------------
UomLists == <<"categories", "types">>
UserLists == <<"roles", "profiles", "permissions", "users", "members">>

\* A Group in the order of its creation.
GroupCommands == <<"row", "roles", "factor", "history", "hierarchy">>

\* The submission and its three records.
VacationCommands == <<"row", "day", "day", "day">>

Days == 0..LastSeedDay
ListsOf(script) == IF script = "uom" THEN UomLists ELSE UserLists

\* `lists`: how many lists are done; `left`: what is still to be looked at;
\* `making`: what is being built; `date`: the day that dates are computed from.
Runs == [script : {"uom", "users"}, lists : 0..Len(UserLists),
         left : SUBSET (SeedGroups \cup SeedPunches \cup {"prior", "vacation"}),
         making : SeedGroups \cup {"nothing", "prior", "vacation"}, date : Days]

ASSUME NoRunAssumption == NoRun \notin Runs

SeedTypeOK ==
    /\ today \in Days
    /\ seedRun \in Runs \cup {NoRun}
    /\ listed \subseteq {UomLists[i] : i \in DOMAIN UomLists} \cup {UserLists[i] : i \in DOMAIN UserLists}
    /\ built \in [SeedGroups -> 0..Len(GroupCommands)]
    /\ openFrom \in Days \cup {NoRun} /\ prior \in Days \cup {NoRun}
    /\ punchRows \in [SeedPunches -> [Days -> 0..2]]
    /\ vacation \in 0..Len(VacationCommands)
    /\ stopped \subseteq SeedGroups \cup {"vacation"}

SeedInit ==
    /\ today = 0 /\ seedRun = NoRun /\ listed = {}
    /\ built = [g \in SeedGroups |-> 0]
    /\ openFrom = NoRun /\ prior = NoRun
    /\ punchRows = [p \in SeedPunches |-> [d \in Days |-> 0]]
    /\ vacation = 0 /\ stopped = {}

-----------------------------------------------------------------------------
StartScript(script) ==
    /\ seedRun = NoRun
    /\ seedRun' = [script |-> script, lists |-> 0, making |-> "nothing", date |-> today,
                   left |-> IF script = "uom" THEN SeedGroups \cup {"prior"}
                                              ELSE SeedPunches \cup {"vacation"}]
    /\ UNCHANGED <<today, listed, built, openFrom, prior, punchRows, vacation, stopped>>

Running(script) == seedRun # NoRun /\ seedRun.script = script
ListsDone == seedRun.lists = Len(ListsOf(seedRun.script))

\* Each row of a list is created, or found, or written over.
SeedList ==
    /\ seedRun # NoRun /\ ~ListsDone
    /\ listed' = listed \cup {ListsOf(seedRun.script)[seedRun.lists + 1]}
    /\ seedRun' = [seedRun EXCEPT !.lists = @ + 1, !.date = today]
    /\ UNCHANGED <<today, built, openFrom, prior, punchRows, vacation, stopped>>

Idling(script) == Running(script) /\ ListsDone /\ seedRun.making = "nothing"

\* Mutant of FindGroup: a Group is skipped when any Group is there.
FindAnyGroup(g) ==
    /\ Idling("uom") /\ g \in seedRun.left
    /\ seedRun' = [seedRun EXCEPT !.left = @ \ {g}, !.date = today,
                      !.making = IF \E h \in SeedGroups : built[h] > 0 THEN "nothing" ELSE g]
    /\ UNCHANGED <<today, listed, built, openFrom, prior, punchRows, vacation, stopped>>

\* A Group that is there is skipped, whole or not.
FindGroup(g) ==
    /\ Idling("uom") /\ g \in seedRun.left
    /\ seedRun' = [seedRun EXCEPT !.left = @ \ {g}, !.date = today,
                      !.making = IF built[g] > 0 THEN "nothing" ELSE g]
    /\ UNCHANGED <<today, listed, built, openFrom, prior, punchRows, vacation, stopped>>

\* The next row of the Group; the history row starts on the day it is dated.
WriteGroupPart(g) ==
    LET next == built[g] + 1 IN
    /\ Running("uom") /\ seedRun.making = g
    /\ built' = [built EXCEPT ![g] = next]
    /\ openFrom' = IF g = Bagged /\ GroupCommands[next] = "history" THEN seedRun.date ELSE openFrom
    /\ seedRun' = IF next = Len(GroupCommands) THEN [seedRun EXCEPT !.making = "nothing"] ELSE seedRun
    /\ UNCHANGED <<today, listed, prior, punchRows, vacation, stopped>>

\* The past rate is looked up; if it is missing, the open row is moved to start
\* where the past one is to end.
MoveOpenRow ==
    /\ Idling("uom") /\ seedRun.left = {"prior"}
    /\ IF built[Bagged] > 0 /\ prior = NoRun
       THEN /\ openFrom' = IF openFrom = NoRun THEN NoRun ELSE today
            /\ seedRun' = [seedRun EXCEPT !.making = "prior", !.date = today]
       ELSE /\ seedRun' = [seedRun EXCEPT !.left = {}]
            /\ UNCHANGED openFrom
    /\ UNCHANGED <<today, listed, built, prior, punchRows, vacation, stopped>>

\* Mutant of CreatePriorRow: the dates are computed anew.
CreatePriorDated ==
    /\ Running("uom") /\ seedRun.making = "prior"
    /\ prior' = today
    /\ seedRun' = [seedRun EXCEPT !.making = "nothing", !.left = {}]
    /\ UNCHANGED <<today, listed, built, openFrom, punchRows, vacation, stopped>>

CreatePriorRow ==
    /\ Running("uom") /\ seedRun.making = "prior"
    /\ prior' = seedRun.date
    /\ seedRun' = [seedRun EXCEPT !.making = "nothing", !.left = {}]
    /\ UNCHANGED <<today, listed, built, openFrom, punchRows, vacation, stopped>>

\* Mutant of SeedPunch: the record is not looked up.
SeedPunchAgain(p) ==
    /\ Idling("users") /\ p \in seedRun.left
    /\ punchRows' = [punchRows EXCEPT ![p][seedRun.date] = IF @ < 2 THEN @ + 1 ELSE 2]
    /\ seedRun' = [seedRun EXCEPT !.left = @ \ {p}]
    /\ UNCHANGED <<today, listed, built, openFrom, prior, vacation, stopped>>

\* Looked up by its time, which is counted back from the day of the run.
SeedPunch(p) ==
    /\ Idling("users") /\ p \in seedRun.left
    /\ punchRows' = [punchRows EXCEPT ![p][seedRun.date] = 1]
    /\ seedRun' = [seedRun EXCEPT !.left = @ \ {p}]
    /\ UNCHANGED <<today, listed, built, openFrom, prior, vacation, stopped>>

\* A submission that is there is skipped, with or without its records.
FindVacation ==
    /\ Idling("users") /\ seedRun.left = {"vacation"}
    /\ seedRun' = [seedRun EXCEPT !.left = {}, !.making = IF vacation > 0 THEN "nothing" ELSE "vacation"]
    /\ UNCHANGED <<today, listed, built, openFrom, prior, punchRows, vacation, stopped>>

WriteVacationPart ==
    /\ Running("users") /\ seedRun.making = "vacation"
    /\ vacation' = vacation + 1
    /\ seedRun' = IF vacation' = Len(VacationCommands) THEN [seedRun EXCEPT !.making = "nothing"] ELSE seedRun
    /\ UNCHANGED <<today, listed, built, openFrom, prior, punchRows, stopped>>

ScriptDone ==
    /\ seedRun # NoRun /\ ListsDone /\ seedRun.left = {} /\ seedRun.making = "nothing"
    /\ seedRun' = NoRun
    /\ UNCHANGED <<today, listed, built, openFrom, prior, punchRows, vacation, stopped>>

\* A command fails, or the process is stopped.
StopScript ==
    /\ seedRun # NoRun
    /\ seedRun' = NoRun
    /\ stopped' = stopped \cup ({seedRun.making} \ {"nothing", "prior"})
    /\ UNCHANGED <<today, listed, built, openFrom, prior, punchRows, vacation>>

SeedMidnight ==
    /\ today < LastSeedDay
    /\ today' = today + 1
    /\ UNCHANGED <<seedRun, listed, built, openFrom, prior, punchRows, vacation, stopped>>

SeedNext ==
    \/ \E script \in {"uom", "users"} : StartScript(script)
    \/ SeedList \/ MoveOpenRow \/ CreatePriorRow \/ FindVacation \/ WriteVacationPart
    \/ ScriptDone \/ StopScript \/ SeedMidnight
    \/ \E g \in SeedGroups : FindGroup(g) \/ WriteGroupPart(g)
    \/ \E p \in SeedPunches : SeedPunch(p)

SeedSpec == SeedInit /\ [][SeedNext]_seedVars

-----------------------------------------------------------------------------
\* main: a run that comes to its end leaves every list complete, and every Group
\* and the days off whole, however many runs stopped before it, unless one of
\* them stopped while it was building just that.
EndedSeedIsWhole ==
    seedRun # NoRun /\ ListsDone /\ seedRun.left = {} /\ seedRun.making = "nothing" =>
        IF seedRun.script = "uom"
        THEN \A g \in SeedGroups \ stopped : built[g] = Len(GroupCommands)
        ELSE "vacation" \notin stopped => vacation = Len(VacationCommands)

\* findFirst by the time of the clock-in: runs of one day create a record once.
PunchesSeededOnce == \A p \in SeedPunches, d \in Days : punchRows[p][d] <= 1

\* historicalEnd: wherever runs stop and whenever midnight falls, the past rate
\* ends on the day on which the open row starts.
PriorMeetsCurrent == prior # NoRun /\ openFrom # NoRun => prior = openFrom

\* "Idempotent (safe to re-run)": wherever runs stop, and whenever they are
\* started again, what they leave is whole but for what a stopped run was
\* building, there once for each day of a run, and of one date.
SeedsAreSafeToRerun == EndedSeedIsWhole /\ PunchesSeededOnce /\ PriorMeetsCurrent
=============================================================================
