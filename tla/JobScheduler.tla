----------------------------- MODULE JobScheduler -----------------------------
(***************************************************************************)
(* The control panel of the scheduled jobs: the enabled flags of jobs and  *)
(* of their schedules (JobManagementController), the job schedulers that   *)
(* BullMQ keeps in Redis, the synchronisation of the second with the first *)
(* (JobSchedulerService.syncAll), and the page that sends the toggles      *)
(* (JobsPage).                                                             *)
(*                                                                         *)
(* syncAll is not atomic: it reads the flags, then the registered          *)
(* schedulers, then removes and upserts them one command at a time, while  *)
(* other toggles run their own syncAll.  A call in progress occupies a     *)
(* slot; the one that the server makes when it starts has a slot of its    *)
(* own.  Rows of jobs and schedules are neither added nor deleted by the   *)
(* program.                                                                *)
(***************************************************************************)
EXTENDS Integers

CONSTANTS
    Jobs,          \* rows of JobDefinition
    Schedules,     \* rows of JobSchedule, one per job and tenant
    JobOf,         \* the job of a schedule
    BaseHour,      \* the job's daily trigger time
    BaseMinute,
    Offset,        \* offsetMinutes of a schedule
    Requests,      \* slots for calls in progress
    Boot,          \* the slot of onModuleInit
    None,          \* no scheduler registered
    MaxCrashes     \* bound on the restarts of the server

Slots == Requests \cup {Boot}
Targets == Jobs \cup Schedules
Flags == [Targets -> BOOLEAN]
Patterns == [hour : 0..23, minute : 0..59]

ASSUME JobSchedulerAssumption ==
    /\ Jobs \cap Schedules = {}
    /\ JobOf \in [Schedules -> Jobs]
    /\ BaseHour \in [Jobs -> 0..23] /\ BaseMinute \in [Jobs -> 0..59]
    /\ Offset \in [Schedules -> Int]
    /\ Boot \notin Requests
    /\ None \notin Patterns /\ None \notin Flags
    /\ MaxCrashes \in Nat

VARIABLES
    enabled,       \* masterEnabled of a job, enabled of a schedule
    registered,    \* registered[k]: the cron pattern of k's job scheduler
    server,        \* "booting" until onModuleInit is done, "up", "down"
    req,           \* req[s]: the call in progress in slot s, or Idle
    shown,         \* the flags on the page, None before the first load
    alone,         \* the slots whose syncAll no other call has overlapped;
                   \* for the properties only
    crashes        \* the number of crashes, for its bound only

panel == <<enabled, registered, server, req, shown, alone, crashes>>

-----------------------------------------------------------------------------
(* computeStaggeredCronPattern                                             *)

\* The remainder of JavaScript takes the sign of the dividend.
Remainder(a, n) == IF a >= 0 THEN a % n ELSE -((-a) % n)

TotalMinutes(hour, minute, offset) == hour * 60 + minute + offset

PatternOf(wrapped) == [hour |-> wrapped \div 60, minute |-> wrapped % 60]

\* Mutant of Wrapped: the remainder is taken once.
WrappedOnce(total) == Remainder(total, 24 * 60)

Wrapped(total) == Remainder(Remainder(total, 24 * 60) + 24 * 60, 24 * 60)

StaggeredPattern(hour, minute, offset) == PatternOf(Wrapped(TotalMinutes(hour, minute, offset)))

CronPattern(k) == StaggeredPattern(BaseHour[JobOf[k]], BaseMinute[JobOf[k]], Offset[k])

-----------------------------------------------------------------------------
Idle == [op |-> "idle"]

\* `toggle` carries the value the page sends, `sync` is about to read the
\* flags, `list` to read the schedulers, `apply` has `stale` schedulers to
\* remove and then `todo` to upsert; `load` is about to answer the page, and
\* `show` to put the answer on it.
Call ==
    [op : {"toggle"}, target : Targets, value : BOOLEAN]
        \cup [op : {"sync", "load"}]
        \cup [op : {"list"}, desired : SUBSET Schedules]
        \cup [op : {"apply"}, stale : SUBSET Schedules, todo : SUBSET Schedules]
        \cup [op : {"show"}, flags : Flags]

PanelTypeOK ==
    /\ enabled \in Flags
    /\ registered \in [Schedules -> Patterns \cup {None}]
    /\ server \in {"booting", "up", "down"}
    /\ req \in [Slots -> Call \cup {Idle}]
    /\ shown \in Flags \cup {None}
    /\ alone \subseteq Slots
    /\ crashes \in 0..MaxCrashes

PanelInit ==
    /\ enabled \in Flags
    /\ registered = [k \in Schedules |-> None]
    /\ server = "booting"
    /\ req = [s \in Slots |-> IF s = Boot THEN [op |-> "sync"] ELSE Idle]
    /\ shown = None
    /\ alone = {}
    /\ crashes = 0

Desired == {k \in Schedules : enabled[JobOf[k]] /\ enabled[k]}

\* The calls that write a flag or a scheduler.
Writing(s) == req[s].op \in {"toggle", "sync", "list", "apply"}

Goto(s, call) == req' = [req EXCEPT ![s] = call]

-----------------------------------------------------------------------------
(* JobsPage                                                                *)

\* On mount and when the filter of the run history changes.
OpenPage(s) ==
    /\ server = "up" /\ s # Boot
    /\ req[s] = Idle
    /\ Goto(s, [op |-> "load"])
    /\ UNCHANGED <<enabled, registered, server, shown, alone, crashes>>

\* A button sends the opposite of what the page shows; it stays enabled while
\* earlier requests are under way.
Click(s, t) ==
    /\ server = "up" /\ s # Boot
    /\ req[s] = Idle
    /\ shown # None
    /\ Goto(s, [op |-> "toggle", target |-> t, value |-> ~shown[t]])
    /\ alone' = {}
    /\ UNCHANGED <<enabled, registered, server, shown, crashes>>

\* GET /skeleton/jobs is answered, and the answer reaches the page.
LoadJobs(s) ==
    /\ req[s].op = "load"
    /\ Goto(s, [op |-> "show", flags |-> enabled])
    /\ UNCHANGED <<enabled, registered, server, shown, alone, crashes>>

SetJobs(s) ==
    /\ req[s].op = "show"
    /\ shown' = req[s].flags
    /\ Goto(s, Idle)
    /\ UNCHANGED <<enabled, registered, server, alone, crashes>>

-----------------------------------------------------------------------------
(* PATCH /skeleton/jobs/:id/master and /skeleton/jobs/schedules/:id        *)

\* Rows are never deleted, so what findFirst returns is still there.
SaveToggle(s) ==
    /\ req[s].op = "toggle"
    /\ enabled' = [enabled EXCEPT ![req[s].target] = req[s].value]
    /\ Goto(s, [op |-> "sync"])
    /\ UNCHANGED <<registered, server, shown, alone, crashes>>

(* syncAll                                                                 *)

ReadDefinitions(s) ==
    /\ req[s].op = "sync"
    /\ Goto(s, [op |-> "list", desired |-> Desired])
    /\ alone' = IF \E r \in Slots \ {s} : Writing(r) THEN {} ELSE {s}
    /\ UNCHANGED <<enabled, registered, server, shown, crashes>>

\* Mutant of ReadSchedulers: nothing is stale.
ReadSchedulersOnly(s) ==
    /\ req[s].op = "list"
    /\ Goto(s, [op |-> "apply", todo |-> req[s].desired, stale |-> {}])
    /\ UNCHANGED <<enabled, registered, server, shown, alone, crashes>>

ReadSchedulers(s) ==
    /\ req[s].op = "list"
    /\ Goto(s, [op |-> "apply", todo |-> req[s].desired,
                stale |-> {k \in Schedules : registered[k] # None} \ req[s].desired])
    /\ UNCHANGED <<enabled, registered, server, shown, alone, crashes>>

RemoveStale(s, k) ==
    /\ req[s].op = "apply"
    /\ k \in req[s].stale
    /\ registered' = [registered EXCEPT ![k] = None]
    /\ Goto(s, [req[s] EXCEPT !.stale = @ \ {k}])
    /\ UNCHANGED <<enabled, server, shown, alone, crashes>>

Upsert(s, k) ==
    /\ req[s].op = "apply"
    /\ req[s].stale = {}
    /\ k \in req[s].todo
    /\ registered' = [registered EXCEPT ![k] = CronPattern(k)]
    /\ Goto(s, [req[s] EXCEPT !.todo = @ \ {k}])
    /\ UNCHANGED <<enabled, server, shown, alone, crashes>>

Applied(s) == req[s].op = "apply" /\ req[s].stale = {} /\ req[s].todo = {}

\* The toggle is answered and the page loads the jobs again; or the server
\* begins to take requests.
Synced(s) ==
    /\ Applied(s)
    /\ IF s = Boot
         THEN server' = "up" /\ Goto(s, Idle)
         ELSE Goto(s, [op |-> "load"]) /\ UNCHANGED server
    /\ UNCHANGED <<enabled, registered, shown, alone, crashes>>

-----------------------------------------------------------------------------
\* A command fails: the page gets an error and does not load the jobs.
Fail(s) ==
    /\ s # Boot
    /\ req[s] # Idle
    /\ Goto(s, Idle)
    /\ alone' = alone \ {s}
    /\ UNCHANGED <<enabled, registered, server, shown, crashes>>

\* The server stops; also when a command of the syncAll at its start fails.
Crash ==
    /\ crashes < MaxCrashes
    /\ server # "down"
    /\ server' = "down"
    /\ req' = [s \in Slots |-> Idle]
    /\ alone' = {}
    /\ crashes' = crashes + 1
    /\ UNCHANGED <<enabled, registered, shown>>

Restart ==
    /\ server = "down"
    /\ server' = "booting"
    /\ Goto(Boot, [op |-> "sync"])
    /\ alone' = {}
    /\ UNCHANGED <<enabled, registered, shown, crashes>>

-----------------------------------------------------------------------------
SyncStep(s) ==
    \/ ReadDefinitions(s)
    \/ ReadSchedulers(s)
    \/ \E k \in Schedules : RemoveStale(s, k) \/ Upsert(s, k)
    \/ Synced(s)

CallStep(s) == SaveToggle(s) \/ SyncStep(s) \/ LoadJobs(s) \/ SetJobs(s)

PanelNext ==
    \/ \E s \in Slots :
          \/ OpenPage(s)
          \/ \E t \in Targets : Click(s, t)
          \/ CallStep(s)
          \/ Fail(s)
    \/ Crash
    \/ Restart

PanelSpec == PanelInit /\ [][PanelNext]_panel

-----------------------------------------------------------------------------
(* Properties.                                                             *)

InStep == \A k \in Schedules : registered[k] = IF k \in Desired THEN CronPattern(k) ELSE None

\* syncAll: one that no other toggle overlaps leaves exactly the enabled
\* schedules registered, whatever overlapping, failed or interrupted ones
\* left behind.
LoneSyncSettles == \A s \in alone : Applied(s) => InStep

SameTimeOfDay(s, t) == (s - t) % 1440 = 0

\* computeStaggeredCronPattern: a tenant's pattern is a time of the day, that
\* of the job plus the offset, also when that is before midnight or after it.
PatternsStagger ==
    \A k \in Schedules : registered[k] # None =>
        /\ registered[k] \in Patterns
        /\ SameTimeOfDay(60 * registered[k].hour + registered[k].minute,
                         TotalMinutes(BaseHour[JobOf[k]], BaseMinute[JobOf[k]], Offset[k]))
=============================================================================
