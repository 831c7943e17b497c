------------------------------ MODULE Timeclock ------------------------------
(***************************************************************************)
(* The time clock of one tenant: TimeclockService (clock in, clock out,    *)
(* the manager's override under the edit lock) and the daily sweep of      *)
(* TimeclockAutoCloseService.                                              *)
(*                                                                         *)
(* Every service call awaits the database or Redis between its steps, and  *)
(* nothing serialises two calls.  A call in progress occupies a request    *)
(* slot that remembers what its earlier steps read; one action below is    *)
(* one database or Redis command together with the code up to the next     *)
(* await.                                                                  *)
(***************************************************************************)
EXTENDS Naturals, LeaseLock

CONSTANTS
    Managers,   \* users with role Admin or Accounting/Management
    Requests,   \* slots for calls in progress
    MaxTime,    \* bound on the clock
    DayOf,      \* DayOf[t]: the UTC day (startOfDay) of time t
    None        \* NULL

\* The ids of the records that can ever be created; the lock of a record's
\* override is keyed on its id.
Punches == Resources

Times == 0..MaxTime

ASSUME TimeclockAssumption ==
    /\ Managers \subseteq Users
    /\ MaxTime \in Nat
    /\ None \notin Times
    /\ DayOf \in [Times -> Nat]
    /\ \A s, t \in Times : s <= t => DayOf[s] <= DayOf[t]

VARIABLES
    now,      \* the clock the service reads with new Date()
    punches,  \* punches[p]: the row of TimeClockRecord p, or NoPunch
    req,      \* req[s]: the call in progress in slot s, or Idle
    disciplined, \* so far no calls of one user overlapped, and no override
                 \* reopened a punch; recorded for DisciplinedOneOpenPunch
    slipped      \* the records whose lock became free since an override that is
                 \* still to be saved checked it; recorded for OverridesExclude

clockVars == <<holder, now, punches, req>>
tcVars == <<holder, now, punches, req, disciplined, slipped>>

-----------------------------------------------------------------------------
(* Rows and calls.                                                         *)

Statuses == {"clock_in", "clock_out", "unclosed_needs_resolution"}

Days == {DayOf[t] : t \in Times}

Punch == [user : Users, clockIn : Times, clockOut : Times \cup {None},
          punchDate : Days, status : Statuses]

NoPunch == [status |-> "absent"]

Idle == [op |-> "idle"]

\* `since` is the time of a call's first step: the new Date() it evaluates
\* after that step is read somewhere between `since` and its last step.
Call ==
    [op : {"clockIn"}, user : Users, since : Times]
        \cup [op : {"clockOut"}, user : Users, punch : Punches, since : Times]
        \cup [op : {"override", "saved"}, user : Managers, punch : Punches]

Exists(p) == punches[p] # NoPunch

\* What findFirst({ userId, status: 'clock_in' }) can return.
OpenPunches(u) ==
    {p \in Punches : punches[p].status = "clock_in" /\ punches[p].user = u}

ClockTypeOK ==
    /\ LockTypeOK
    /\ now \in Times
    /\ punches \in [Punches -> Punch \cup {NoPunch}]
    /\ req \in [Requests -> Call \cup {Idle}]

TCTypeOK == ClockTypeOK /\ disciplined \in BOOLEAN /\ slipped \subseteq Punches

TCInit ==
    /\ LockInit
    /\ now = 0
    /\ punches = [p \in Punches |-> NoPunch]
    /\ req = [s \in Requests |-> Idle]
    /\ disciplined = TRUE
    /\ slipped = {}

Begin(s, call) == req[s] = Idle /\ req' = [req EXCEPT ![s] = call]

Finish(s) == req' = [req EXCEPT ![s] = Idle]

-----------------------------------------------------------------------------
(* POST /timeclock/clock-in                                                *)

\* Mutant of ClockInCheck: the open punch is not looked for.
ClockInUnchecked(s, u) ==
    /\ Begin(s, [op |-> "clockIn", user |-> u, since |-> now])
    /\ UNCHANGED <<holder, now, punches>>

\* The guard: no open punch.  Otherwise 409, and nothing changes.
ClockInCheck(s, u) ==
    /\ OpenPunches(u) = {}
    /\ Begin(s, [op |-> "clockIn", user |-> u, since |-> now])
    /\ UNCHANGED <<holder, now, punches>>

ClockInCreate(s) ==
    /\ req[s].op = "clockIn"
    /\ \E p \in Punches, t \in Times :
          /\ ~Exists(p)
          /\ req[s].since <= t /\ t <= now
          /\ punches' = [punches EXCEPT ![p] =
                 [user |-> req[s].user, clockIn |-> t, clockOut |-> None,
                  punchDate |-> DayOf[t], status |-> "clock_in"]]
    /\ Finish(s)
    /\ UNCHANGED <<holder, now>>

(* POST /timeclock/clock-out                                               *)

ClockOutFind(s, u) ==
    /\ \E p \in OpenPunches(u) :
          Begin(s, [op |-> "clockOut", user |-> u, punch |-> p, since |-> now])
    /\ UNCHANGED <<holder, now, punches>>

\* The update is by id alone: it does not ask whether the row is still open.
ClockOutSave(s) ==
    /\ req[s].op = "clockOut"
    /\ \E t \in Times :
          /\ req[s].since <= t /\ t <= now
          /\ punches' = [punches EXCEPT ![req[s].punch].clockOut = t,
                                        ![req[s].punch].status = "clock_out"]
    /\ Finish(s)
    /\ UNCHANGED <<holder, now>>

-----------------------------------------------------------------------------
(* The override and its lock.                                              *)

\* POST override/:recordId/lock, DELETE override/:recordId/lock.  A
\* heartbeat renews a lease: it leaves the holder alone.
LockOverride(u, p) ==
    /\ Exists(p)
    /\ Take(u, p)
    /\ UNCHANGED <<now, punches, req>>

ReleaseOverrideLock(u, p) ==
    /\ GiveUp(u, p)
    /\ UNCHANGED <<now, punches, req>>

\* Leases run out; see EditLock for when they may.
LocksLapse ==
    /\ \E P \in SUBSET Punches : Lapse(P)
    /\ UNCHANGED <<now, punches, req>>

\* Mutant of OverrideCheck: any manager may, once the record was locked.
OverrideCheckLocked(s, u, p) ==
    /\ holder[p] # NoUser
    /\ Begin(s, [op |-> "override", user |-> u, punch |-> p])
    /\ UNCHANGED <<holder, now, punches>>

\* POST /timeclock/override, first await: isHeldBy.
OverrideCheck(s, u, p) ==
    /\ IsHeldBy(u, p)
    /\ Begin(s, [op |-> "override", user |-> u, punch |-> p])
    /\ UNCHANGED <<holder, now, punches>>

\* The submitted times are the manager's: any, as long as clock-out does
\* not precede clock-in, and clock-out may be left out.
OverrideSave(s) ==
    /\ req[s].op = "override"
    /\ \E in \in Times, out \in Times \cup {None} :
          /\ out # None => in <= out
          /\ punches' = [punches EXCEPT
                 ![req[s].punch].clockIn = in,
                 ![req[s].punch].clockOut = out,
                 ![req[s].punch].status = IF out = None THEN "clock_in" ELSE "clock_out"]
    /\ req' = [req EXCEPT ![s].op = "saved"]
    /\ UNCHANGED <<holder, now>>

OverrideRelease(s) ==
    /\ req[s].op = "saved"
    /\ GiveUp(req[s].user, req[s].punch)
    /\ Finish(s)
    /\ UNCHANGED <<now, punches>>

\* Any call can end early: rejected times, a database or Redis error, a
\* restart of the server.  What it wrote stays, what it locked stays locked.
Abort(s) ==
    /\ req[s] # Idle
    /\ Finish(s)
    /\ UNCHANGED <<holder, now, punches>>

-----------------------------------------------------------------------------
(* The daily sweep: one updateMany, against a todayStart computed at t.    *)

\* Mutant of Stale: closed punches are swept too.
StaleOfAnyStatus(p, t) ==
    Exists(p) /\ punches[p].punchDate < DayOf[t]

\* Mutant of Stale: lte instead of lt.
StaleFromToday(p, t) ==
    punches[p].status = "clock_in" /\ punches[p].punchDate <= DayOf[t]

Stale(p, t) ==
    punches[p].status = "clock_in" /\ punches[p].punchDate < DayOf[t]

\* Mutant of SweepTenant: it leaves a day of grace.
SweepTenantLate(t) ==
    /\ t <= now
    /\ punches' = [p \in Punches |->
          IF Stale(p, t) /\ punches[p].punchDate + 1 < DayOf[t]
          THEN [punches[p] EXCEPT !.status = "unclosed_needs_resolution"]
          ELSE punches[p]]
    /\ UNCHANGED <<holder, now, req>>

SweepTenant(t) ==
    /\ t <= now
    /\ punches' = [p \in Punches |->
          IF Stale(p, t)
          THEN [punches[p] EXCEPT !.status = "unclosed_needs_resolution"]
          ELSE punches[p]]
    /\ UNCHANGED <<holder, now, req>>

Tick ==
    /\ now < MaxTime
    /\ now' = now + 1
    /\ UNCHANGED <<holder, punches, req>>

-----------------------------------------------------------------------------
ClockStep(s) ==
    \/ \E u \in Users : ClockInCheck(s, u) \/ ClockOutFind(s, u)
    \/ ClockInCreate(s)
    \/ ClockOutSave(s)

OverrideStep(s) ==
    \/ \E u \in Managers, p \in Punches : OverrideCheck(s, u, p)
    \/ OverrideSave(s)
    \/ OverrideRelease(s)

LockStep ==
    \/ \E u \in Managers, p \in Punches : LockOverride(u, p) \/ ReleaseOverrideLock(u, p)
    \/ LocksLapse

ClockMoves ==
    \/ \E s \in Requests : ClockStep(s) \/ OverrideStep(s) \/ Abort(s)
    \/ LockStep
    \/ \E t \in Times : SweepTenant(t)
    \/ Tick

\* Two conditions the service does not enforce: the calls of one user do not
\* overlap ...
OneCallPerUser ==
    \A s, t \in Requests :
        (req[s] # Idle /\ req[t] # Idle /\ s # t) => req[s].user # req[t].user

\* ... and no override reopens a punch that is no longer open.
NoReopening ==
    \A p \in Punches :
        (Exists(p) /\ punches[p].status # "clock_in") => punches'[p].status # "clock_in"

\* An override of the record has been checked, and is still to be saved.
Overriding(p) == \E s \in Requests : req[s].op = "override" /\ req[s].punch = p

\* The lock of the record was released, or lapsed.
LockFreed(p) == holder[p] # NoUser /\ holder'[p] = NoUser

TCNext ==
    /\ ClockMoves
    /\ disciplined' = (disciplined /\ OneCallPerUser' /\ NoReopening)
    /\ slipped' = {p \in Punches : Overriding(p)' /\ (p \in slipped \/ LockFreed(p))}

TCSpec == TCInit /\ [][TCNext]_tcVars

\* The sweep is a repeatable job: it runs every day, for ever.
TCFairSpec == TCSpec /\ WF_clockVars(SweepTenant(now))

-----------------------------------------------------------------------------
(* What holds of every interleaving.                                       *)

\* A record says CLOCK OUT exactly when it has a clock-out time, however
\* clock-outs that read an open punch, sweeps and overrides of the same
\* record are interleaved (users/3-business-rules.md section 8: a CLOCK OUT
\* record with a blank clock-out timestamp is unrepresentable).
ClosedIffTimed ==
    \A p \in Punches : Exists(p) =>
        (punches[p].status = "clock_out" <=> punches[p].clockOut # None)

\* Only a punch of a day that is over is flagged for a manager: a sweep
\* never takes today's open punch away from a user who is still working,
\* even if it starts before midnight and writes after it.
FlaggedAreStale ==
    \A p \in Punches :
        punches[p].status = "unclosed_needs_resolution" => punches[p].punchDate < DayOf[now]

\* Whatever overlaps, the status of a record agrees with its times: closed with a
\* clock-out time and only then, flagged only when its day is over.
StatusAgrees == ClosedIffTimed /\ FlaggedAreStale

\* override: the overrides of one record that are under way are all of the manager
\* who holds its lock, unless the lock became free between the check of one of
\* them and its save, when nothing stops another manager.
OverridesExclude ==
    \A s \in Requests :
        (req[s].op = "override" /\ req[s].punch \notin slipped) =>
            /\ IsHeldBy(req[s].user, req[s].punch)
            /\ \A t \in Requests :
                  (req[t].op = "override" /\ req[t].punch = req[s].punch) =>
                      req[t].user = req[s].user

\* A punch left open past its day does not stay open: it is closed, or
\* flagged by the sweep (ADR-037).
StaleOpenPunchIsFlagged ==
    \A p \in Punches : Stale(p, now) ~> punches[p].status # "clock_in"

-----------------------------------------------------------------------------
(* One open punch per user.                                                *)

\* A user never has two open punches (users/3-business-rules.md section 6).
OneOpenPunch ==
    \A u \in Users : \A p, q \in OpenPunches(u) : p = q

\* Without overlapping calls of one user and without an override that reopens a
\* punch, the check of clockIn is enough for one open punch per user.
DisciplinedOneOpenPunch == disciplined => OneOpenPunch
=============================================================================
