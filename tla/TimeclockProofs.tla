--------------------------- MODULE TimeclockProofs ---------------------------
(***************************************************************************)
(* Proofs about Timeclock, for any number of users, records and calls in   *)
(* progress, and any calendar, and about the sweep over all tenants.       *)
(***************************************************************************)
EXTENDS MCTimeclock, TLAPS

\* Only records that exist are locked, and only such a record is the target
\* of a call: rows are never deleted.
TargetsExist ==
    /\ \A p \in Punches : holder[p] # NoUser => Exists(p)
    /\ \A s \in Requests :
          req[s].op \in {"clockOut", "override", "saved"} => Exists(req[s].punch)

\* The inductive invariant.
TCInv == ClockTypeOK /\ TargetsExist /\ ClosedIffTimed /\ FlaggedAreStale

-----------------------------------------------------------------------------
(* Facts about the values.                                                 *)

LEMMA DayMonotonic ==
  ASSUME NEW s \in Times, NEW t \in Times, s <= t
  PROVE  /\ DayOf[s] \in Nat /\ DayOf[t] \in Nat
         /\ DayOf[s] <= DayOf[t]
  BY TimeclockAssumption

LEMMA CallFields ==
  ASSUME NEW s \in Requests, req \in [Requests -> Call \cup {Idle}]
  PROVE  /\ req[s].op = "clockIn" => req[s].user \in Users /\ req[s].since \in Times
         /\ req[s].op = "clockOut" => req[s].user \in Users /\ req[s].punch \in Punches
         /\ req[s].op \in {"override", "saved"} =>
               /\ req[s] = [op |-> req[s].op, user |-> req[s].user, punch |-> req[s].punch]
               /\ req[s].user \in Managers /\ req[s].user \in Users /\ req[s].punch \in Punches
         /\ req[s].op = "idle" <=> req[s] = Idle
  BY TimeclockAssumption DEF Call, Idle

LEMMA PunchExists ==
  ASSUME NEW p \in Punches, punches \in [Punches -> Punch \cup {NoPunch}]
  PROVE  /\ Exists(p) <=> punches[p] \in Punch
         /\ Exists(p) <=> punches[p].status \in Statuses
         /\ ~Exists(p) <=> punches[p].status = "absent"
  BY DEF Exists, Punch, NoPunch, Statuses

LEMMA InitInv == TCInit => TCInv
<1> SUFFICES ASSUME TCInit PROVE TCInv
  OBVIOUS
<1>1. /\ holder = [r \in Resources |-> NoUser]
      /\ now = 0
      /\ \A p \in Punches : punches[p] = NoPunch
      /\ punches = [p \in Punches |-> NoPunch]
      /\ \A s \in Requests : req[s] = Idle
      /\ req = [s \in Requests |-> Idle]
  BY DEF TCInit, LockInit
<1>2. ClockTypeOK
  BY <1>1, TimeclockAssumption DEF ClockTypeOK, LockTypeOK, Times
<1>3. TargetsExist
  BY <1>1 DEF TargetsExist, Idle, Punches
<1>4. ClosedIffTimed /\ FlaggedAreStale
  BY <1>1 DEF ClosedIffTimed, FlaggedAreStale, Exists, NoPunch
<1>5. QED
  BY <1>2, <1>3, <1>4 DEF TCInv

-----------------------------------------------------------------------------
(* One lemma per group of actions.                                         *)

LEMMA ClockInInv ==
  ASSUME TCInv, NEW s \in Requests, ClockInCreate(s)
  PROVE  TCInv'
<1> USE DEF TCInv
<1>1. PICK p \in Punches, t \in Times :
         /\ ~Exists(p)
         /\ t <= now
         /\ punches' = [punches EXCEPT ![p] =
               [user |-> req[s].user, clockIn |-> t, clockOut |-> None,
                punchDate |-> DayOf[t], status |-> "clock_in"]]
         /\ req' = [req EXCEPT ![s] = Idle]
         /\ UNCHANGED <<holder, now>>
  BY DEF ClockInCreate, Finish
<1> DEFINE row == [user |-> req[s].user, clockIn |-> t, clockOut |-> None,
                   punchDate |-> DayOf[t], status |-> "clock_in"]
<1>2. row \in Punch
  BY CallFields DEF ClockInCreate, ClockTypeOK, Punch, Days, Statuses
<1>3. ClockTypeOK'
  BY <1>1, <1>2 DEF ClockTypeOK, LockTypeOK
<1>4. \A q \in Punches : Exists(q)' <=> (Exists(q) \/ q = p)
  BY <1>1, <1>2, PunchExists DEF ClockTypeOK, Exists, Punch, NoPunch
<1>5. TargetsExist'
  BY <1>1, <1>4, CallFields DEF ClockTypeOK, TargetsExist, Idle
<1>6. ClosedIffTimed'
  BY <1>1, <1>4 DEF ClockTypeOK, ClosedIffTimed, Exists
<1>7. FlaggedAreStale'
  BY <1>1 DEF ClockTypeOK, FlaggedAreStale
<1>8. QED
  BY <1>3, <1>5, <1>6, <1>7

LEMMA ClockOutInv ==
  ASSUME TCInv, NEW s \in Requests, ClockOutSave(s)
  PROVE  TCInv'
<1> USE DEF TCInv
<1> DEFINE p == req[s].punch
<1>1. PICK t \in Times :
         /\ punches' = [punches EXCEPT ![p].clockOut = t, ![p].status = "clock_out"]
         /\ req' = [req EXCEPT ![s] = Idle]
         /\ UNCHANGED <<holder, now>>
  BY DEF ClockOutSave, Finish
<1>2. p \in Punches /\ punches[p] \in Punch
  BY CallFields, PunchExists DEF ClockOutSave, ClockTypeOK, TargetsExist
<1> DEFINE row == [punches[p] EXCEPT !.clockOut = t, !.status = "clock_out"]
<1>3. /\ row \in Punch
      /\ punches' = [punches EXCEPT ![p] = row]
      /\ row.status = "clock_out" /\ row.clockOut # None
  BY <1>1, <1>2, TimeclockAssumption DEF Punch, Statuses, ClockTypeOK
<1> HIDE DEF row
<1>4. ClockTypeOK'
  BY <1>1, <1>2, <1>3 DEF ClockTypeOK, LockTypeOK
<1>5. \A q \in Punches : Exists(q)' <=> Exists(q)
  BY <1>2, <1>3 DEF ClockTypeOK, Exists, Punch, NoPunch
<1>6. TargetsExist'
  BY <1>1, <1>5, CallFields DEF ClockTypeOK, TargetsExist, Idle
<1>7. ClosedIffTimed'
  BY <1>2, <1>3, <1>5 DEF ClockTypeOK, ClosedIffTimed
<1>8. FlaggedAreStale'
  BY <1>1, <1>2, <1>3 DEF ClockTypeOK, FlaggedAreStale
<1>9. QED
  BY <1>4, <1>6, <1>7, <1>8

LEMMA OverrideInv ==
  ASSUME TCInv, NEW s \in Requests, OverrideSave(s)
  PROVE  TCInv'
<1> USE DEF TCInv
<1> DEFINE p == req[s].punch
<1>1. PICK in \in Times, out \in Times \cup {None} :
         /\ punches' = [punches EXCEPT
               ![p].clockIn = in,
               ![p].clockOut = out,
               ![p].status = IF out = None THEN "clock_in" ELSE "clock_out"]
         /\ req' = [req EXCEPT ![s].op = "saved"]
         /\ UNCHANGED <<holder, now>>
  BY DEF OverrideSave
<1>2. /\ p \in Punches /\ punches[p] \in Punch
      /\ req[s] = [op |-> "override", user |-> req[s].user, punch |-> p]
      /\ req[s].user \in Managers
  BY CallFields, PunchExists DEF OverrideSave, ClockTypeOK, TargetsExist
<1> DEFINE row == [punches[p] EXCEPT !.clockIn = in, !.clockOut = out,
                      !.status = IF out = None THEN "clock_in" ELSE "clock_out"]
           call == [op |-> "saved", user |-> req[s].user, punch |-> p]
<1>3. /\ row \in Punch
      /\ punches' = [punches EXCEPT ![p] = row]
      /\ row.status = "clock_out" <=> row.clockOut # None
      /\ row.status # "unclosed_needs_resolution"
  BY <1>1, <1>2, TimeclockAssumption DEF Punch, Statuses, ClockTypeOK
<1>4. req' = [req EXCEPT ![s] = call] /\ call \in Call
  <2>1. [req[s] EXCEPT !.op = "saved"] = call
    BY <1>2
  <2>2. req' = [req EXCEPT ![s] = [req[s] EXCEPT !.op = "saved"]]
    BY <1>1
  <2>3. call \in [op : {"override", "saved"}, user : Managers, punch : Punches]
    BY <1>2
  <2>4. QED
    BY <2>1, <2>2, <2>3 DEF Call
<1> HIDE DEF row
<1>5. ClockTypeOK'
  <2>1. punches' \in [Punches -> Punch \cup {NoPunch}]
    BY <1>2, <1>3 DEF ClockTypeOK
  <2>2. req' \in [Requests -> Call \cup {Idle}]
    BY <1>4 DEF ClockTypeOK
  <2>3. QED
    BY <1>1, <2>1, <2>2 DEF ClockTypeOK, LockTypeOK
<1>6. \A q \in Punches : Exists(q)' <=> Exists(q)
  BY <1>2, <1>3 DEF ClockTypeOK, Exists, Punch, NoPunch
<1>7. TargetsExist'
  BY <1>1, <1>2, <1>4, <1>6, CallFields DEF ClockTypeOK, TargetsExist, OverrideSave
<1>8. ClosedIffTimed'
  BY <1>2, <1>3, <1>6 DEF ClockTypeOK, ClosedIffTimed
<1>9. FlaggedAreStale'
  BY <1>1, <1>2, <1>3 DEF ClockTypeOK, FlaggedAreStale
<1>10. QED
  BY <1>5, <1>7, <1>8, <1>9

LEMMA SweepInv ==
  ASSUME TCInv, NEW t \in Times, SweepTenant(t)
  PROVE  TCInv'
<1> USE DEF TCInv
<1>1. /\ t <= now
      /\ UNCHANGED <<holder, now, req>>
      /\ \A p \in Punches : punches'[p] =
            IF Stale(p, t)
            THEN [punches[p] EXCEPT !.status = "unclosed_needs_resolution"]
            ELSE punches[p]
      /\ punches' = [p \in Punches |-> punches'[p]]
  BY DEF SweepTenant
<1>2. ASSUME NEW p \in Punches, Stale(p, t)
      PROVE  /\ punches[p] \in Punch /\ punches'[p] \in Punch
             /\ punches'[p].status = "unclosed_needs_resolution"
             /\ punches[p].clockOut = None /\ punches'[p].clockOut = None
             /\ punches'[p].punchDate = punches[p].punchDate
             /\ punches[p].punchDate < DayOf[t]
  <2>1. punches[p] \in Punch /\ punches[p].status = "clock_in" /\ punches[p].punchDate < DayOf[t]
    BY <1>2, PunchExists DEF Stale, ClockTypeOK, Statuses
  <2>2. punches[p].clockOut = None
    BY <2>1, PunchExists DEF ClosedIffTimed, ClockTypeOK
  <2>3. QED
    BY <1>1, <1>2, <2>1, <2>2 DEF Punch, Statuses
<1>3. ASSUME NEW p \in Punches
      PROVE  /\ punches'[p] \in Punch \cup {NoPunch}
             /\ Exists(p)' <=> Exists(p)
  BY <1>1, <1>2 DEF ClockTypeOK, Exists, Punch, NoPunch
<1>4. ClockTypeOK'
  BY <1>1, <1>3 DEF ClockTypeOK, LockTypeOK
<1>5. TargetsExist'
  BY <1>1, <1>3, CallFields DEF ClockTypeOK, TargetsExist
<1>6. ClosedIffTimed'
  BY <1>1, <1>2, <1>3 DEF ClosedIffTimed
<1>7. FlaggedAreStale'
  <2> SUFFICES ASSUME NEW p \in Punches, punches'[p].status = "unclosed_needs_resolution"
               PROVE  punches'[p].punchDate < DayOf[now]
    BY <1>1 DEF FlaggedAreStale
  <2>1. CASE Stale(p, t)
    <3>1. /\ DayOf[t] \in Nat /\ DayOf[now] \in Nat /\ DayOf[t] <= DayOf[now]
      BY <1>1, DayMonotonic DEF ClockTypeOK
    <3>2. punches'[p].punchDate \in Nat /\ punches'[p].punchDate < DayOf[t]
      BY <1>2, <2>1, TimeclockAssumption DEF Punch, Days
    <3>3. QED
      BY <3>1, <3>2
  <2>2. CASE ~Stale(p, t)
    BY <1>1, <2>2 DEF FlaggedAreStale
  <2>3. QED
    BY <2>1, <2>2
<1>8. QED
  BY <1>4, <1>5, <1>6, <1>7

\* The steps that change neither a record nor the clock: calls that begin,
\* end early or release the lock, and the lock's own steps.
LEMMA CallInv ==
  ASSUME TCInv, UNCHANGED <<now, punches>>,
         LockTypeOK', \A p \in Punches : holder'[p] # NoUser => Exists(p),
         req' \in [Requests -> Call \cup {Idle}],
         \A s \in Requests :
            req'[s].op \in {"clockOut", "override", "saved"} => Exists(req'[s].punch)
  PROVE  TCInv'
  BY DEF TCInv, ClockTypeOK, TargetsExist, ClosedIffTimed, FlaggedAreStale, Exists, Stale

LEMMA BeginInv ==
  ASSUME TCInv, NEW s \in Requests, NEW c \in Call \cup {Idle},
         c.op \in {"clockOut", "override", "saved"} => Exists(c.punch),
         req' = [req EXCEPT ![s] = c], UNCHANGED <<holder, now, punches>>
  PROVE  TCInv'
<1>1. req' \in [Requests -> Call \cup {Idle}]
  BY DEF TCInv, ClockTypeOK
<1>2. \A t \in Requests :
         req'[t].op \in {"clockOut", "override", "saved"} => Exists(req'[t].punch)
  BY DEF TCInv, ClockTypeOK, TargetsExist
<1>3. QED
  BY <1>1, <1>2, CallInv DEF TCInv, ClockTypeOK, LockTypeOK, TargetsExist

LEMMA ClockStepInv ==
  ASSUME TCInv, NEW s \in Requests, ClockStep(s)
  PROVE  TCInv'
<1>1. ASSUME NEW u \in Users, ClockInCheck(s, u)
      PROVE  TCInv'
  <2>1. [op |-> "clockIn", user |-> u, since |-> now] \in Call
    BY DEF TCInv, ClockTypeOK, Call
  <2>2. QED
    BY <1>1, <2>1, BeginInv DEF ClockInCheck, Begin
<1>2. ASSUME NEW u \in Users, ClockOutFind(s, u)
      PROVE  TCInv'
  <2>1. PICK p \in OpenPunches(u) :
           req' = [req EXCEPT ![s] = [op |-> "clockOut", user |-> u, punch |-> p, since |-> now]]
    BY <1>2 DEF ClockOutFind, Begin
  <2>2. p \in Punches /\ Exists(p)
    BY <2>1 DEF OpenPunches, Exists, NoPunch
  <2>3. [op |-> "clockOut", user |-> u, punch |-> p, since |-> now] \in Call
    BY <2>2 DEF TCInv, ClockTypeOK, Call
  <2>4. QED
    BY <1>2, <2>1, <2>2, <2>3, BeginInv DEF ClockOutFind
<1>3. QED
  BY <1>1, <1>2, ClockInInv, ClockOutInv DEF ClockStep

LEMMA OverrideStepInv ==
  ASSUME TCInv, NEW s \in Requests, OverrideStep(s)
  PROVE  TCInv'
<1>1. ASSUME NEW u \in Managers, NEW p \in Punches, OverrideCheck(s, u, p)
      PROVE  TCInv'
  <2>1. u \in Users /\ holder[p] # NoUser
    BY <1>1, TimeclockAssumption, NoUserAssumption DEF OverrideCheck, IsHeldBy
  <2>2. Exists(p)
    BY <2>1 DEF TCInv, TargetsExist
  <2>3. [op |-> "override", user |-> u, punch |-> p] \in Call
    BY DEF Call
  <2>4. QED
    BY <1>1, <2>2, <2>3, BeginInv DEF OverrideCheck, Begin
<1>2. CASE OverrideRelease(s)
  <2>1. /\ req' = [req EXCEPT ![s] = Idle]
        /\ holder' = [holder EXCEPT ![req[s].punch] = IF @ = req[s].user THEN NoUser ELSE @]
        /\ UNCHANGED <<now, punches>>
    BY <1>2 DEF OverrideRelease, GiveUp, Finish
  <2>2. req[s].punch \in Punches
    BY <1>2, CallFields DEF OverrideRelease, TCInv, ClockTypeOK
  <2>3. LockTypeOK' /\ \A p \in Punches : holder'[p] # NoUser => Exists(p)
    BY <2>1, <2>2 DEF TCInv, ClockTypeOK, LockTypeOK, TargetsExist, Punches
  <2>4. /\ req' \in [Requests -> Call \cup {Idle}]
        /\ \A t \in Requests :
              req'[t].op \in {"clockOut", "override", "saved"} => Exists(req'[t].punch)
    BY <2>1 DEF TCInv, ClockTypeOK, TargetsExist, Idle
  <2>5. QED
    BY <2>1, <2>3, <2>4, CallInv
<1>3. QED
  BY <1>1, <1>2, OverrideInv DEF OverrideStep

LEMMA LockStepInv ==
  ASSUME TCInv, LockStep
  PROVE  TCInv'
<1>1. UNCHANGED <<now, punches, req>>
  BY DEF LockStep, LockOverride, ReleaseOverrideLock, LocksLapse
<1>2. LockTypeOK' /\ \A p \in Punches : holder'[p] # NoUser => Exists(p)
  <2>1. ASSUME NEW u \in Managers, NEW p \in Punches, LockOverride(u, p)
        PROVE  LockTypeOK' /\ \A q \in Punches : holder'[q] # NoUser => Exists(q)
    BY <2>1, TimeclockAssumption
    DEF LockOverride, Take, TCInv, ClockTypeOK, LockTypeOK, TargetsExist, Punches
  <2>2. ASSUME NEW u \in Managers, NEW p \in Punches, ReleaseOverrideLock(u, p)
        PROVE  LockTypeOK' /\ \A q \in Punches : holder'[q] # NoUser => Exists(q)
    BY <2>2
    DEF ReleaseOverrideLock, GiveUp, TCInv, ClockTypeOK, LockTypeOK, TargetsExist, Punches
  <2>3. CASE LocksLapse
    BY <2>3 DEF LocksLapse, Lapse, TCInv, ClockTypeOK, LockTypeOK, TargetsExist, Punches
  <2>4. QED
    BY <2>1, <2>2, <2>3 DEF LockStep
<1>3. QED
  BY <1>1, <1>2, CallInv DEF TCInv, ClockTypeOK, TargetsExist

LEMMA MovesInv == TCInv /\ [ClockMoves]_clockVars => TCInv'
<1> SUFFICES ASSUME TCInv, [ClockMoves]_clockVars
             PROVE  TCInv'
  OBVIOUS
<1>1. ASSUME NEW s \in Requests, Abort(s)
      PROVE  TCInv'
  BY <1>1, BeginInv DEF Abort, Finish, Idle
<1>2. CASE Tick
  <2>1. now \in Times /\ now' \in Times /\ now <= now' /\ UNCHANGED <<holder, punches, req>>
    BY <1>2, TimeclockAssumption DEF Tick, TCInv, ClockTypeOK, Times
  <2>2. DayOf[now] \in Nat /\ DayOf[now'] \in Nat /\ DayOf[now] <= DayOf[now']
    BY <2>1, DayMonotonic
  <2>3. FlaggedAreStale'
    <3> SUFFICES ASSUME NEW p \in Punches, punches[p].status = "unclosed_needs_resolution"
                 PROVE  punches[p].punchDate < DayOf[now']
      BY <2>1 DEF FlaggedAreStale
    <3>1. punches[p] \in Punch
      BY PunchExists DEF TCInv, ClockTypeOK, Statuses
    <3>2. punches[p].punchDate \in Nat /\ punches[p].punchDate < DayOf[now]
      BY <3>1, TimeclockAssumption DEF Punch, Days, TCInv, FlaggedAreStale
    <3>3. QED
      BY <2>2, <3>2
  <2>4. QED
    BY <2>1, <2>3
    DEF TCInv, ClockTypeOK, LockTypeOK, TargetsExist, ClosedIffTimed, Exists
<1>3. CASE UNCHANGED clockVars
  BY <1>3
  DEF clockVars, TCInv, ClockTypeOK, LockTypeOK, TargetsExist, ClosedIffTimed, FlaggedAreStale, Exists
<1>4. QED
  BY <1>1, <1>2, <1>3, ClockStepInv, OverrideStepInv, LockStepInv, SweepInv DEF ClockMoves

LEMMA NextInv == TCInv /\ [TCNext]_tcVars => TCInv'
BY MovesInv DEF TCNext, tcVars, clockVars

-----------------------------------------------------------------------------
\* Whatever calls, sweeps and lapses of locks are interleaved: the types,
\* a record is closed exactly when it has a clock-out time, and only
\* punches of days that are over are flagged.
THEOREM TimeclockInvariants == TCSpec => [](TCTypeOK /\ StatusAgrees)
<1>1. TCInit => TCTypeOK /\ TCInv
  BY InitInv DEF TCInit, TCTypeOK, TCInv
<1>2. TCTypeOK /\ TCInv /\ [TCNext]_tcVars => (TCTypeOK /\ TCInv)'
  <2> SUFFICES ASSUME TCTypeOK, TCInv, [TCNext]_tcVars
               PROVE  (TCTypeOK /\ TCInv)'
    OBVIOUS
  <2>1. TCInv'
    BY NextInv
  <2>2. disciplined' \in BOOLEAN
    BY Zenon DEF TCTypeOK, TCNext, tcVars
  <2>3. slipped' \subseteq Punches
    BY DEF TCTypeOK, TCNext, tcVars
  <2>4. QED
    BY <2>1, <2>2, <2>3 DEF TCTypeOK, TCInv
<1>3. TCTypeOK /\ TCInv => TCTypeOK /\ StatusAgrees
  BY DEF TCInv, StatusAgrees
<1>4. QED
  BY <1>1, <1>2, <1>3, PTL DEF TCSpec

-----------------------------------------------------------------------------
(* One open punch per user, while `disciplined` holds.                   *)

\* While a clock-in is between its check and its insert, its user has no
\* open punch: nobody else can have opened one in between.
ClockInSafe ==
    \A s \in Requests : req[s].op = "clockIn" => OpenPunches(req[s].user) = {}

DisciplinedInv == TCInv /\ OneOpenPunch /\ OneCallPerUser /\ ClockInSafe

\* The steps that open no punch.
LEMMA OpensNothing ==
  ASSUME DisciplinedInv, TCInv', OneCallPerUser',
         \A p \in Punches : punches'[p].status = "clock_in" =>
            punches[p].status = "clock_in" /\ punches'[p].user = punches[p].user,
         \A s \in Requests : req'[s].op = "clockIn" => OpenPunches(req'[s].user) = {}
  PROVE  DisciplinedInv'
<1>1. \A u : OpenPunches(u)' \subseteq OpenPunches(u)
  BY DEF OpenPunches
<1>2. OneOpenPunch'
  BY <1>1 DEF DisciplinedInv, OneOpenPunch
<1>3. ClockInSafe'
  BY <1>1 DEF ClockInSafe
<1>4. QED
  BY <1>2, <1>3 DEF DisciplinedInv

LEMMA DisciplinedStep ==
  ASSUME DisciplinedInv, ClockMoves, OneCallPerUser', NoReopening
  PROVE  DisciplinedInv'
<1>1. TCInv'
  BY MovesInv DEF DisciplinedInv
<1> USE DEF DisciplinedInv
<1>2. ClockTypeOK
  BY DEF TCInv
<1>3. ASSUME NEW s \in Requests, ClockInCreate(s)
      PROVE  DisciplinedInv'
  <2>1. PICK p \in Punches, t \in Times :
           punches' = [punches EXCEPT ![p] =
              [user |-> req[s].user, clockIn |-> t, clockOut |-> None,
               punchDate |-> DayOf[t], status |-> "clock_in"]]
    BY <1>3 DEF ClockInCreate
  <2>2. /\ req[s].user \in Users /\ OpenPunches(req[s].user) = {}
        /\ req[s] # Idle /\ req' = [req EXCEPT ![s] = Idle]
    BY <1>2, <1>3, CallFields DEF ClockInCreate, Finish, ClockInSafe, ClockTypeOK, Idle
  <2>3. PICK u \in Users : u = req[s].user
    BY <2>2
  <2>4. \A v \in Users, q \in Punches :
           (punches'[q].status = "clock_in" /\ punches'[q].user = v) =>
              \/ v = u /\ q = p
              \/ punches[q].status = "clock_in" /\ punches[q].user = v
    BY <1>2, <2>1, <2>3 DEF ClockTypeOK
  <2>5. \A q \in Punches : ~(punches[q].status = "clock_in" /\ punches[q].user = u)
    BY <2>2, <2>3 DEF OpenPunches
  <2>6. OneOpenPunch'
    <3>1. \A v \in Users, q1, q2 \in Punches :
             ( /\ punches'[q1].status = "clock_in" /\ punches'[q1].user = v
               /\ punches'[q2].status = "clock_in" /\ punches'[q2].user = v ) => q1 = q2
      BY <2>4, <2>5 DEF OneOpenPunch, OpenPunches
    <3>2. QED
      BY <3>1 DEF OneOpenPunch, OpenPunches
  <2>7. ASSUME NEW r \in Requests, req'[r].op = "clockIn"
        PROVE  OpenPunches(req[r].user)' = {}
    <3>1. r # s /\ req'[r] = req[r] /\ req[r].op = "clockIn"
      BY <1>2, <2>2, <2>7 DEF ClockTypeOK, Idle
    <3>2. req[r] # Idle /\ req[r].user \in Users
      BY <1>2, <3>1, CallFields DEF ClockTypeOK, Idle
    <3>3. req[r].user # u
      BY <2>2, <2>3, <3>1, <3>2 DEF OneCallPerUser
    <3>4. \A q \in Punches : ~(punches[q].status = "clock_in" /\ punches[q].user = req[r].user)
      BY <3>1 DEF ClockInSafe, OpenPunches
    <3>5. \A q \in Punches : ~(punches'[q].status = "clock_in" /\ punches'[q].user = req[r].user)
      BY <2>4, <3>2, <3>3, <3>4
    <3>6. QED
      BY <3>1, <3>5 DEF OpenPunches
  <2>8. QED
    BY <1>1, <2>6, <2>7 DEF ClockInSafe
<1>4. ASSUME NEW s \in Requests, NEW u \in Users, ClockInCheck(s, u)
      PROVE  DisciplinedInv'
  BY <1>1, <1>2, <1>4, OpensNothing
  DEF ClockInCheck, Begin, ClockInSafe, ClockTypeOK
<1>5. ASSUME NEW s \in Requests, NEW u \in Users, ClockOutFind(s, u)
      PROVE  DisciplinedInv'
  <2>1. PICK p \in OpenPunches(u) :
           req' = [req EXCEPT ![s] = [op |-> "clockOut", user |-> u, punch |-> p, since |-> now]]
    BY <1>5 DEF ClockOutFind, Begin
  <2>2. \A r \in Requests : req'[r].op = "clockIn" => OpenPunches(req'[r].user) = {}
    BY <1>2, <2>1 DEF ClockTypeOK, ClockInSafe
  <2>3. QED
    BY <1>1, <1>5, <2>2, OpensNothing DEF ClockOutFind
<1>6. ASSUME NEW s \in Requests, ClockOutSave(s)
      PROVE  DisciplinedInv'
  <2>1. PICK t \in Times :
           /\ punches' = [punches EXCEPT ![req[s].punch].clockOut = t,
                                         ![req[s].punch].status = "clock_out"]
           /\ req' = [req EXCEPT ![s] = Idle]
    BY <1>6 DEF ClockOutSave, Finish
  <2>2. req[s].punch \in Punches /\ punches[req[s].punch] \in Punch
    BY <1>2, <1>6, CallFields, PunchExists
    DEF ClockOutSave, ClockTypeOK, TCInv, TargetsExist
  <2>3. \A p \in Punches : punches'[p].status = "clock_in" => punches'[p] = punches[p]
    BY <1>2, <2>1, <2>2 DEF ClockTypeOK, Punch
  <2>4. \A r \in Requests : req'[r].op = "clockIn" => OpenPunches(req'[r].user) = {}
    BY <1>2, <2>1 DEF ClockTypeOK, ClockInSafe, Idle
  <2>5. QED
    BY <1>1, <2>3, <2>4, OpensNothing
<1>7. ASSUME NEW s \in Requests, OverrideSave(s)
      PROVE  DisciplinedInv'
  <2>1. PICK in \in Times, out \in Times \cup {None} :
           /\ punches' = [punches EXCEPT
                 ![req[s].punch].clockIn = in,
                 ![req[s].punch].clockOut = out,
                 ![req[s].punch].status = IF out = None THEN "clock_in" ELSE "clock_out"]
           /\ req' = [req EXCEPT ![s].op = "saved"]
    BY <1>7 DEF OverrideSave
  <2>2. req[s].punch \in Punches /\ punches[req[s].punch] \in Punch
    BY <1>2, <1>7, CallFields, PunchExists
    DEF OverrideSave, ClockTypeOK, TCInv, TargetsExist
  <2>3. \A p \in Punches : punches'[p].status = "clock_in" =>
           punches[p].status = "clock_in" /\ punches'[p].user = punches[p].user
    <3> SUFFICES ASSUME NEW p \in Punches, punches'[p].status = "clock_in"
                 PROVE  punches[p].status = "clock_in" /\ punches'[p].user = punches[p].user
      OBVIOUS
    <3>1. CASE p # req[s].punch
      BY <1>2, <2>1, <2>2, <3>1 DEF ClockTypeOK
    <3>2. CASE p = req[s].punch
      <4>1. Exists(p)
        BY <2>2, <3>2 DEF Punch, NoPunch, Exists, Statuses
      <4>2. punches[p].status = "clock_in"
        BY <4>1 DEF NoReopening
      <4>3. punches'[p].user = punches[p].user
        BY <1>2, <2>1, <2>2, <3>2 DEF ClockTypeOK, Punch
      <4>4. QED
        BY <4>2, <4>3
    <3>3. QED
      BY <3>1, <3>2
  <2>4. \A r \in Requests : req'[r].op = "clockIn" => OpenPunches(req'[r].user) = {}
    <3> SUFFICES ASSUME NEW r \in Requests, req'[r].op = "clockIn"
                 PROVE  OpenPunches(req'[r].user) = {}
      OBVIOUS
    <3>1. r # s
      <4>1. req[s].op = "override" /\ req[s] = [op |-> req[s].op, user |-> req[s].user, punch |-> req[s].punch]
        BY <1>2, <1>7, CallFields DEF OverrideSave, ClockTypeOK
      <4>2. req'[s] = [req[s] EXCEPT !.op = "saved"]
        BY <1>2, <2>1 DEF ClockTypeOK
      <4>3. req'[s].op = "saved"
        BY <4>1, <4>2
      <4>4. QED
        BY <4>3
    <3>2. req'[r] = req[r]
      BY <1>2, <2>1, <3>1 DEF ClockTypeOK
    <3>3. QED
      BY <3>2 DEF ClockInSafe
  <2>5. QED
    BY <1>1, <2>3, <2>4, OpensNothing
<1>8. ASSUME NEW t \in Times, SweepTenant(t)
      PROVE  DisciplinedInv'
  <2>1. \A p \in Punches : punches'[p].status = "clock_in" => punches'[p] = punches[p]
    <3> SUFFICES ASSUME NEW p \in Punches, Stale(p, t)
                 PROVE  punches'[p].status # "clock_in"
      BY <1>8 DEF SweepTenant
    <3>1. punches[p] \in Punch
      BY <1>2, PunchExists DEF Stale, ClockTypeOK, Statuses
    <3>2. QED
      BY <1>8, <3>1 DEF SweepTenant, Punch
  <2>2. UNCHANGED req
    BY <1>8 DEF SweepTenant
  <2>3. QED
    BY <1>1, <2>1, <2>2, OpensNothing DEF ClockInSafe
<1>9. ASSUME NEW s \in Requests,
             \/ OverrideRelease(s)
             \/ Abort(s)
             \/ \E u \in Managers, p \in Punches : OverrideCheck(s, u, p)
      PROVE  DisciplinedInv'
  <2>1. UNCHANGED punches
    BY <1>9 DEF OverrideRelease, Abort, OverrideCheck
  <2>2. \A r \in Requests : req'[r].op = "clockIn" => req'[r] = req[r]
    BY <1>2, <1>9 DEF ClockTypeOK, OverrideRelease, Abort, OverrideCheck, Begin, Finish, Idle
  <2>3. QED
    BY <1>1, <2>1, <2>2, OpensNothing DEF ClockInSafe
<1>10. CASE LockStep \/ Tick
  <2>1. UNCHANGED <<punches, req>>
    BY <1>10 DEF LockStep, LockOverride, ReleaseOverrideLock, LocksLapse, Tick
  <2>2. QED
    BY <1>1, <2>1, OpensNothing DEF ClockInSafe
<1>11. QED
  BY <1>3, <1>4, <1>5, <1>6, <1>7, <1>8, <1>9, <1>10
  DEF ClockMoves, ClockStep, OverrideStep

\* The check in clockIn is enough to keep every user to one open punch as long
\* as the calls of one user did not overlap and no override reopened a punch.
THEOREM OneOpenPunchIfDisciplined == TCSpec => []DisciplinedOneOpenPunch
<1> DEFINE Inv == TCInv /\ (disciplined => DisciplinedInv)
<1>1. TCInit => Inv
  <2> SUFFICES ASSUME TCInit PROVE Inv
    OBVIOUS
  <2>1. TCInv
    BY InitInv
  <2>2. /\ \A p \in Punches : punches[p] = NoPunch
        /\ \A s \in Requests : req[s] = Idle
    BY DEF TCInit
  <2>3. QED
    BY <2>1, <2>2
    DEF DisciplinedInv, OneOpenPunch, OneCallPerUser, ClockInSafe, OpenPunches, NoPunch, Idle
<1>2. Inv /\ [TCNext]_tcVars => Inv'
  <2>1. ASSUME Inv, [TCNext]_tcVars
        PROVE  TCInv'
    BY <2>1, NextInv
  <2>2. ASSUME Inv, TCNext, disciplined'
        PROVE  DisciplinedInv'
    <3>1. disciplined /\ OneCallPerUser' /\ NoReopening /\ ClockMoves
      BY <2>2, Zenon DEF TCNext
    <3>2. QED
      BY <2>2, <3>1, DisciplinedStep, Zenon
  <2>3. ASSUME Inv, UNCHANGED tcVars, disciplined'
        PROVE  DisciplinedInv'
    <3>1. disciplined /\ TCInv'
      BY <2>1, <2>3, Zenon DEF tcVars
    <3>2. DisciplinedInv
      BY <2>3, <3>1, Zenon
    <3>3. QED
      BY <2>3, <3>1, <3>2
      DEF tcVars, DisciplinedInv, OneOpenPunch, OneCallPerUser, ClockInSafe, OpenPunches
  <2>4. QED
    BY <2>1, <2>2, <2>3, Zenon
<1>3. Inv => DisciplinedOneOpenPunch
  BY Zenon DEF DisciplinedInv, DisciplinedOneOpenPunch
<1>4. QED
  BY <1>1, <1>2, <1>3, PTL DEF TCSpec

-----------------------------------------------------------------------------
(* The lock of the override.                                               *)

\* Every step of the time clock is one of the lock's own, or leaves it alone.
LEMMA LockMoves ==
  ASSUME ClockTypeOK, ClockMoves
  PROVE  [LockNext]_holder
<1>1. ASSUME NEW s \in Requests, ClockStep(s) \/ Abort(s)
      PROVE  UNCHANGED holder
  BY <1>1 DEF ClockStep, ClockInCheck, ClockInCreate, ClockOutFind, ClockOutSave, Abort
<1>2. ASSUME NEW s \in Requests, OverrideRelease(s)
      PROVE  \E u \in Users, p \in Resources : GiveUp(u, p)
  BY <1>2, CallFields DEF OverrideRelease, ClockTypeOK, Punches
<1>3. ASSUME NEW s \in Requests, OverrideStep(s)
      PROVE  [LockNext]_holder
  BY <1>2, <1>3 DEF OverrideStep, OverrideCheck, OverrideSave, LockNext
<1>4. CASE LockStep
  BY <1>4, TimeclockAssumption
  DEF LockStep, LockOverride, ReleaseOverrideLock, LocksLapse, LockNext, Punches
<1>5. CASE Tick \/ \E t \in Times : SweepTenant(t)
  BY <1>5 DEF Tick, SweepTenant
<1>6. QED
  BY <1>1, <1>3, <1>4, <1>5 DEF ClockMoves

\* The time clock uses the edit lock as the abstract lock lets it, which is what
\* EditLock implements: it takes only what is free, and gives up only its own.
THEOREM UsesTheLock == TCSpec => LockSpec
<1>1. TCInit => LockInit /\ TCInv
  BY InitInv DEF TCInit
<1>2. TCInv /\ [TCNext]_tcVars => TCInv' /\ [LockNext]_holder
  <2>1. TCInv /\ [TCNext]_tcVars => TCInv'
    BY NextInv
  <2>2. ASSUME TCInv, TCNext PROVE [LockNext]_holder
    BY <2>2, LockMoves DEF TCInv, TCNext
  <2>3. ASSUME UNCHANGED tcVars PROVE [LockNext]_holder
    BY <2>3 DEF tcVars
  <2>4. QED
    BY <2>1, <2>2, <2>3
<1>3. QED
  BY <1>1, <1>2, PTL DEF TCSpec, LockSpec

\* A lock changes hands only by becoming free in between.
LEMMA NoHandover ==
  ASSUME LockTypeOK, [LockNext]_holder, NEW p \in Punches, holder[p] # NoUser
  PROVE  holder'[p] \in {holder[p], NoUser}
BY DEF LockNext, Take, GiveUp, Lapse, LockTypeOK, Punches

\* An override that has been checked has the lock of its record, unless that slipped.
HoldsItsLock ==
    \A s \in Requests :
        (req[s].op = "override" /\ req[s].punch \notin slipped) =>
            IsHeldBy(req[s].user, req[s].punch)

LEMMA OverrideKeepsLock ==
  ASSUME TCInv, TCInv', HoldsItsLock, TCNext
  PROVE  HoldsItsLock'
<1> SUFFICES ASSUME NEW s \in Requests, req'[s].op = "override", req'[s].punch \notin slipped'
             PROVE  holder'[req'[s].punch] = req'[s].user
  BY DEF HoldsItsLock, IsHeldBy
<1>1. ClockTypeOK /\ ClockMoves /\ req' \in [Requests -> Call \cup {Idle}]
  BY DEF TCInv, ClockTypeOK, TCNext
<1>2. req'[s] \in [op : {"override", "saved"}, user : Managers, punch : Punches]
  BY <1>1 DEF Call, Idle
<1>3. PICK p \in Punches, u \in Users : p = req'[s].punch /\ u = req'[s].user
  BY <1>2, TimeclockAssumption
<1>4. p \notin slipped /\ ~LockFreed(p)
  BY <1>3 DEF TCNext, Overriding
<1>5. CASE req'[s] = req[s]
  <2>1. holder[p] = u /\ u # NoUser
    BY <1>3, <1>4, <1>5, NoUserAssumption DEF HoldsItsLock, IsHeldBy
  <2>2. holder'[p] \in {holder[p], NoUser}
    BY <1>1, <2>1, LockMoves, NoHandover DEF ClockTypeOK
  <2>3. QED
    BY <1>3, <1>4, <2>1, <2>2 DEF LockFreed
<1>6. CASE req'[s] # req[s]
  <2>1. PICK r \in Requests : ClockStep(r) \/ OverrideStep(r) \/ Abort(r)
    BY <1>1, <1>6
    DEF ClockMoves, LockStep, LockOverride, ReleaseOverrideLock, LocksLapse, SweepTenant, Tick
  <2>2. ~ClockStep(r) /\ ~Abort(r)
    <3>1. ASSUME NEW c, req' = [req EXCEPT ![r] = c], c.op # "override"
          PROVE  FALSE
      BY <1>1, <1>6, <3>1 DEF ClockTypeOK
    <3>2. QED
      BY <3>1
      DEF ClockStep, ClockInCheck, ClockInCreate, ClockOutFind, ClockOutSave, Abort, Begin,
          Finish, Idle
  <2>3. ~OverrideRelease(r)
    BY <1>1, <1>6 DEF OverrideRelease, Finish, Idle, ClockTypeOK
  <2>4. ~OverrideSave(r)
    <3> SUFFICES ASSUME OverrideSave(r) PROVE FALSE
      OBVIOUS
    <3>1. req[r] = [op |-> req[r].op, user |-> req[r].user, punch |-> req[r].punch]
      BY <1>1, CallFields DEF OverrideSave, ClockTypeOK
    <3>2. req' = [req EXCEPT ![r] = [req[r] EXCEPT !.op = "saved"]]
      BY DEF OverrideSave
    <3>3. [req[r] EXCEPT !.op = "saved"].op = "saved"
      BY <3>1
    <3>4. QED
      BY <1>1, <1>6, <3>2, <3>3 DEF ClockTypeOK
  <2>5. PICK v \in Managers, q \in Punches : OverrideCheck(r, v, q)
    BY <2>1, <2>2, <2>3, <2>4 DEF OverrideStep
  <2>6. r = s /\ req'[s] = [op |-> "override", user |-> v, punch |-> q]
    BY <1>1, <1>6, <2>5 DEF OverrideCheck, Begin, ClockTypeOK
  <2>7. QED
    BY <2>5, <2>6 DEF OverrideCheck, IsHeldBy
<1>7. QED
  BY <1>5, <1>6

\* For any managers, records and calls: the overrides of one record that are under
\* way are all of the manager who holds its lock, unless the lock became free
\* between the check of one of them and its save.
THEOREM OverridesAlwaysExclude == TCSpec => []OverridesExclude
<1> DEFINE Inv == TCInv /\ HoldsItsLock
<1>1. TCInit => Inv
  BY InitInv DEF TCInit, HoldsItsLock, Idle
<1>2. Inv /\ [TCNext]_tcVars => Inv'
  <2>1. ASSUME Inv, [TCNext]_tcVars
        PROVE  TCInv'
    BY <2>1, NextInv
  <2>2. ASSUME Inv, TCNext
        PROVE  HoldsItsLock'
    BY <2>1, <2>2, OverrideKeepsLock
  <2>3. ASSUME Inv, UNCHANGED tcVars
        PROVE  HoldsItsLock'
    BY <2>3 DEF tcVars, HoldsItsLock, IsHeldBy
  <2>4. QED
    BY <2>1, <2>2, <2>3
<1>3. Inv => OverridesExclude
  BY DEF HoldsItsLock, OverridesExclude, IsHeldBy
<1>4. QED
  BY <1>1, <1>2, <1>3, PTL DEF TCSpec

-----------------------------------------------------------------------------
(* The two parts side by side.                                             *)

\* A step of one part leaves the other alone, so that what is proved of each holds
\* in the instance that TLC runs.
LEMMA PartsDoNotInterfere == MCSpec => TCSpec /\ SweepSpec
<1>1. MCInit => TCInit /\ SweepInit
  BY DEF MCInit
<1>2. [Clock \/ SweepPart(SweepsNext)]_allVars => [TCNext]_tcVars /\ [SweepsNext]_sweepVars
  BY Zenon DEF Clock, SweepPart, allVars
<1>3. QED
  BY <1>1, <1>2, PTL DEF MCSpec, TCSpec, SweepSpec

\* The sweep over all tenants keeps its types, whatever databases fail.
THEOREM SweepTyping == SweepSpec => []SweepTypeOK
<1>1. SweepInit => SweepTypeOK
  BY DEF SweepInit, SweepTypeOK
<1>2. SweepTypeOK /\ [SweepsNext]_sweepVars => SweepTypeOK'
  BY DEF SweepTypeOK, SweepsNext, SweepStep, BecomeStale, Outage, StartSweep, SweepNext,
         SweepThrows, sweepVars
<1>3. QED
  BY <1>1, <1>2, PTL DEF SweepSpec

\* Of the instance that TLC runs: the time clock and the sweep over all tenants do
\* not disturb each other, every variable keeps its type, and what is proved of the
\* time clock holds.
THEOREM TimeclockTyping ==
  MCSpec => [](TCTypeOK /\ SweepTypeOK /\ StatusAgrees /\ DisciplinedOneOpenPunch /\ OverridesExclude)
BY PartsDoNotInterfere, TimeclockInvariants, OneOpenPunchIfDisciplined, OverridesAlwaysExclude,
   SweepTyping, PTL
=============================================================================
