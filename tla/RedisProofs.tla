----------------------------- MODULE RedisProofs -----------------------------
(***************************************************************************)
(* What the server keeps in Redis.                                         *)
(*   1. EditLock, for any number of users, sessions, records and any time  *)
(*      to live.                                                           *)
(*   2. JobScheduler and JobRuns, for any number of jobs, schedules,       *)
(*      workers and calls in progress, and any offsets.                    *)
(***************************************************************************)
EXTENDS EditLock, JobRuns, FiniteSetTheorems, TLAPS

-----------------------------------------------------------------------------
(* The leases on records.                                                  *)

\* An open session has a resource whenever its lease runs; with that, and
\* with every key's time to live covering the leases on it, LeaseHonoured
\* is inductive: a key cannot expire under a live lease.
LeaseInv ==
    /\ TypeOK
    /\ KeyIffTtl
    /\ \A s \in Sessions :
          lease[s] > 0 => /\ editing[s] \in Resources
                          /\ holder[editing[s]] = UserOf[s]
                          /\ lease[s] <= ttl[editing[s]]

-----------------------------------------------------------------------------
LEMMA InitLeaseInv == Init => LeaseInv
  BY EditLockAssumption DEF Init, LeaseInv, TypeOK, KeyIffTtl

\* The steps of the service and of the sessions preserve LeaseInv as long
\* as no two sessions share a user.
LEMMA NextLeaseInv ==
  ASSUME OneSessionPerUser, LeaseInv, [Next]_vars
  PROVE  LeaseInv'
<1> USE EditLockAssumption DEF LeaseInv, TypeOK, KeyIffTtl
<1>1. ASSUME NEW s \in Sessions, NEW r \in Resources, Open(s, r)
      PROVE  LeaseInv'
  <2>1. /\ UserOf[s] \in Users
        /\ holder[r] = NoUser
        /\ holder' = [holder EXCEPT ![r] = UserOf[s]]
        /\ ttl' = [ttl EXCEPT ![r] = Ttl]
        /\ editing' = [editing EXCEPT ![s] = r]
        /\ lease' = [lease EXCEPT ![s] = Ttl]
    BY <1>1 DEF Open, SetNX
  <2>2. TypeOK' /\ KeyIffTtl'
    BY <2>1
  <2>3. ASSUME NEW t \in Sessions, lease'[t] > 0
        PROVE  /\ editing'[t] \in Resources
               /\ holder'[editing'[t]] = UserOf[t]
               /\ lease'[t] <= ttl'[editing'[t]]
    <3>1. CASE t = s
      BY <2>1, <3>1
    <3>2. CASE t # s
      <4>1. /\ lease[t] > 0 /\ lease'[t] = lease[t]
            /\ editing'[t] = editing[t]
        BY <2>1, <2>3, <3>2
      <4>2. editing[t] # r
        BY <2>1, <4>1
      <4>3. QED
        BY <2>1, <4>1, <4>2
    <3>3. QED
      BY <3>1, <3>2
  <2>4. QED
    BY <2>2, <2>3
<1>2. ASSUME NEW s \in Sessions, Heartbeat(s)
      PROVE  LeaseInv'
  <2> DEFINE r == editing[s]
  <2>1. r \in Resources /\ holder' = holder
    BY <1>2 DEF Heartbeat, ExtendIfOwner
  <2>2. CASE holder[r] = UserOf[s]
    <3>1. /\ ttl' = [ttl EXCEPT ![r] = Ttl]
          /\ lease' = [lease EXCEPT ![s] = Ttl]
          /\ editing' = editing
      BY <1>2, <2>2 DEF Heartbeat, ExtendIfOwner
    <3>2. UserOf[s] \in Users
      OBVIOUS
    <3>3. TypeOK' /\ KeyIffTtl'
      BY <2>1, <2>2, <3>1, <3>2
    <3>4. ASSUME NEW t \in Sessions, lease'[t] > 0
          PROVE  /\ editing'[t] \in Resources
                 /\ holder'[editing'[t]] = UserOf[t]
                 /\ lease'[t] <= ttl'[editing'[t]]
      <4>1. CASE t = s
        BY <2>1, <2>2, <3>1, <4>1
      <4>2. CASE t # s
        BY <2>1, <2>2, <3>1, <3>4, <4>2
      <4>3. QED
        BY <4>1, <4>2
    <3>5. QED
      BY <3>3, <3>4
  <2>3. CASE holder[r] # UserOf[s]
    <3>1. /\ ttl' = ttl
          /\ lease' = [lease EXCEPT ![s] = 0]
          /\ editing' = [editing EXCEPT ![s] = NoResource]
      BY <1>2, <2>3 DEF Heartbeat, ExtendIfOwner
    <3>2. QED
      BY <2>1, <3>1
  <2>4. QED
    BY <2>2, <2>3
<1>3. ASSUME NEW s \in Sessions, Close(s)
      PROVE  LeaseInv'
  <2> DEFINE r == editing[s]
  <2>1. /\ r \in Resources
        /\ editing' = [editing EXCEPT ![s] = NoResource]
        /\ lease' = [lease EXCEPT ![s] = 0]
    BY <1>3 DEF Close
  <2>2. CASE holder[r] = UserOf[s]
    <3>1. /\ holder' = [holder EXCEPT ![r] = NoUser]
          /\ ttl' = [ttl EXCEPT ![r] = 0]
      BY <1>3, <2>2 DEF Close, DeleteIfOwner
    <3>2. TypeOK' /\ KeyIffTtl'
      BY <2>1, <3>1
    <3>3. ASSUME NEW t \in Sessions, lease'[t] > 0
          PROVE  /\ editing'[t] \in Resources
                 /\ holder'[editing'[t]] = UserOf[t]
                 /\ lease'[t] <= ttl'[editing'[t]]
      <4>1. t # s /\ lease[t] > 0 /\ lease'[t] = lease[t] /\ editing'[t] = editing[t]
        BY <2>1, <3>3
      <4>2. UserOf[t] # UserOf[s]
        BY <4>1 DEF OneSessionPerUser
      <4>3. editing[t] # r
        BY <2>2, <4>1, <4>2
      <4>4. QED
        BY <3>1, <4>1, <4>3
    <3>4. QED
      BY <3>2, <3>3
  <2>3. CASE holder[r] # UserOf[s]
    BY <1>3, <2>1, <2>3 DEF Close, DeleteIfOwner
  <2>4. QED
    BY <2>2, <2>3
<1>4. ASSUME NEW s \in Sessions, Vanish(s)
      PROVE  LeaseInv'
  BY <1>4 DEF Vanish
<1>5. CASE Tick
  <2>1. TypeOK' /\ KeyIffTtl'
    BY <1>5 DEF Tick
  <2>2. ASSUME NEW t \in Sessions, lease'[t] > 0
        PROVE  /\ editing'[t] \in Resources
               /\ holder'[editing'[t]] = UserOf[t]
               /\ lease'[t] <= ttl'[editing'[t]]
    <3>1. /\ lease[t] > 1 /\ lease'[t] = lease[t] - 1
          /\ editing'[t] = editing[t]
      BY <1>5, <2>2 DEF Tick
    <3>2. /\ editing[t] \in Resources
          /\ ttl[editing[t]] > 1
          /\ ttl'[editing[t]] = ttl[editing[t]] - 1
          /\ holder'[editing[t]] = holder[editing[t]]
      BY <1>5, <3>1 DEF Tick
    <3>3. QED
      BY <3>1, <3>2
  <2>3. QED
    BY <2>1, <2>2
<1>6. CASE UNCHANGED vars
  BY <1>6 DEF vars
<1>7. QED
  BY <1>1, <1>2, <1>3, <1>4, <1>5, <1>6 DEF Next

-----------------------------------------------------------------------------
\* Whatever the users and their sessions do, the variables keep their types
\* and a key exists exactly while its time to live runs: no command of the
\* service leaves a key without an expiry, or an expiry without a key.
THEOREM Typing == Spec => [](TypeOK /\ KeyIffTtl)
<1> USE EditLockAssumption DEF TypeOK, KeyIffTtl
<1>1. Init => TypeOK /\ KeyIffTtl
  BY DEF Init
<1>2. TypeOK /\ KeyIffTtl /\ [Next]_vars => (TypeOK /\ KeyIffTtl)'
  <2> SUFFICES ASSUME TypeOK, KeyIffTtl, [Next]_vars
               PROVE  (TypeOK /\ KeyIffTtl)'
    OBVIOUS
  <2>1. ASSUME NEW s \in Sessions, NEW r \in Resources, Open(s, r)
        PROVE  (TypeOK /\ KeyIffTtl)'
    BY <2>1 DEF Open, SetNX
  <2>2. ASSUME NEW s \in Sessions, Heartbeat(s)
        PROVE  (TypeOK /\ KeyIffTtl)'
    BY <2>2 DEF Heartbeat, ExtendIfOwner
  <2>3. ASSUME NEW s \in Sessions, Close(s)
        PROVE  (TypeOK /\ KeyIffTtl)'
    BY <2>3 DEF Close, DeleteIfOwner
  <2>4. ASSUME NEW s \in Sessions, Vanish(s)
        PROVE  (TypeOK /\ KeyIffTtl)'
    BY <2>4 DEF Vanish
  <2>5. CASE Tick
    BY <2>5 DEF Tick
  <2>6. CASE UNCHANGED vars
    BY <2>6 DEF vars
  <2>7. QED
    BY <2>1, <2>2, <2>3, <2>4, <2>5, <2>6 DEF Next
<1>3. QED
  BY <1>1, <1>2, PTL DEF Spec

\* A session that acquired or renewed its lock less than a time to live ago
\* is still the holder, provided no user edits in two sessions at once: the
\* late release, heartbeat or expiry of another session never takes the
\* lock away from it.
THEOREM LeaseIsHonoured == OneSessionPerUser => (Spec => []LeaseHonoured)
<1> SUFFICES ASSUME OneSessionPerUser
             PROVE  Spec => []LeaseHonoured
  OBVIOUS
<1>1. LeaseInv /\ [Next]_vars => LeaseInv'
  BY NextLeaseInv
<1>2. LeaseInv => LeaseHonoured
  BY DEF LeaseInv, LeaseHonoured
<1>3. QED
  BY InitLeaseInv, <1>1, <1>2, PTL DEF Spec

\* Hence two sessions never edit the same record under live leases.
THEOREM OneEditorAtATime == OneSessionPerUser => (Spec => []OneLiveEditor)
<1> SUFFICES ASSUME OneSessionPerUser
             PROVE  Spec => []OneLiveEditor
  OBVIOUS
<1>1. LeaseInv /\ [Next]_vars => LeaseInv'
  BY NextLeaseInv
<1>2. LeaseInv => OneLiveEditor
  BY DEF LeaseInv, OneLiveEditor, OneSessionPerUser
<1>3. QED
  BY InitLeaseInv, <1>1, <1>2, PTL DEF Spec

-----------------------------------------------------------------------------
\* The service with its clock implements the lock without one: opening is a
\* Take, closing a GiveUp, a tick the lapse of the keys whose time is up,
\* and every other step leaves the holders alone.
THEOREM ImplementsLeaseLock == Spec => LeaseLockSpec
<1>1. Init => Lease!LockInit
  BY DEF Init, Lease!LockInit
<1>2. TypeOK /\ KeyIffTtl /\ [Next]_vars => [Lease!LockNext]_holder
  <2> SUFFICES ASSUME TypeOK, KeyIffTtl, [Next]_vars
               PROVE  Lease!LockNext \/ UNCHANGED holder
    OBVIOUS
  <2> USE EditLockAssumption DEF TypeOK
  <2>1. ASSUME NEW s \in Sessions, NEW r \in Resources, Open(s, r)
        PROVE  Lease!Take(UserOf[s], r)
    BY <2>1 DEF Open, SetNX, Lease!Take
  <2>2. ASSUME NEW s \in Sessions, Heartbeat(s)
        PROVE  UNCHANGED holder
    BY <2>2 DEF Heartbeat, ExtendIfOwner
  <2>3. ASSUME NEW s \in Sessions, Close(s)
        PROVE  editing[s] \in Resources /\ Lease!GiveUp(UserOf[s], editing[s])
    <3>1. editing[s] \in Resources /\ DeleteIfOwner(UserOf[s], editing[s])
      BY <2>3 DEF Close
    <3>2. CASE holder[editing[s]] = UserOf[s]
      BY <3>1, <3>2 DEF DeleteIfOwner, Lease!GiveUp
    <3>3. CASE holder[editing[s]] # UserOf[s]
      BY <3>1, <3>3 DEF DeleteIfOwner, Lease!GiveUp
    <3>4. QED
      BY <3>1, <3>2, <3>3
  <2>4. ASSUME NEW s \in Sessions, Vanish(s)
        PROVE  UNCHANGED holder
    BY <2>4 DEF Vanish
  <2>5. ASSUME Tick
        PROVE  Lease!Lapse({r \in Resources : ttl[r] = 1})
    BY <2>5 DEF Tick, Lease!Lapse
  <2>6. QED
    BY <2>1, <2>2, <2>3, <2>4, <2>5 DEF Next, vars, Lease!LockNext
<1>3. QED
  BY <1>1, <1>2, Typing, PTL DEF Spec, LeaseLockSpec, Lease!LockSpec

-----------------------------------------------------------------------------
(* The registered schedulers.                                              *)

\* What a syncAll that no other call overlaps has read is still true, and
\* what it has not removed or upserted yet is all that is left to do.
LoneSyncKnows ==
    \A s \in alone :
        /\ \A r \in Slots \ {s} : ~Writing(r)
        /\ req[s].op = "list" => req[s].desired = Desired
        /\ req[s].op = "apply" =>
              /\ req[s].stale \cap Desired = {} /\ req[s].todo \subseteq Desired
              /\ \A k \in Schedules \ (Desired \cup req[s].stale) : registered[k] = None
              /\ \A k \in Desired \ req[s].todo : registered[k] = CronPattern(k)

\* Nothing else than a schedule's own pattern is registered for it.
OwnPatterns == \A k \in Schedules : registered[k] \in {CronPattern(k), None}

PanelInv == PanelTypeOK /\ OwnPatterns /\ LoneSyncKnows

-----------------------------------------------------------------------------
(* The arithmetic.                                                         *)

LEMMA RemainderIsCongruent ==
  ASSUME NEW a \in Int
  PROVE  /\ Remainder(a, 1440) \in Int /\ Remainder(a, 1440) > -1440
         /\ \E q \in Int : Remainder(a, 1440) = a + 1440 * q
<1>1. CASE a >= 0
  <2>1. Remainder(a, 1440) = a % 1440 /\ a = 1440 * (a \div 1440) + (a % 1440)
        /\ a % 1440 \in 0..1439
    BY <1>1 DEF Remainder
  <2> DEFINE q == -(a \div 1440)
  <2>2. q \in Int /\ Remainder(a, 1440) = a + 1440 * q
    BY <2>1
  <2>3. Remainder(a, 1440) \in Int /\ Remainder(a, 1440) > -1440
    BY <2>1
  <2> HIDE DEF q
  <2> QED
    BY <2>2, <2>3
<1>2. CASE a < 0
  <2>1. Remainder(a, 1440) = -((-a) % 1440)
    BY <1>2 DEF Remainder
  <2>2. -a = 1440 * ((-a) \div 1440) + ((-a) % 1440) /\ (-a) % 1440 \in 0..1439
        /\ (-a) \div 1440 \in Int
    BY <1>2
  <2> DEFINE q == (-a) \div 1440
  <2>3. q \in Int /\ Remainder(a, 1440) = a + 1440 * q
    BY <2>1, <2>2
  <2>4. Remainder(a, 1440) \in Int /\ Remainder(a, 1440) > -1440
    BY <2>1, <2>2
  <2> HIDE DEF q
  <2> QED
    BY <2>3, <2>4
<1> QED
  BY <1>1, <1>2

LEMMA WrappedMinutes ==
  ASSUME NEW a \in Int
  PROVE  Wrapped(a) \in 0..1439 /\ (Wrapped(a) - a) % 1440 = 0
<1> DEFINE rest == Remainder(a, 1440)
<1>1. PICK q \in Int : rest = a + 1440 * q
  BY RemainderIsCongruent
<1>2. rest \in Int /\ rest > -1440
  BY RemainderIsCongruent
<1>3. Wrapped(a) = Remainder(rest + 1440, 1440)
  BY DEF Wrapped
<1> HIDE DEF rest
<1>4. Wrapped(a) = (rest + 1440) % 1440
  BY <1>2, <1>3 DEF Remainder
<1>5. /\ Wrapped(a) = rest + 1440 - (1440 * ((rest + 1440) \div 1440))
      /\ Wrapped(a) \in 0..1439 /\ (rest + 1440) \div 1440 \in Int
  BY <1>2, <1>4
<1> DEFINE r == q + 1 - ((rest + 1440) \div 1440)
<1>6. r \in Int /\ Wrapped(a) = a + 1440 * r
  BY <1>1, <1>2, <1>5
<1> HIDE DEF r
<1>7. (Wrapped(a) - a) % 1440 = 0
  BY <1>6
<1> QED
  BY <1>5, <1>7

\* A minute of the day, for every time of the day and every offset, also
\* negative ones and those of several days: the hour and the minute are in
\* range and make up the time plus the offset, modulo a day.
THEOREM StaggeredPatternIsTimeOfDay ==
  ASSUME NEW hour \in 0..23, NEW minute \in 0..59, NEW offset \in Int
  PROVE  /\ StaggeredPattern(hour, minute, offset) \in Patterns
         /\ SameTimeOfDay(60 * StaggeredPattern(hour, minute, offset).hour
                             + StaggeredPattern(hour, minute, offset).minute,
                          TotalMinutes(hour, minute, offset))
<1>1. PICK total \in Int : total = TotalMinutes(hour, minute, offset)
  BY DEF TotalMinutes
<1> DEFINE wrapped == Wrapped(total)
           p == StaggeredPattern(hour, minute, offset)
<1>2. p = [hour |-> wrapped \div 60, minute |-> wrapped % 60]
  BY <1>1 DEF StaggeredPattern, PatternOf
<1>3. wrapped \in 0..1439 /\ (wrapped - total) % 1440 = 0
  BY WrappedMinutes
<1> HIDE DEF wrapped, p
<1>4. p.hour \in 0..23 /\ p.minute \in 0..59 /\ 60 * p.hour + p.minute = wrapped
  BY <1>2, <1>3
<1>5. p \in Patterns
  BY <1>2, <1>4 DEF Patterns
<1>7. SameTimeOfDay(60 * p.hour + p.minute, total)
  BY <1>3, <1>4 DEF SameTimeOfDay
<1> QED
  BY <1>1, <1>5, <1>7 DEF p

LEMMA CronPatternInRange ==
  ASSUME NEW k \in Schedules
  PROVE  /\ CronPattern(k) \in Patterns
         /\ SameTimeOfDay(60 * CronPattern(k).hour + CronPattern(k).minute,
                          TotalMinutes(BaseHour[JobOf[k]], BaseMinute[JobOf[k]], Offset[k]))
<1>1. BaseHour[JobOf[k]] \in 0..23 /\ BaseMinute[JobOf[k]] \in 0..59 /\ Offset[k] \in Int
  BY JobSchedulerAssumption
<1> QED
  BY <1>1, StaggeredPatternIsTimeOfDay DEF CronPattern

-----------------------------------------------------------------------------
LEMMA CallFields ==
  ASSUME NEW s \in Slots, req \in [Slots -> Call \cup {Idle}]
  PROVE  /\ req[s].op = "toggle" => req[s].target \in Targets /\ req[s].value \in BOOLEAN
         /\ req[s].op = "list" => req[s].desired \subseteq Schedules
         /\ req[s].op = "apply" =>
              /\ req[s] = [op |-> "apply", stale |-> req[s].stale, todo |-> req[s].todo]
              /\ req[s].stale \subseteq Schedules /\ req[s].todo \subseteq Schedules
         /\ req[s].op = "show" => req[s].flags \in Flags
  BY DEF Call, Idle

LEMMA DesiredIsSchedules == Desired \subseteq Schedules
  BY DEF Desired

LEMMA PanelInitInv == PanelInit => PanelInv
<1> SUFFICES ASSUME PanelInit PROVE PanelInv
  OBVIOUS
<1>1. PanelTypeOK
  BY JobSchedulerAssumption DEF PanelInit, PanelTypeOK, Slots, Call, Idle
<1>2. OwnPatterns /\ LoneSyncKnows
  BY DEF PanelInit, OwnPatterns, LoneSyncKnows
<1> QED
  BY <1>1, <1>2 DEF PanelInv

LEMMA PanelTyping ==
  ASSUME PanelTypeOK, [PanelNext]_panel
  PROVE  PanelTypeOK'
<1> USE DEF PanelTypeOK
<1>1. ASSUME NEW s \in Slots, OpenPage(s) PROVE PanelTypeOK'
  BY <1>1 DEF OpenPage, Goto, Call
<1>2. ASSUME NEW s \in Slots, NEW t \in Targets, Click(s, t) PROVE PanelTypeOK'
  <2>1. shown \in Flags /\ (~shown[t]) \in BOOLEAN
    BY <1>2 DEF Click, Flags
  <2>2. [op |-> "toggle", target |-> t, value |-> ~shown[t]] \in Call
    BY <2>1 DEF Call
  <2> QED
    BY <1>2, <2>2 DEF Click, Goto
<1>3. ASSUME NEW s \in Slots, SaveToggle(s) PROVE PanelTypeOK'
  BY <1>3, CallFields DEF SaveToggle, Goto, Call, Flags
<1>4. ASSUME NEW s \in Slots, ReadDefinitions(s) PROVE PanelTypeOK'
  BY <1>4, DesiredIsSchedules DEF ReadDefinitions, Goto, Call
<1>5. ASSUME NEW s \in Slots, ReadSchedulers(s) PROVE PanelTypeOK'
  <2>0. req[s].desired \subseteq Schedules
    BY <1>5, CallFields DEF ReadSchedulers
  <2>1. [op |-> "apply", todo |-> req[s].desired,
         stale |-> {k \in Schedules : registered[k] # None} \ req[s].desired] \in Call
    BY <2>0 DEF Call
  <2> QED
    BY <1>5, <2>1 DEF ReadSchedulers, Goto
<1>6. ASSUME NEW s \in Slots, NEW k \in Schedules, RemoveStale(s, k) \/ Upsert(s, k)
      PROVE  PanelTypeOK'
  <2>1. req[s] = [op |-> "apply", stale |-> req[s].stale, todo |-> req[s].todo]
        /\ req[s].stale \subseteq Schedules /\ req[s].todo \subseteq Schedules
    BY <1>6, CallFields DEF RemoveStale, Upsert
  <2>2. [req[s] EXCEPT !.stale = @ \ {k}] \in Call /\ [req[s] EXCEPT !.todo = @ \ {k}] \in Call
    BY <2>1 DEF Call
  <2>3. req' \in [Slots -> Call \cup {Idle}]
    BY <1>6, <2>2 DEF RemoveStale, Upsert, Goto
  <2>4. registered' \in [Schedules -> Patterns \cup {None}]
    BY <1>6, CronPatternInRange DEF RemoveStale, Upsert
  <2> QED
    BY <1>6, <2>3, <2>4 DEF RemoveStale, Upsert
<1>7. ASSUME NEW s \in Slots, Synced(s) PROVE PanelTypeOK'
  BY <1>7 DEF Synced, Goto, Call
<1>8. ASSUME NEW s \in Slots, LoadJobs(s) \/ SetJobs(s) PROVE PanelTypeOK'
  <2>1. CASE LoadJobs(s)
    BY <2>1 DEF LoadJobs, Goto, Call
  <2>2. CASE SetJobs(s)
    BY <2>2, CallFields DEF SetJobs, Goto
  <2> QED
    BY <1>8, <2>1, <2>2
<1>9. ASSUME NEW s \in Slots, Fail(s) PROVE PanelTypeOK'
  BY <1>9 DEF Fail, Goto
<1>10. ASSUME Crash PROVE PanelTypeOK'
  BY <1>10, JobSchedulerAssumption DEF Crash
<1>11. ASSUME Restart PROVE PanelTypeOK'
  BY <1>11 DEF Restart, Goto, Call
<1>12. CASE UNCHANGED panel
  BY <1>12 DEF panel
<1> QED
  BY <1>1, <1>2, <1>3, <1>4, <1>5, <1>6, <1>7, <1>8, <1>9, <1>10, <1>11, <1>12
  DEF PanelNext, CallStep, SyncStep

-----------------------------------------------------------------------------
LEMMA OwnPatternsKept ==
  ASSUME PanelTypeOK, OwnPatterns, [PanelNext]_panel
  PROVE  OwnPatterns'
<1>1. ASSUME NEW s \in Slots, NEW k \in Schedules, RemoveStale(s, k) \/ Upsert(s, k)
      PROVE  OwnPatterns'
  BY <1>1 DEF PanelTypeOK, OwnPatterns, RemoveStale, Upsert
<1>2. CASE UNCHANGED registered
  BY <1>2 DEF OwnPatterns
<1> QED
  BY <1>1, <1>2 DEF PanelNext, CallStep, SyncStep, OpenPage, Click, SaveToggle, ReadDefinitions,
     ReadSchedulers, Synced, LoadJobs, SetJobs, Fail, Crash, Restart, panel

\* A step that leaves the flags, the schedulers and `alone` as they are, and
\* changes no call to or from writing, keeps what a lone syncAll knows.
LEMMA LoneSyncFrame ==
  ASSUME LoneSyncKnows, UNCHANGED <<enabled, registered>>, alone' \subseteq alone,
         \A r \in Slots : \/ req'[r] = req[r]
                          \/ req'[r].op \notin {"toggle", "sync", "list", "apply"}
         , alone \subseteq Slots
  PROVE  LoneSyncKnows'
<1>1. Desired' = Desired
  BY DEF Desired
<1>2. ASSUME NEW r \in Slots, Writing(r)' PROVE req'[r] = req[r] /\ Writing(r)
  BY <1>2 DEF Writing
<1>3. ASSUME NEW s \in alone'
      PROVE  /\ \A r \in Slots \ {s} : ~Writing(r)'
             /\ req'[s].op = "list" => req'[s].desired = Desired'
             /\ req'[s].op = "apply" =>
                   /\ req'[s].stale \cap Desired' = {} /\ req'[s].todo \subseteq Desired'
                   /\ \A k \in Schedules \ (Desired' \cup req'[s].stale) : registered'[k] = None
                   /\ \A k \in Desired' \ req'[s].todo : registered'[k] = CronPattern(k)
  <2>1. s \in alone /\ s \in Slots
    BY <1>3
  <2>2. \A r \in Slots \ {s} : ~Writing(r)'
    BY <1>2, <2>1 DEF LoneSyncKnows
  <2>3. req'[s].op \in {"list", "apply"} => req'[s] = req[s]
    BY <2>1
  <2> QED
    BY <1>1, <2>1, <2>2, <2>3 DEF LoneSyncKnows
<1> QED
  BY <1>3 DEF LoneSyncKnows, Writing

LEMMA LoneSyncKept ==
  ASSUME PanelTypeOK, LoneSyncKnows, [PanelNext]_panel
  PROVE  LoneSyncKnows'
<1> USE DEF PanelTypeOK
<1>1. ASSUME NEW s \in Slots, OpenPage(s) \/ LoadJobs(s) \/ SetJobs(s) \/ Fail(s) \/ Synced(s)
      PROVE  LoneSyncKnows'
  <2>1. /\ UNCHANGED <<enabled, registered>> /\ alone' \subseteq alone
        /\ \A r \in Slots : \/ req'[r] = req[r]
                            \/ req'[r].op \notin {"toggle", "sync", "list", "apply"}
    BY <1>1 DEF OpenPage, LoadJobs, SetJobs, Fail, Synced, Goto, Idle
  <2> QED
    BY <2>1, LoneSyncFrame
<1>2. ASSUME NEW s \in Slots, NEW t \in Targets, Click(s, t) PROVE LoneSyncKnows'
  BY <1>2 DEF Click, LoneSyncKnows
<1>3. ASSUME NEW s \in Slots, SaveToggle(s) PROVE LoneSyncKnows'
  <2>1. Writing(s) /\ req'[s].op = "sync" /\ alone' = alone
        /\ \A r \in Slots \ {s} : req'[r] = req[r]
    BY <1>3 DEF SaveToggle, Goto, Writing
  <2>2. \A a \in alone : a = s
    BY <2>1 DEF LoneSyncKnows
  <2> QED
    BY <2>1, <2>2 DEF LoneSyncKnows, Writing
<1>4. ASSUME NEW s \in Slots, ReadDefinitions(s) PROVE LoneSyncKnows'
  <2>1. CASE \E r \in Slots \ {s} : Writing(r)
    BY <1>4, <2>1 DEF ReadDefinitions, LoneSyncKnows
  <2>2. CASE ~\E r \in Slots \ {s} : Writing(r)
    <3>1. alone' = {s} /\ req'[s] = [op |-> "list", desired |-> Desired] /\ Desired' = Desired
          /\ \A r \in Slots \ {s} : req'[r] = req[r]
      BY <1>4, <2>2 DEF ReadDefinitions, Goto, Desired
    <3> QED
      BY <2>2, <3>1 DEF LoneSyncKnows, Writing
  <2> QED
    BY <2>1, <2>2
<1>5. ASSUME NEW s \in Slots, ReadSchedulers(s) PROVE LoneSyncKnows'
  <2>1. /\ req'[s] = [op |-> "apply", todo |-> req[s].desired,
                      stale |-> {k \in Schedules : registered[k] # None} \ req[s].desired]
        /\ UNCHANGED <<enabled, registered, alone>> /\ Desired' = Desired
        /\ \A r \in Slots \ {s} : req'[r] = req[r]
        /\ Writing(s)
    BY <1>5 DEF ReadSchedulers, Goto, Desired, Writing
  <2>2. \A a \in alone : a = s
    BY <2>1 DEF LoneSyncKnows
  <2>3. s \in alone => req[s].desired = Desired
    BY <1>5 DEF ReadSchedulers, LoneSyncKnows
  <2> QED
    BY <2>1, <2>2, <2>3 DEF LoneSyncKnows, Writing
<1>6. ASSUME NEW s \in Slots, NEW k \in Schedules, RemoveStale(s, k) \/ Upsert(s, k)
      PROVE  LoneSyncKnows'
  <2>1. /\ UNCHANGED <<enabled, alone>> /\ Desired' = Desired
        /\ \A r \in Slots \ {s} : req'[r] = req[r]
        /\ Writing(s)
    BY <1>6 DEF RemoveStale, Upsert, Goto, Desired, Writing
  <2>2. \A a \in alone : a = s
    BY <2>1 DEF LoneSyncKnows
  <2>3. req[s] = [op |-> "apply", stale |-> req[s].stale, todo |-> req[s].todo]
    BY <1>6, CallFields DEF RemoveStale, Upsert
  <2>4. CASE RemoveStale(s, k)
    <3>1. req'[s] = [op |-> "apply", stale |-> req[s].stale \ {k}, todo |-> req[s].todo]
          /\ registered' = [registered EXCEPT ![k] = None] /\ k \in req[s].stale
      BY <2>3, <2>4 DEF RemoveStale, Goto
    <3> QED
      BY <2>1, <2>2, <2>3, <3>1 DEF LoneSyncKnows, Writing
  <2>5. CASE Upsert(s, k)
    <3>1. req'[s] = [op |-> "apply", stale |-> req[s].stale, todo |-> req[s].todo \ {k}]
          /\ registered' = [registered EXCEPT ![k] = CronPattern(k)]
          /\ k \in req[s].todo /\ req[s].op = "apply"
      BY <2>3, <2>5 DEF Upsert, Goto
    <3>2. ASSUME s \in alone
          PROVE  /\ req'[s].stale \cap Desired = {} /\ req'[s].todo \subseteq Desired
                 /\ \A l \in Schedules \ (Desired \cup req'[s].stale) : registered'[l] = None
                 /\ \A l \in Desired \ req'[s].todo : registered'[l] = CronPattern(l)
      <4>1. k \in Desired /\ Desired \subseteq Schedules
        BY <3>1, <3>2, DesiredIsSchedules DEF LoneSyncKnows
      <4> QED
        BY <3>1, <3>2, <4>1 DEF LoneSyncKnows
    <3> QED
      BY <2>1, <2>2, <3>1, <3>2 DEF LoneSyncKnows, Writing
  <2> QED
    BY <1>6, <2>4, <2>5
<1>7. CASE Crash
  BY <1>7 DEF Crash, LoneSyncKnows
<1>8. CASE Restart
  BY <1>8 DEF Restart, LoneSyncKnows
<1>9. CASE UNCHANGED panel
  <2>1. /\ UNCHANGED <<enabled, registered>> /\ alone' \subseteq alone
        /\ \A r \in Slots : \/ req'[r] = req[r]
                            \/ req'[r].op \notin {"toggle", "sync", "list", "apply"}
    BY <1>9 DEF panel
  <2> QED
    BY <2>1, LoneSyncFrame
<1>10. ASSUME NEW s \in Slots,
              OpenPage(s) \/ (\E t \in Targets : Click(s, t)) \/ CallStep(s) \/ Fail(s)
       PROVE  LoneSyncKnows'
  <2>1. CASE OpenPage(s) \/ LoadJobs(s) \/ SetJobs(s) \/ Fail(s) \/ Synced(s)
    BY <1>1, <2>1
  <2>2. CASE \E t \in Targets : Click(s, t)
    BY <1>2, <2>2
  <2>3. CASE SaveToggle(s) \/ ReadDefinitions(s) \/ ReadSchedulers(s)
    BY <1>3, <1>4, <1>5, <2>3
  <2>4. CASE \E k \in Schedules : RemoveStale(s, k) \/ Upsert(s, k)
    BY <1>6, <2>4
  <2> QED
    BY <1>10, <2>1, <2>2, <2>3, <2>4 DEF CallStep, SyncStep
<1> QED
  BY <1>7, <1>8, <1>9, <1>10 DEF PanelNext

-----------------------------------------------------------------------------
THEOREM PanelInvariant == PanelSpec => []PanelInv
<1>1. PanelInv /\ [PanelNext]_panel => PanelInv'
  BY PanelTyping, OwnPatternsKept, LoneSyncKept DEF PanelInv
<1> QED
  BY PanelInitInv, <1>1, PTL DEF PanelSpec

\* Whatever earlier toggles, failures and crashes left behind, a syncAll that
\* no other toggle overlaps leaves exactly the enabled schedules registered.
THEOREM LoneSyncAllSettles == PanelSpec => []LoneSyncSettles
<1>1. PanelInv => LoneSyncSettles
  <2> SUFFICES ASSUME PanelInv, NEW s \in alone, Applied(s), NEW k \in Schedules
               PROVE  registered[k] = IF k \in Desired THEN CronPattern(k) ELSE None
    BY DEF LoneSyncSettles, InStep
  <2> QED
    BY DEF PanelInv, LoneSyncKnows, Applied
<1> QED
  BY PanelInvariant, <1>1, PTL

\* Every registered pattern is a time of the day, that of its job plus the
\* offset of the tenant.
THEOREM RegisteredPatternsStagger == PanelSpec => []PatternsStagger
<1>1. PanelInv => PatternsStagger
  BY CronPatternInRange DEF PanelInv, OwnPatterns, PatternsStagger
<1> QED
  BY PanelInvariant, <1>1, PTL
-----------------------------------------------------------------------------
(* The runs of the jobs.                                                   *)

Holding(w) == worker[w].at \in {"running", "caught", "return", "throw"}

\* A call that has created its row keeps it to itself, and answers only after the
\* row says so.
RowsAreOwn ==
    \A w \in Workers : Holding(w) =>
        /\ rows[worker[w].row] # NoRun /\ rows[worker[w].row].job = worker[w].job
        /\ worker[w].at = "return" => rows[worker[w].row].status = "success"
        /\ \A v \in Workers : Holding(v) /\ worker[v].row = worker[w].row => v = w

Found(f) == {w \in Workers : worker[w].at = "found" /\ worker[w].job = f}

\* A delivery to come, a delivery without a row, and a row are one delivery each.
DeliveriesAreBounded ==
    \A f \in Firings :
        Cardinality(RunsOf(f)) + Cardinality(Found(f))
            + (IF jobs[f].state \in {"none", "waiting"} THEN 1 ELSE 0) <= 1 + jobs[f].stalls

\* The success of a job that is done is not written again.
SuccessStays ==
    \A f \in Firings : jobs[f].state = "done" =>
        \E r \in RunsOf(f) :
            /\ rows[r].status = "success"
            /\ \A w \in Workers : Holding(w) => worker[w].row # r

RunsInv == RunsTypeOK /\ RowsAreOwn /\ DeliveriesAreBounded /\ SuccessStays

LEMMA RunFieldTypes ==
  ASSUME RunsTypeOK
  PROVE  /\ \A f \in Firings :
               /\ jobs[f] \in Job /\ jobs[f].owner \in Workers \cup {None} /\ jobs[f].stalls \in 0..1
               /\ jobs[f].state \in {"none", "waiting", "active", "done", "failed"}
               /\ jobs[f] = [state |-> jobs[f].state, owner |-> jobs[f].owner, stalls |-> jobs[f].stalls]
         /\ \A w \in Workers :
               /\ worker[w].at \in {"free", "found", "running", "caught", "return", "throw"}
               /\ worker[w].at = "free" => worker[w] = Free
               /\ worker[w].at # "free" => worker[w].job \in Firings
               /\ Holding(w) => worker[w].row \in Rows
         /\ \A r \in Rows : rows[r] # NoRun =>
               /\ rows[r].job \in Firings /\ rows[r].status \in {"running", "success", "failure"}
               /\ rows[r] = [status |-> rows[r].status, job |-> rows[r].job]
BY DEF RunsTypeOK, Job, NoRun, Free, Holding

LEMMA JobUpdate ==
  ASSUME RunsTypeOK, NEW f \in Firings, NEW st, NEW own, SetJob(f, st, own)
  PROVE  jobs' = [jobs EXCEPT ![f] = [state |-> st, owner |-> own, stalls |-> jobs[f].stalls]]
<1>1. PICK j \in Job : j = jobs[f]
  BY DEF RunsTypeOK
<1>2. j = [state |-> j.state, owner |-> j.owner, stalls |-> j.stalls]
  BY DEF Job
<1>3. [j EXCEPT !.state = st] = [state |-> st, owner |-> j.owner, stalls |-> j.stalls]
  BY <1>2
<1>4. [j EXCEPT !.state = st, !.owner = own] = [state |-> st, owner |-> own, stalls |-> j.stalls]
  <2>1. [j EXCEPT !.state = st, !.owner = own] = [[j EXCEPT !.state = st] EXCEPT !.owner = own]
    OBVIOUS
  <2>2. [[state |-> st, owner |-> j.owner, stalls |-> j.stalls] EXCEPT !.owner = own]
           = [state |-> st, owner |-> own, stalls |-> j.stalls]
    OBVIOUS
  <2> QED
    BY <1>3, <2>1, <2>2, Zenon
<1>5. jobs' = [jobs EXCEPT ![f] = [j EXCEPT !.state = st, !.owner = own]]
  <2>1. f \in DOMAIN jobs
    BY DEF RunsTypeOK
  <2> QED
    BY <1>1, <2>1 DEF SetJob
<1> QED
  BY <1>1, <1>4, <1>5, Zenon

LEMMA RunCounts ==
  ASSUME NEW f
  PROVE  /\ IsFiniteSet(RunsOf(f)) /\ Cardinality(RunsOf(f)) \in Nat
         /\ IsFiniteSet(Found(f)) /\ Cardinality(Found(f)) \in Nat
BY JobRunsAssumption, FS_Subset, FS_CardinalityType DEF RunsOf, Found

LEMMA InitRunsInv == JobsInit => RunsInv
<1> SUFFICES ASSUME JobsInit PROVE RunsInv
  OBVIOUS
<1>1. PanelTypeOK
  BY PanelInitInv DEF JobsInit, PanelInv
<1>2. RunsTypeOK
  BY <1>1 DEF JobsInit, RunsTypeOK, Job
<1>3. \A f : RunsOf(f) = {} /\ Found(f) = {}
  BY DEF JobsInit, RunsOf, Found, Free
<1>4. RowsAreOwn /\ SuccessStays
  BY DEF JobsInit, RowsAreOwn, Holding, Free, SuccessStays
<1>5. DeliveriesAreBounded
  BY <1>3, FS_EmptySet DEF JobsInit, DeliveriesAreBounded
<1> QED
  BY <1>2, <1>4, <1>5 DEF RunsInv

\* The worker w goes on to c without a row, or stays with its own.
LEMMA WorkerGoesOn ==
  ASSUME RunsTypeOK, NEW w \in Workers, NEW c, worker' = [worker EXCEPT ![w] = c],
         c \in [at : {"found"}, job : Firings] \cup {Free}
                  \cup [at : {"running", "caught", "return", "throw"}, job : Firings, row : Rows]
  PROVE  /\ worker' \in [Workers -> [at : {"found"}, job : Firings] \cup {Free}
                  \cup [at : {"running", "caught", "return", "throw"}, job : Firings, row : Rows]]
         /\ worker'[w] = c /\ \A v \in Workers : v # w => worker'[v] = worker[v]
BY DEF RunsTypeOK

\* Jobs that are not delivered anew and workers that are rid of theirs.
LEMMA RunsShrink ==
  ASSUME RunsInv, RunsTypeOK', rows' = rows,
         \A w \in Workers : worker'[w] = worker[w] \/ worker'[w] = Free,
         \A f \in Firings :
            /\ jobs'[f].stalls = jobs[f].stalls
            /\ jobs'[f].state \in {"none", "waiting"} => jobs[f].state \in {"none", "waiting"}
            /\ jobs'[f].state = "done" =>
                  \/ jobs[f].state = "done"
                  \/ \E w \in Workers : /\ worker[w].at = "return" /\ worker[w].job = f
                                        /\ worker'[w] = Free
  PROVE  RunsInv'
<1>1. \A w \in Workers : worker'[w].at # "free" => worker'[w] = worker[w]
  BY DEF Free
<1>2. RowsAreOwn'
  BY <1>1 DEF RunsInv, RowsAreOwn, Holding
<1>3. DeliveriesAreBounded'
  <2> SUFFICES ASSUME NEW f \in Firings
               PROVE  Cardinality(RunsOf(f)') + Cardinality(Found(f)')
                        + (IF jobs'[f].state \in {"none", "waiting"} THEN 1 ELSE 0) <= 1 + jobs'[f].stalls
    BY DEF DeliveriesAreBounded
  <2>1. RunsOf(f)' = RunsOf(f)
    BY DEF RunsOf
  <2>2. Found(f)' \subseteq Found(f)
    BY <1>1 DEF Found
  <2>3. Cardinality(Found(f)') <= Cardinality(Found(f)) /\ Cardinality(Found(f)') \in Nat
    BY <2>2, RunCounts, FS_Subset, FS_CardinalityType
  <2>4. Cardinality(RunsOf(f)) \in Nat /\ Cardinality(Found(f)) \in Nat /\ jobs[f].stalls \in 0..1
    BY RunCounts, RunFieldTypes DEF RunsInv
  <2>5. Cardinality(RunsOf(f)) + Cardinality(Found(f))
            + (IF jobs[f].state \in {"none", "waiting"} THEN 1 ELSE 0) <= 1 + jobs[f].stalls
    BY DEF RunsInv, DeliveriesAreBounded
  <2> QED
    BY <2>1, <2>3, <2>4, <2>5
<1>4. SuccessStays'
  <2> SUFFICES ASSUME NEW f \in Firings, jobs'[f].state = "done"
               PROVE  \E r \in RunsOf(f) :
                         /\ rows[r].status = "success"
                         /\ \A v \in Workers : Holding(v)' => worker'[v].row # r
    BY DEF SuccessStays, RunsOf
  <2>1. CASE jobs[f].state = "done"
    BY <1>1, <2>1 DEF RunsInv, SuccessStays, Holding
  <2>2. ASSUME NEW w \in Workers, worker[w].at = "return", worker[w].job = f, worker'[w] = Free
        PROVE  \E r \in RunsOf(f) :
                  /\ rows[r].status = "success"
                  /\ \A v \in Workers : Holding(v)' => worker'[v].row # r
    <3>1. Holding(w) /\ worker[w].row \in Rows
      BY <2>2, RunFieldTypes DEF Holding, RunsInv
    <3>2. worker[w].row \in RunsOf(f) /\ rows[worker[w].row].status = "success"
      BY <2>2, <3>1 DEF RunsInv, RowsAreOwn, RunsOf
    <3>3. \A v \in Workers : Holding(v)' => worker'[v] = worker[v] /\ Holding(v) /\ v # w
      BY <1>1, <2>2 DEF Holding, Free
    <3> QED
      BY <3>1, <3>2, <3>3 DEF RunsInv, RowsAreOwn
  <2> QED
    BY <2>1, <2>2
<1> QED
  BY <1>2, <1>3, <1>4 DEF RunsInv

LEMMA FireInv ==
  ASSUME RunsInv, NEW f \in Firings, NEW k \in Schedules, Fire(f, k)
  PROVE  RunsInv'
<1>1. jobs[f].state = "none" /\ UNCHANGED <<panel, rows, worker>>
  BY DEF Fire
<1>2. jobs' = [jobs EXCEPT ![f] = [state |-> "waiting", owner |-> None, stalls |-> jobs[f].stalls]]
  BY JobUpdate DEF Fire, RunsInv
<1>3. PanelTypeOK'
  BY <1>1 DEF RunsInv, RunsTypeOK, panel, PanelTypeOK
<1>4. RunsTypeOK'
  BY <1>1, <1>2, <1>3, RunFieldTypes DEF RunsInv, RunsTypeOK, Job
<1>5. \A g \in Firings : g # f => jobs'[g] = jobs[g]
  BY <1>2 DEF RunsInv, RunsTypeOK
<1>6. jobs'[f].stalls = jobs[f].stalls /\ jobs'[f].state = "waiting"
  BY <1>2 DEF RunsInv, RunsTypeOK
<1> QED
  BY <1>1, <1>4, <1>5, <1>6, RunsShrink

\* A second delivery is to come, or the job has failed.
LEMMA StallInv ==
  ASSUME RunsInv, NEW f \in Firings, Stall(f)
  PROVE  RunsInv'
<1>1. jobs[f].state = "active" /\ UNCHANGED <<panel, rows, worker>>
  BY DEF Stall
<1>2. jobs[f] \in Job /\ jobs[f].stalls \in 0..1
  BY RunFieldTypes DEF RunsInv
<1>3. /\ jobs' = [jobs EXCEPT ![f] = jobs'[f]] /\ jobs'[f] \in Job
      /\ \/ jobs[f].stalls = 0 /\ jobs'[f].state = "waiting" /\ jobs'[f].stalls = 1
         \/ jobs'[f].state = "failed" /\ jobs'[f].stalls = jobs[f].stalls
  <2>1. CASE jobs[f].stalls = 0
    <3>1. jobs' = [jobs EXCEPT ![f] = [state |-> "waiting", owner |-> None, stalls |-> 1]]
      BY <2>1 DEF Stall
    <3> QED
      BY <2>1, <3>1 DEF RunsInv, RunsTypeOK, Job
  <2>2. CASE jobs[f].stalls # 0
    <3>1. jobs' = [jobs EXCEPT ![f] = [state |-> "failed", owner |-> None, stalls |-> jobs[f].stalls]]
      BY <2>2, JobUpdate DEF Stall, RunsInv
    <3> QED
      BY <1>2, <3>1 DEF RunsInv, RunsTypeOK, Job
  <2> QED
    BY <2>1, <2>2
<1>4. PanelTypeOK'
  BY <1>1 DEF RunsInv, RunsTypeOK, panel, PanelTypeOK
<1>5. RunsTypeOK'
  BY <1>1, <1>3, <1>4 DEF RunsInv, RunsTypeOK
<1>6. \A g \in Firings : g # f => jobs'[g] = jobs[g]
  BY <1>3 DEF RunsInv, RunsTypeOK
<1>7. RowsAreOwn' /\ SuccessStays'
  BY <1>1, <1>3, <1>6 DEF RunsInv, RowsAreOwn, SuccessStays, Holding, RunsOf
<1>8. DeliveriesAreBounded'
  <2> SUFFICES ASSUME NEW g \in Firings
               PROVE  Cardinality(RunsOf(g)) + Cardinality(Found(g))
                        + (IF jobs'[g].state \in {"none", "waiting"} THEN 1 ELSE 0) <= 1 + jobs'[g].stalls
    BY <1>1 DEF DeliveriesAreBounded, RunsOf, Found
  <2>1. Cardinality(RunsOf(g)) + Cardinality(Found(g))
            + (IF jobs[g].state \in {"none", "waiting"} THEN 1 ELSE 0) <= 1 + jobs[g].stalls
    BY DEF RunsInv, DeliveriesAreBounded
  <2>2. Cardinality(RunsOf(g)) \in Nat /\ Cardinality(Found(g)) \in Nat
    BY RunCounts
  <2>3. CASE g = f
    BY <1>1, <1>2, <1>3, <2>1, <2>2, <2>3
  <2>4. CASE g # f
    BY <1>6, <2>1, <2>4
  <2> QED
    BY <2>3, <2>4
<1> QED
  BY <1>5, <1>7, <1>8 DEF RunsInv

LEMMA TakeInv ==
  ASSUME RunsInv, NEW w \in Workers, NEW f \in Firings, Take(w, f)
  PROVE  RunsInv'
<1>1. /\ worker[w] = Free /\ jobs[f].state = "waiting" /\ UNCHANGED <<panel, rows>>
      /\ worker' = [worker EXCEPT ![w] = [at |-> "found", job |-> f]]
  BY DEF Take
<1>2. jobs' = [jobs EXCEPT ![f] = [state |-> "active", owner |-> w, stalls |-> jobs[f].stalls]]
  BY JobUpdate DEF Take, RunsInv
<1>3. PanelTypeOK'
  BY <1>1 DEF RunsInv, RunsTypeOK, panel, PanelTypeOK
<1>4. /\ worker' \in [Workers -> [at : {"found"}, job : Firings] \cup {Free}
                  \cup [at : {"running", "caught", "return", "throw"}, job : Firings, row : Rows]]
      /\ worker'[w] = [at |-> "found", job |-> f]
      /\ \A v \in Workers : v # w => worker'[v] = worker[v]
  BY <1>1, WorkerGoesOn DEF RunsInv
<1>5. RunsTypeOK'
  BY <1>1, <1>2, <1>3, <1>4, RunFieldTypes DEF RunsInv, RunsTypeOK, Job
<1>6. \A g \in Firings : g # f => jobs'[g] = jobs[g]
  BY <1>2 DEF RunsInv, RunsTypeOK
<1>7. jobs'[f].stalls = jobs[f].stalls /\ jobs'[f].state = "active"
  BY <1>2 DEF RunsInv, RunsTypeOK
<1>8. \A v \in Workers : Holding(v)' => v # w /\ Holding(v) /\ worker'[v] = worker[v]
  BY <1>4 DEF Holding
<1>9. RowsAreOwn'
  BY <1>1, <1>8 DEF RunsInv, RowsAreOwn
<1>10. SuccessStays'
  BY <1>1, <1>6, <1>7, <1>8 DEF RunsInv, SuccessStays, RunsOf
<1>11. DeliveriesAreBounded'
  <2> SUFFICES ASSUME NEW g \in Firings
               PROVE  Cardinality(RunsOf(g)) + Cardinality(Found(g)')
                        + (IF jobs'[g].state \in {"none", "waiting"} THEN 1 ELSE 0) <= 1 + jobs'[g].stalls
    BY <1>1 DEF DeliveriesAreBounded, RunsOf
  <2>1. Cardinality(RunsOf(g)) + Cardinality(Found(g))
            + (IF jobs[g].state \in {"none", "waiting"} THEN 1 ELSE 0) <= 1 + jobs[g].stalls
    BY DEF RunsInv, DeliveriesAreBounded
  <2>2. Cardinality(RunsOf(g)) \in Nat /\ Cardinality(Found(g)) \in Nat /\ jobs[g].stalls \in 0..1
    BY RunCounts, RunFieldTypes DEF RunsInv
  <2>3. Found(g)' = IF g = f THEN Found(g) \cup {w} ELSE Found(g)
    BY <1>1, <1>4 DEF Found, Free
  <2>4. CASE g = f
    <3>1. w \notin Found(f)
      BY <1>1 DEF Found, Free
    <3>2. Cardinality(Found(g)') = Cardinality(Found(g)) + 1
      BY <2>3, <2>4, <3>1, RunCounts, FS_AddElement
    <3> QED
      BY <1>1, <1>7, <2>1, <2>2, <2>4, <3>2
  <2>5. CASE g # f
    BY <1>6, <2>1, <2>3, <2>5
  <2> QED
    BY <2>4, <2>5
<1> QED
  BY <1>5, <1>9, <1>10, <1>11 DEF RunsInv

\* A row of its own for a call that had none.
LEMMA CreateRunInv ==
  ASSUME RunsInv, NEW w \in Workers, CreateRun(w)
  PROVE  RunsInv'
<1>1. worker[w].at = "found" /\ UNCHANGED <<panel, jobs>>
  BY DEF CreateRun
<1>2. PICK f \in Firings : f = worker[w].job
  BY <1>1, RunFieldTypes DEF RunsInv
<1>3. PICK r \in Rows :
         /\ rows[r] = NoRun
         /\ rows' = [rows EXCEPT ![r] = [status |-> "running", job |-> f]]
         /\ worker' = [worker EXCEPT ![w] = [at |-> "running", job |-> f, row |-> r]]
  BY <1>2 DEF CreateRun
<1>4. PanelTypeOK'
  BY <1>1 DEF RunsInv, RunsTypeOK, panel, PanelTypeOK
<1>5. /\ worker' \in [Workers -> [at : {"found"}, job : Firings] \cup {Free}
                  \cup [at : {"running", "caught", "return", "throw"}, job : Firings, row : Rows]]
      /\ worker'[w] = [at |-> "running", job |-> f, row |-> r]
      /\ \A v \in Workers : v # w => worker'[v] = worker[v]
  BY <1>3, WorkerGoesOn DEF RunsInv
<1>6. /\ rows'[r] = [status |-> "running", job |-> f]
      /\ \A q \in Rows : q # r => rows'[q] = rows[q]
      /\ rows' \in [Rows -> [status : {"running", "success", "failure"}, job : Firings] \cup {NoRun}]
  BY <1>3 DEF RunsInv, RunsTypeOK
<1>7. RunsTypeOK'
  BY <1>1, <1>4, <1>5, <1>6 DEF RunsInv, RunsTypeOK
<1>8. \A v \in Workers : Holding(v)' /\ v # w => Holding(v) /\ worker'[v] = worker[v] /\ worker[v].row # r
                                                 /\ worker[v].row \in Rows
  BY <1>3, <1>5, RunFieldTypes DEF Holding, RunsInv, RowsAreOwn
<1>9. rows'[r] # NoRun
  BY <1>6 DEF NoRun
<1>10. RowsAreOwn'
  <2> SUFFICES ASSUME NEW v \in Workers, Holding(v)'
               PROVE  /\ rows'[worker'[v].row] # NoRun /\ rows'[worker'[v].row].job = worker'[v].job
                      /\ worker'[v].at = "return" => rows'[worker'[v].row].status = "success"
                      /\ \A x \in Workers : Holding(x)' /\ worker'[x].row = worker'[v].row => x = v
    BY DEF RowsAreOwn
  <2>1. CASE v = w
    BY <1>5, <1>6, <1>8, <1>9, <2>1
  <2>2. CASE v # w
    BY <1>5, <1>6, <1>8, <2>2 DEF RunsInv, RowsAreOwn
  <2> QED
    BY <2>1, <2>2
<1>11. \A g \in Firings : RunsOf(g)' = IF g = f THEN RunsOf(g) \cup {r} ELSE RunsOf(g)
  BY <1>3, <1>6, <1>9 DEF RunsOf
<1>12. \A g \in Firings : Found(g)' = IF g = f THEN Found(g) \ {w} ELSE Found(g)
  BY <1>1, <1>2, <1>5 DEF Found
<1>13. SuccessStays'
  <2> SUFFICES ASSUME NEW g \in Firings, jobs[g].state = "done"
               PROVE  \E q \in RunsOf(g)' :
                         /\ rows'[q].status = "success"
                         /\ \A v \in Workers : Holding(v)' => worker'[v].row # q
    BY <1>1 DEF SuccessStays
  <2>1. PICK q \in RunsOf(g) : /\ rows[q].status = "success"
                              /\ \A v \in Workers : Holding(v) => worker[v].row # q
    BY DEF RunsInv, SuccessStays
  <2>2. q # r /\ q \in Rows
    BY <1>3 DEF RunsOf
  <2>3. q \in RunsOf(g)' /\ rows'[q].status = "success"
    BY <1>6, <1>11, <2>1, <2>2
  <2>4. \A v \in Workers : Holding(v)' => worker'[v].row # q
    BY <1>5, <1>8, <2>1, <2>2
  <2> QED
    BY <2>3, <2>4
<1>14. DeliveriesAreBounded'
  <2> SUFFICES ASSUME NEW g \in Firings
               PROVE  Cardinality(RunsOf(g)') + Cardinality(Found(g)')
                        + (IF jobs[g].state \in {"none", "waiting"} THEN 1 ELSE 0) <= 1 + jobs[g].stalls
    BY <1>1 DEF DeliveriesAreBounded
  <2>1. Cardinality(RunsOf(g)) + Cardinality(Found(g))
            + (IF jobs[g].state \in {"none", "waiting"} THEN 1 ELSE 0) <= 1 + jobs[g].stalls
    BY DEF RunsInv, DeliveriesAreBounded
  <2>2. Cardinality(RunsOf(g)) \in Nat /\ Cardinality(Found(g)) \in Nat /\ jobs[g].stalls \in 0..1
    BY RunCounts, RunFieldTypes DEF RunsInv
  <2>3. CASE g = f
    <3>1. w \in Found(f) /\ r \notin RunsOf(f)
      BY <1>1, <1>2, <1>3 DEF Found, RunsOf
    <3>2. Cardinality(RunsOf(g)') = Cardinality(RunsOf(g)) + 1
      BY <1>11, <2>3, <3>1, RunCounts, FS_AddElement
    <3>3. Cardinality(Found(g)') = Cardinality(Found(g)) - 1
      BY <1>12, <2>3, <3>1, RunCounts, FS_RemoveElement
    <3> QED
      BY <2>1, <2>2, <3>2, <3>3
  <2>4. CASE g # f
    BY <1>11, <1>12, <2>1, <2>4
  <2> QED
    BY <2>3, <2>4
<1> QED
  BY <1>7, <1>10, <1>13, <1>14 DEF RunsInv

\* A call with a row writes its status, or fails to, and goes on.
LEMMA WriteStatusInv ==
  ASSUME RunsInv, NEW w \in Workers, RecordSuccess(w) \/ RecordingFails(w) \/ RecordFailure(w)
  PROVE  RunsInv'
<1>1. Holding(w) /\ worker[w].at # "return" /\ UNCHANGED <<panel, jobs>>
  BY DEF RecordSuccess, RecordingFails, RecordFailure, Holding
<1>2. PICK f \in Firings, r \in Rows : f = worker[w].job /\ r = worker[w].row
  BY <1>1, RunFieldTypes DEF RunsInv, Holding
<1>3. rows[r] # NoRun /\ rows[r].job = f
  BY <1>1, <1>2 DEF RunsInv, RowsAreOwn
<1>4. worker[w] \in [at : {"running", "caught", "return", "throw"}, job : Firings, row : Rows]
  BY <1>1 DEF RunsInv, RunsTypeOK, Holding, Free
<1>5. PICK at \in {"return", "caught", "throw"} :
         /\ worker' = [worker EXCEPT ![w] = [at |-> at, job |-> f, row |-> r]]
         /\ at = "return" => rows' = [rows EXCEPT ![r].status = "success"]
  <2>1. \A at : [worker EXCEPT ![w].at = at] = [worker EXCEPT ![w] = [at |-> at, job |-> f, row |-> r]]
    <3>1. worker[w] = [at |-> worker[w].at, job |-> f, row |-> r]
      BY <1>2, <1>4
    <3>2. \A at : [worker[w] EXCEPT !.at = at] = [at |-> at, job |-> f, row |-> r]
      BY <3>1
    <3>3. \A at : [worker EXCEPT ![w].at = at] = [worker EXCEPT ![w] = [worker[w] EXCEPT !.at = at]]
      OBVIOUS
    <3> QED
      BY <3>2, <3>3
  <2> QED
    BY <1>2, <2>1 DEF RecordSuccess, RecordingFails, RecordFailure, SetStatus
<1>6. PICK st \in {"running", "success", "failure"} :
         rows' = [rows EXCEPT ![r] = [status |-> st, job |-> f]]
  <2>1. rows[r] = [status |-> rows[r].status, job |-> f] /\ rows[r].status \in {"running", "success", "failure"}
    BY <1>3, RunFieldTypes DEF RunsInv
  <2>2. \A st : [rows EXCEPT ![r].status = st] = [rows EXCEPT ![r] = [status |-> st, job |-> f]]
    <3>1. \A st : [rows[r] EXCEPT !.status = st] = [status |-> st, job |-> f]
      BY <2>1
    <3>2. \A st : [rows EXCEPT ![r].status = st] = [rows EXCEPT ![r] = [rows[r] EXCEPT !.status = st]]
      OBVIOUS
    <3> QED
      BY <3>1, <3>2
  <2>3. rows = [rows EXCEPT ![r] = [status |-> rows[r].status, job |-> f]]
    BY <2>1 DEF RunsInv, RunsTypeOK
  <2> QED
    BY <1>2, <2>1, <2>2, <2>3 DEF RecordSuccess, RecordingFails, RecordFailure, SetStatus
<1>7. PanelTypeOK'
  BY <1>1 DEF RunsInv, RunsTypeOK, panel, PanelTypeOK
<1>8. /\ worker' \in [Workers -> [at : {"found"}, job : Firings] \cup {Free}
                  \cup [at : {"running", "caught", "return", "throw"}, job : Firings, row : Rows]]
      /\ worker'[w] = [at |-> at, job |-> f, row |-> r]
      /\ \A v \in Workers : v # w => worker'[v] = worker[v]
  BY <1>5, WorkerGoesOn DEF RunsInv
<1>9. /\ rows'[r] = [status |-> st, job |-> f]
      /\ \A q \in Rows : q # r => rows'[q] = rows[q]
      /\ rows' \in [Rows -> [status : {"running", "success", "failure"}, job : Firings] \cup {NoRun}]
  BY <1>6 DEF RunsInv, RunsTypeOK
<1>10. RunsTypeOK'
  BY <1>1, <1>7, <1>8, <1>9 DEF RunsInv, RunsTypeOK
<1>11. rows'[r] # NoRun /\ (at = "return" => rows'[r].status = "success")
  BY <1>3, <1>5, <1>9, RunFieldTypes DEF NoRun, RunsInv, RunsTypeOK
<1>12. \A v \in Workers : v # w => /\ Holding(v)' <=> Holding(v)
                                   /\ Holding(v) => worker[v].row # r /\ worker[v].row \in Rows
  BY <1>1, <1>2, <1>8, RunFieldTypes DEF Holding, RunsInv, RowsAreOwn
<1>13. RowsAreOwn'
  <2> SUFFICES ASSUME NEW v \in Workers, Holding(v)'
               PROVE  /\ rows'[worker'[v].row] # NoRun /\ rows'[worker'[v].row].job = worker'[v].job
                      /\ worker'[v].at = "return" => rows'[worker'[v].row].status = "success"
                      /\ \A x \in Workers : Holding(x)' /\ worker'[x].row = worker'[v].row => x = v
    BY DEF RowsAreOwn
  <2>1. CASE v = w
    BY <1>8, <1>9, <1>11, <1>12, <2>1
  <2>2. CASE v # w
    BY <1>8, <1>9, <1>12, <2>2 DEF RunsInv, RowsAreOwn
  <2> QED
    BY <2>1, <2>2
<1>14. \A g \in Firings : RunsOf(g)' = RunsOf(g) /\ Found(g)' = Found(g)
  <2>1. \A q \in Rows : (rows'[q] = NoRun <=> rows[q] = NoRun) /\ (rows[q] # NoRun => rows'[q].job = rows[q].job)
    BY <1>3, <1>9, <1>11
  <2>2. \A v \in Workers : (worker'[v].at = "found" <=> worker[v].at = "found")
                           /\ (worker[v].at = "found" => worker'[v] = worker[v])
    BY <1>1, <1>8 DEF Holding
  <2> QED
    BY <2>1, <2>2 DEF RunsOf, Found
<1>15. SuccessStays'
  <2> SUFFICES ASSUME NEW g \in Firings, jobs[g].state = "done"
               PROVE  \E q \in RunsOf(g) :
                         /\ rows'[q].status = "success"
                         /\ \A v \in Workers : Holding(v)' => worker'[v].row # q
    BY <1>1, <1>14 DEF SuccessStays
  <2>1. PICK q \in RunsOf(g) : /\ rows[q].status = "success"
                              /\ \A v \in Workers : Holding(v) => worker[v].row # q
    BY DEF RunsInv, SuccessStays
  <2>2. q # r /\ q \in Rows
    BY <1>1, <1>2, <2>1 DEF RunsOf
  <2>3. \A v \in Workers : Holding(v)' => worker'[v].row # q
    BY <1>8, <1>12, <2>1, <2>2
  <2> QED
    BY <1>9, <2>1, <2>2, <2>3
<1>16. DeliveriesAreBounded'
  BY <1>1, <1>14 DEF RunsInv, DeliveriesAreBounded
<1> QED
  BY <1>10, <1>13, <1>15, <1>16 DEF RunsInv

\* The call is over; its job is done or failed unless it was taken away.
LEMMA LeaveInv ==
  ASSUME RunsInv, NEW w \in Workers, CreateFails(w) \/ Finish(w)
  PROVE  RunsInv'
<1>1. worker[w].at # "free" /\ UNCHANGED <<panel, rows>> /\ worker' = [worker EXCEPT ![w] = Free]
  BY DEF CreateFails, Finish
<1>2. PICK f \in Firings : f = worker[w].job
  BY <1>1, RunFieldTypes DEF RunsInv
<1>3. \/ jobs' = jobs
      \/ \E st \in {"done", "failed"} :
            /\ jobs' = [jobs EXCEPT ![f] = [state |-> st, owner |-> None, stalls |-> jobs[f].stalls]]
            /\ st = "done" => worker[w].at = "return"
  <2>1. RunsTypeOK
    BY DEF RunsInv
  <2>2. CASE CreateFails(w)
    <3>1. jobs' = jobs \/ SetJob(f, "failed", None)
      BY <1>2, <2>2 DEF CreateFails
    <3> QED
      BY <2>1, <3>1, JobUpdate
  <2>3. CASE Finish(w)
    <3>1. PICK st \in {"done", "failed"} : st = IF worker[w].at = "return" THEN "done" ELSE "failed"
      OBVIOUS
    <3>2. jobs' = jobs \/ SetJob(f, st, None)
      BY <1>2, <2>3, <3>1 DEF Finish
    <3>3. jobs' = jobs \/ jobs' = [jobs EXCEPT ![f] = [state |-> st, owner |-> None, stalls |-> jobs[f].stalls]]
      BY <2>1, <3>2, JobUpdate
    <3> QED
      BY <3>1, <3>3
  <2> QED
    BY <2>2, <2>3
<1>4. PanelTypeOK'
  BY <1>1 DEF RunsInv, RunsTypeOK, panel, PanelTypeOK
<1>5. worker' \in [Workers -> [at : {"found"}, job : Firings] \cup {Free}
                  \cup [at : {"running", "caught", "return", "throw"}, job : Firings, row : Rows]]
      /\ worker'[w] = Free /\ \A v \in Workers : v # w => worker'[v] = worker[v]
  BY <1>1, WorkerGoesOn DEF RunsInv
<1>6. jobs[f].stalls \in 0..1
  BY RunFieldTypes DEF RunsInv
<1>7. /\ jobs' \in [Firings -> Job]
      /\ \A g \in Firings :
            /\ jobs'[g].stalls = jobs[g].stalls
            /\ jobs'[g].state \in {"none", "waiting"} => jobs[g].state \in {"none", "waiting"}
            /\ jobs'[g].state = "done" => jobs[g].state = "done" \/ (worker[w].at = "return" /\ g = f)
  <2>1. CASE jobs' = jobs
    BY <2>1 DEF RunsInv, RunsTypeOK
  <2>2. ASSUME NEW st \in {"done", "failed"}, st = "done" => worker[w].at = "return",
               jobs' = [jobs EXCEPT ![f] = [state |-> st, owner |-> None, stalls |-> jobs[f].stalls]]
        PROVE  /\ jobs' \in [Firings -> Job]
               /\ \A g \in Firings :
                     /\ jobs'[g].stalls = jobs[g].stalls
                     /\ jobs'[g].state \in {"none", "waiting"} => jobs[g].state \in {"none", "waiting"}
                     /\ jobs'[g].state = "done" => jobs[g].state = "done" \/ (worker[w].at = "return" /\ g = f)
    BY <1>6, <2>2 DEF RunsInv, RunsTypeOK, Job
  <2> QED
    BY <1>3, <2>1, <2>2
<1>8. RunsTypeOK'
  BY <1>1, <1>4, <1>5, <1>7 DEF RunsInv, RunsTypeOK
<1> QED
  BY <1>1, <1>2, <1>5, <1>7, <1>8, RunsShrink

LEMMA NextRunsInv == RunsInv /\ [JobsNext]_jobVars => RunsInv'
<1> SUFFICES ASSUME RunsInv, [JobsNext]_jobVars PROVE RunsInv'
  OBVIOUS
<1>1. CASE RunStep
  BY <1>1, FireInv, StallInv, TakeInv, CreateRunInv, WriteStatusInv, LeaveInv DEF RunStep, ProcessStep
<1>2. ASSUME [PanelNext]_panel, UNCHANGED <<jobs, rows>>,
             worker' \in {[w \in Workers |-> Free], worker}
      PROVE  RunsInv'
  <2>1. PanelTypeOK'
    BY <1>2, PanelTyping DEF RunsInv, RunsTypeOK
  <2>2. /\ worker' \in [Workers -> [at : {"found"}, job : Firings] \cup {Free}
                  \cup [at : {"running", "caught", "return", "throw"}, job : Firings, row : Rows]]
        /\ \A w \in Workers : worker'[w] = worker[w] \/ worker'[w] = Free
    BY <1>2 DEF RunsInv, RunsTypeOK
  <2>3. RunsTypeOK'
    BY <1>2, <2>1, <2>2 DEF RunsInv, RunsTypeOK
  <2> QED
    BY <1>2, <2>2, <2>3, RunsShrink
<1>3. CASE UNCHANGED jobVars
  BY <1>2, <1>3 DEF jobVars, runVars
<1> QED
  BY <1>1, <1>2, <1>3 DEF JobsNext

\* What is done is recorded, and nothing more often than it was delivered, for any
\* number of firings, workers, crashes and stalls.
THEOREM DoneIsAlwaysRecorded == JobsSpec => [](RunsTypeOK /\ DoneIsRecorded)
<1>1. RunsInv => RunsTypeOK /\ DoneIsRecorded
  <2> SUFFICES ASSUME RunsInv, NEW f \in Firings
               PROVE  /\ Cardinality(RunsOf(f)) <= 1 + jobs[f].stalls
                      /\ jobs[f].state = "done" => \E r \in RunsOf(f) : rows[r].status = "success"
                      /\ jobs[f].state = "done" /\ jobs[f].stalls = 0 =>
                            \A r \in RunsOf(f) : rows[r].status = "success"
    BY DEF RunsInv, DoneIsRecorded
  <2>1. Cardinality(RunsOf(f)) <= 1 + jobs[f].stalls
    <3>1. Cardinality(RunsOf(f)) \in Nat /\ Cardinality(Found(f)) \in Nat /\ jobs[f].stalls \in 0..1
      BY RunCounts, RunFieldTypes DEF RunsInv
    <3>2. Cardinality(RunsOf(f)) + Cardinality(Found(f))
              + (IF jobs[f].state \in {"none", "waiting"} THEN 1 ELSE 0) <= 1 + jobs[f].stalls
      BY DEF RunsInv, DeliveriesAreBounded
    <3> QED
      BY <3>1, <3>2
  <2>2. jobs[f].state = "done" => \E r \in RunsOf(f) : rows[r].status = "success"
    BY DEF RunsInv, SuccessStays
  <2>3. ASSUME jobs[f].state = "done", jobs[f].stalls = 0, NEW r \in RunsOf(f)
        PROVE  rows[r].status = "success"
    <3>1. PICK q \in RunsOf(f) : rows[q].status = "success"
      BY <2>2, <2>3
    <3>2. Cardinality(RunsOf(f)) = 1
      <4>1. Cardinality(RunsOf(f)) \in Nat /\ Cardinality(RunsOf(f)) <= 1
        BY <2>1, <2>3, RunCounts
      <4>2. Cardinality(RunsOf(f)) # 0
        BY <2>3, RunCounts, FS_EmptySet
      <4> QED
        BY <4>1, <4>2
    <3>3. q = r
      BY <2>3, <3>1, <3>2, RunCounts, FS_Singleton
    <3> QED
      BY <3>1, <3>3
  <2> QED
    BY <2>1, <2>2, <2>3
<1> QED
  BY <1>1, InitRunsInv, NextRunsInv, PTL DEF JobsSpec

\* The queue, the workers and the history of runs keep their types, whatever stalls
\* and is delivered again.
THEOREM RunsTyping == JobsSpec => []RunsTypeOK
BY DoneIsAlwaysRecorded, PTL
=============================================================================
