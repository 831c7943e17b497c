------------------------------- MODULE JobRuns -------------------------------
(***************************************************************************)
(* What becomes of a scheduled job when it fires: BullMQ delivers it to a  *)
(* worker of the server, and JobRunProcessor.process records the run.      *)
(*                                                                         *)
(* BullMQ delivers at least once: a job whose worker stops renewing its    *)
(* lock, because the server crashed or is blocked, is stalled and          *)
(* delivered once more, and failed when it stalls again.  A job that       *)
(* throws has failed: the queue sets no further attempts.                  *)
(***************************************************************************)
EXTENDS JobScheduler, FiniteSets

CONSTANTS
    Firings,       \* jobs that the schedulers add to the queue
    Workers,
    Rows           \* rows of JobRun

ASSUME JobRunsAssumption == IsFiniteSet(Workers) /\ IsFiniteSet(Rows)

VARIABLES
    jobs,          \* jobs[f]: the job of firing f in the queue
    rows,          \* rows[r]: the run recorded in row r, or NoRun
    worker         \* worker[w]: the call of process() in progress, or Free

runVars == <<jobs, rows, worker>>
jobVars == <<panel, runVars>>

NoRun == [status |-> "absent"]
Free == [at |-> "free"]

Job == [state : {"none", "waiting", "active", "done", "failed"},
        owner : Workers \cup {None}, stalls : 0..1]

RunsTypeOK ==
    /\ PanelTypeOK
    /\ jobs \in [Firings -> Job]
    /\ rows \in [Rows -> [status : {"running", "success", "failure"}, job : Firings] \cup {NoRun}]
    /\ worker \in [Workers -> [at : {"found"}, job : Firings] \cup {Free}
          \cup [at : {"running", "caught", "return", "throw"}, job : Firings, row : Rows]]

JobsInit ==
    /\ PanelInit
    /\ jobs = [f \in Firings |-> [state |-> "none", owner |-> None, stalls |-> 0]]
    /\ rows = [r \in Rows |-> NoRun]
    /\ worker = [w \in Workers |-> Free]

-----------------------------------------------------------------------------
SetJob(f, state, owner) == jobs' = [jobs EXCEPT ![f].state = state, ![f].owner = owner]

\* A registered scheduler is due.
Fire(f, k) ==
    /\ registered[k] # None
    /\ jobs[f].state = "none"
    /\ SetJob(f, "waiting", None)
    /\ UNCHANGED <<panel, rows, worker>>

\* The worker takes the job and finds its definition.
Take(w, f) ==
    /\ server = "up"
    /\ worker[w] = Free
    /\ jobs[f].state = "waiting"
    /\ SetJob(f, "active", w)
    /\ worker' = [worker EXCEPT ![w] = [at |-> "found", job |-> f]]
    /\ UNCHANGED <<panel, rows>>

CreateRun(w) ==
    /\ worker[w].at = "found"
    /\ \E r \in Rows :
          /\ rows[r] = NoRun
          /\ rows' = [rows EXCEPT ![r] = [status |-> "running", job |-> worker[w].job]]
          /\ worker' = [worker EXCEPT ![w] = [at |-> "running", job |-> worker[w].job, row |-> r]]
    /\ UNCHANGED <<panel, jobs>>

SetStatus(r, status) == rows' = [rows EXCEPT ![r].status = status]

RecordSuccess(w) ==
    /\ worker[w].at = "running"
    /\ SetStatus(worker[w].row, "success")
    /\ worker' = [worker EXCEPT ![w].at = "return"]
    /\ UNCHANGED <<panel, jobs>>

\* The update fails, before or after the database has applied it.
RecordingFails(w) ==
    /\ worker[w].at = "running"
    /\ rows' = rows \/ SetStatus(worker[w].row, "success")
    /\ worker' = [worker EXCEPT ![w].at = "caught"]
    /\ UNCHANGED <<panel, jobs>>

\* Mutant of RecordFailure: the error is not thrown again.
RecordFailureOnly(w) ==
    /\ worker[w].at = "caught"
    /\ SetStatus(worker[w].row, "failure")
    /\ worker' = [worker EXCEPT ![w].at = "return"]
    /\ UNCHANGED <<panel, jobs>>

\* Mutant of RecordFailure: the update is tried again until it succeeds.
RecordAgain(w) ==
    /\ worker[w].at = "caught"
    /\ worker' = [worker EXCEPT ![w].at = "running"]
    /\ UNCHANGED <<panel, jobs, rows>>

\* The catch block; its own update may fail as well.
RecordFailure(w) ==
    /\ worker[w].at = "caught"
    /\ SetStatus(worker[w].row, "failure") \/ rows' = rows
    /\ worker' = [worker EXCEPT ![w].at = "throw"]
    /\ UNCHANGED <<panel, jobs>>

CreateFails(w) ==
    /\ worker[w].at = "found"
    /\ worker' = [worker EXCEPT ![w] = Free]
    /\ IF jobs[worker[w].job].owner = w THEN SetJob(worker[w].job, "failed", None) ELSE jobs' = jobs
    /\ UNCHANGED <<panel, rows>>

\* BullMQ finishes the job, unless it was taken from this worker.
Finish(w) ==
    LET f == worker[w].job IN
    /\ worker[w].at \in {"return", "throw"}
    /\ IF jobs[f].owner = w
         THEN SetJob(f, IF worker[w].at = "return" THEN "done" ELSE "failed", None)
         ELSE jobs' = jobs
    /\ worker' = [worker EXCEPT ![w] = Free]
    /\ UNCHANGED <<panel, rows>>

\* The lock of an active job runs out.
Stall(f) ==
    /\ jobs[f].state = "active"
    /\ IF jobs[f].stalls = 0
         THEN jobs' = [jobs EXCEPT ![f] = [state |-> "waiting", owner |-> None, stalls |-> 1]]
         ELSE SetJob(f, "failed", None)
    /\ UNCHANGED <<panel, rows, worker>>

ProcessStep(w) ==
    CreateRun(w) \/ RecordSuccess(w) \/ RecordingFails(w) \/ RecordFailure(w) \/ CreateFails(w) \/ Finish(w)

RunStep ==
    \/ \E f \in Firings : Stall(f) \/ \E k \in Schedules : Fire(f, k)
    \/ \E w \in Workers : ProcessStep(w) \/ \E f \in Firings : Take(w, f)

\* A crash takes the workers with it.
JobsNext ==
    \/ RunStep
    \/ /\ PanelNext
       /\ worker' = IF server' = "down" THEN [w \in Workers |-> Free] ELSE worker
       /\ UNCHANGED <<jobs, rows>>

JobsSpec == JobsInit /\ [][JobsNext]_jobVars

\* An active job that its worker does not work at any more.
Orphaned(f) ==
    LET w == jobs[f].owner IN
    jobs[f].state = "active" /\ (worker[w] = Free \/ worker[w].job # f)

\* The server is started again, the calls that it has taken get their turn,
\* and so do a waiting job, its worker and the check for stalled jobs.
JobsFairness ==
    /\ WF_jobVars(Restart /\ UNCHANGED runVars)
    /\ \A s \in Slots : WF_jobVars(CallStep(s) /\ UNCHANGED runVars)
    /\ \A w \in Workers :
          /\ WF_jobVars(ProcessStep(w))
          /\ \A f \in Firings : SF_jobVars(Take(w, f))
    /\ \A f \in Firings : WF_jobVars(Orphaned(f) /\ Stall(f))

JobsFairSpec == JobsSpec /\ JobsFairness

-----------------------------------------------------------------------------
(* Properties.                                                             *)

RunsOf(f) == {r \in Rows : rows[r] # NoRun /\ rows[r].job = f}

\* process: a job that is done without having been delivered twice has one
\* run in the history, a success; one done after a second delivery has at
\* least a success, and no firing has more runs than deliveries.
DoneIsRecorded ==
    \A f \in Firings :
        /\ Cardinality(RunsOf(f)) <= 1 + jobs[f].stalls
        /\ jobs[f].state = "done" => \E r \in RunsOf(f) : rows[r].status = "success"
        /\ jobs[f].state = "done" /\ jobs[f].stalls = 0 =>
              \A r \in RunsOf(f) : rows[r].status = "success"

\* A fired job is done or failed in the end, through crashes of the server.
EveryFiringEnds ==
    \A f \in Firings : jobs[f].state = "waiting" ~> jobs[f].state \in {"done", "failed"}
=============================================================================
