------------------------------- MODULE MCRedis -------------------------------
(***************************************************************************)
(* Instances of EditLock and JobRuns, whose state is in Redis, for one run *)
(* of TLC: beside the edit lock the server only starts.  One job, a tenant *)
(* that fires before midnight and one that fires after.                    *)
(***************************************************************************)
EXTENDS EditLock, JobRuns, TLC

CONSTANTS u1, u2, t1, t2, night, demo, live

\* Two users with one tab each.
OneTabEach == (t1 :> u1) @@ (t2 :> u2)

JobOfEach == [k \in Schedules |-> night]
Hour == [j \in Jobs |-> 0]
Minute == [j \in Jobs |-> 10]
Stagger == [k \in Schedules |-> IF k = demo THEN -15 ELSE 1440 + 75]

VARIABLE part     \* what a behaviour is about, "locks" or "jobs"

\* Toggles overlap toggles until a job fires, with no other flags on the page than
\* those stored; from then on runs overlap runs, crashes and restarts.
TogglesThenRuns ==
    (\E f \in Firings : jobs'[f].state # "none") =>
        shown' \in {None, enabled'} /\ \A s \in Requests : req'[s] = Idle

\* A run is recorded in any free row; here in the first.
RowsInOrder == \A r \in Rows \ {1} : rows'[r] # NoRun => rows'[r - 1] # NoRun

OnlyStarts ==
    /\ shown' = shown /\ crashes' = crashes /\ runVars' = runVars
    /\ \A s \in Requests : req'[s] = Idle

MCInit == Init /\ JobsInit /\ part \in {"locks", "jobs"}

MCNext ==
    /\ \/ part = "locks" /\ Next /\ UNCHANGED jobVars
       \/ part = "locks" /\ JobsNext /\ OnlyStarts /\ UNCHANGED vars
       \/ part = "jobs" /\ JobsNext /\ TogglesThenRuns /\ RowsInOrder /\ UNCHANGED vars
    /\ UNCHANGED part

MCSpec == MCInit /\ [][MCNext]_<<vars, jobVars, part>> /\ WF_vars(Tick) /\ JobsFairness
=============================================================================
