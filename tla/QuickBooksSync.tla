---------------------------- MODULE QuickBooksSync ----------------------------
(***************************************************************************)
(* The synchronisation of users with QuickBooks: UsersService saves a user *)
(* and then enqueues a job (QuickBooksSyncService), which a worker takes   *)
(* (QuickBooksSyncProcessor).                                              *)
(*                                                                         *)
(* The save and the enqueue are two systems, and the pointer's sequence is *)
(* read and written by two commands.  The queue sets no attempts, so a job *)
(* that throws has failed; BullMQ delivers a job again when its worker is  *)
(* lost.                                                                   *)
(***************************************************************************)
EXTENDS Naturals, FiniteSets

CONSTANTS
    SyncUsers,
    Savers,        \* slots for saves in progress
    SyncWorkers,
    MaxSaves,      \* bound on the saves of a user
    Free           \* a slot or worker with nothing to do

ASSUME SyncAssumption ==
    /\ IsFiniteSet(Savers) /\ IsFiniteSet(SyncWorkers)
    /\ MaxSaves \in Nat
    /\ Free \notin SyncUsers

VARIABLES
    saves,         \* saves[u]: how often u was saved
    saver,         \* saver[s]: the user saved in slot s but not enqueued, or Free
    queue,         \* queue[u]: the waiting jobs of u
    syncer,        \* syncer[w]: the job that w works at, or Free
    pointer,       \* pointer[u]: qbEditSequence, 0 before the first
    unsynced,      \* users saved since the start of the last finished job
    lost,          \* users one of whose jobs was not enqueued or failed
    twice          \* users of whom two jobs have overlapped, the second
                   \* delivery of one included; these three for the properties only

syncVars == <<saves, saver, queue, syncer, pointer, unsynced, lost, twice>>

-----------------------------------------------------------------------------
\* `fresh`: the user has not been saved since the job was taken.
SyncJob == [user : SyncUsers, fresh : BOOLEAN, at : {"found"}]
       \cup [user : SyncUsers, fresh : BOOLEAN, at : {"read"}, next : Nat]

ASSUME FreeAssumption == Free \notin SyncJob

SyncTypeOK ==
    /\ saves \in [SyncUsers -> 0..MaxSaves]
    /\ saver \in [Savers -> SyncUsers \cup {Free}]
    /\ queue \in [SyncUsers -> Nat]
    /\ syncer \in [SyncWorkers -> SyncJob \cup {Free}]
    /\ pointer \in [SyncUsers -> Nat]
    /\ unsynced \subseteq SyncUsers /\ lost \subseteq SyncUsers /\ twice \subseteq SyncUsers

SyncInit ==
    /\ saves = [u \in SyncUsers |-> 0]
    /\ saver = [s \in Savers |-> Free]
    /\ queue = [u \in SyncUsers |-> 0]
    /\ syncer = [w \in SyncWorkers |-> Free]
    /\ pointer = [u \in SyncUsers |-> 0]
    /\ unsynced = {} /\ lost = {} /\ twice = {}

WorkingAt(u) == {w \in SyncWorkers : syncer[w] # Free /\ syncer[w].user = u}

-----------------------------------------------------------------------------
\* UsersService.create, update: the row is written.
Save(s, u) ==
    /\ saver[s] = Free
    /\ saves[u] < MaxSaves
    /\ saves' = [saves EXCEPT ![u] = @ + 1]
    /\ saver' = [saver EXCEPT ![s] = u]
    /\ unsynced' = unsynced \cup {u}
    /\ syncer' = [w \in SyncWorkers |->
          IF w \in WorkingAt(u) THEN [syncer[w] EXCEPT !.fresh = FALSE] ELSE syncer[w]]
    /\ UNCHANGED <<queue, pointer, lost, twice>>

\* Mutant of Enqueue: no second job for a user who has one.
EnqueueOnce(s) ==
    /\ saver[s] # Free
    /\ queue' = IF WorkingAt(saver[s]) = {} THEN [queue EXCEPT ![saver[s]] = 1] ELSE queue
    /\ saver' = [saver EXCEPT ![s] = Free]
    /\ UNCHANGED <<saves, syncer, pointer, unsynced, lost, twice>>

Enqueue(s) ==
    /\ saver[s] # Free
    /\ queue' = [queue EXCEPT ![saver[s]] = @ + 1]
    /\ saver' = [saver EXCEPT ![s] = Free]
    /\ UNCHANGED <<saves, syncer, pointer, unsynced, lost, twice>>

\* The caller gets an error for a save that happened.
EnqueueFails(s) ==
    /\ saver[s] # Free
    /\ lost' = lost \cup {saver[s]}
    /\ saver' = [saver EXCEPT ![s] = Free]
    /\ UNCHANGED <<saves, queue, syncer, pointer, unsynced, twice>>

-----------------------------------------------------------------------------
\* process: the client is resolved and the user found.
TakeJob(w, u) ==
    /\ syncer[w] = Free
    /\ queue[u] > 0
    /\ queue' = [queue EXCEPT ![u] = @ - 1]
    /\ syncer' = [syncer EXCEPT ![w] = [user |-> u, fresh |-> TRUE, at |-> "found"]]
    /\ twice' = IF WorkingAt(u) # {} THEN twice \cup {u} ELSE twice
    /\ UNCHANGED <<saves, saver, pointer, unsynced, lost>>

ReadPointer(w) ==
    LET j == syncer[w] IN
    /\ j # Free /\ j.at = "found"
    /\ syncer' = [syncer EXCEPT ![w] =
          [user |-> j.user, fresh |-> j.fresh, at |-> "read", next |-> pointer[j.user] + 1]]
    /\ UNCHANGED <<saves, saver, queue, pointer, unsynced, lost, twice>>

\* Mutant of UpsertPointer: the update leaves the sequence as it was created.
UpsertStatus(w) ==
    LET j == syncer[w] IN
    /\ j # Free /\ j.at = "read"
    /\ pointer' = [pointer EXCEPT ![j.user] = IF @ = 0 THEN j.next ELSE @]
    /\ syncer' = [syncer EXCEPT ![w] = Free]
    /\ unsynced' = IF j.fresh THEN unsynced \ {j.user} ELSE unsynced
    /\ UNCHANGED <<saves, saver, queue, lost, twice>>

UpsertPointer(w) ==
    LET j == syncer[w] IN
    /\ j # Free /\ j.at = "read"
    /\ pointer' = [pointer EXCEPT ![j.user] = j.next]
    /\ syncer' = [syncer EXCEPT ![w] = Free]
    /\ unsynced' = IF j.fresh THEN unsynced \ {j.user} ELSE unsynced
    /\ UNCHANGED <<saves, saver, queue, lost, twice>>

JobFails(w) ==
    /\ syncer[w] # Free
    /\ lost' = lost \cup {syncer[w].user}
    /\ syncer' = [syncer EXCEPT ![w] = Free]
    /\ UNCHANGED <<saves, saver, queue, pointer, unsynced, twice>>

\* The worker is slow, or gone with its server: the job waits again.
Redeliver(w, gone) ==
    /\ syncer[w] # Free
    /\ syncer[w].user \notin twice
    /\ queue' = [queue EXCEPT ![syncer[w].user] = @ + 1]
    /\ syncer' = IF gone THEN [syncer EXCEPT ![w] = Free] ELSE syncer
    /\ twice' = twice \cup {syncer[w].user}
    /\ UNCHANGED <<saves, saver, pointer, unsynced, lost>>

SaverStep(s) == Enqueue(s) \/ EnqueueFails(s)
WorkerStep(w) == ReadPointer(w) \/ UpsertPointer(w) \/ JobFails(w)

SyncNext ==
    \/ \E s \in Savers : SaverStep(s) \/ \E u \in SyncUsers : Save(s, u)
    \/ \E w \in SyncWorkers :
          \/ WorkerStep(w)
          \/ \E u \in SyncUsers : TakeJob(w, u)
          \/ \E gone \in BOOLEAN : Redeliver(w, gone)

SyncSpec == SyncInit /\ [][SyncNext]_syncVars

-----------------------------------------------------------------------------
(* Properties.                                                             *)

\* FR-013: unless a job was not enqueued or failed, a user whose last save is
\* not synchronised has a job that waits, or one taken since, or is about to.
SavedIsQueued ==
    \A u \in unsynced \ lost :
        \/ queue[u] > 0
        \/ \E w \in WorkingAt(u) : syncer[w].fresh
        \/ \E s \in Savers : saver[s] = u

\* process: as long as jobs of a user neither overlap nor fail, the edit
\* sequence counts them all: one for each save whose job is done.
SequenceCountsJobs ==
    \A u \in SyncUsers \ (twice \cup lost) :
        saves[u] = pointer[u] + queue[u] + Cardinality(WorkingAt(u))
                     + Cardinality({s \in Savers : saver[s] = u})

\* However saves, enqueues, deliveries and failures interleave, no save is
\* forgotten and none is counted twice, but for users whose jobs failed, were
\* not enqueued, or overlapped.
SyncFollowsSaves == SavedIsQueued /\ SequenceCountsJobs
=============================================================================
