------------------------------- MODULE EditLock -------------------------------
(***************************************************************************)
(* ConcurrencyLockService (common/locks): the project-wide edit lock, a    *)
(* Redis key per record with a time to live, and the editing sessions that *)
(* use it.  Each command below is one Redis command or one Lua script, so  *)
(* each is atomic; sessions and time interleave between them.              *)
(*                                                                         *)
(* The value of a key is the *user* id, while what a browser opens and     *)
(* closes is a *session* (a tab).  UserOf says whose session each is.      *)
(***************************************************************************)
EXTENDS Naturals

CONSTANTS
    Users, Resources, NoUser,
    Sessions,    \* editing sessions: browser tabs with the edit screen
    NoResource,  \* the session edits nothing
    UserOf,      \* UserOf[s]: the user logged in in session s
    Ttl          \* DEFAULT_LOCK_TTL_MS, in ticks

ASSUME EditLockAssumption ==
    /\ NoUser \notin Users
    /\ NoResource \notin Resources
    /\ UserOf \in [Sessions -> Users]
    /\ Ttl \in Nat \ {0}

VARIABLES
    holder,   \* holder[r]: the value under the key of r, NoUser if there is none
    ttl,      \* ttl[r]: ticks until the key of r expires, 0 if there is none
    editing,  \* editing[s]: the resource session s has open in edit mode
    lease     \* lease[s]: ticks for which the last successful acquire or
              \* heartbeat of s entitles it to edit, counted from that command

vars == <<holder, ttl, editing, lease>>

TypeOK ==
    /\ holder \in [Resources -> Users \cup {NoUser}]
    /\ ttl \in [Resources -> 0..Ttl]
    /\ editing \in [Sessions -> Resources \cup {NoResource}]
    /\ lease \in [Sessions -> 0..Ttl]

Init ==
    /\ holder = [r \in Resources |-> NoUser]
    /\ ttl = [r \in Resources |-> 0]
    /\ editing = [s \in Sessions |-> NoResource]
    /\ lease = [s \in Sessions |-> 0]

-----------------------------------------------------------------------------
(* The commands of the service.                                            *)

\* Mutant of SetNX: SET without NX.
SetAlways(u, r) ==
    /\ holder' = [holder EXCEPT ![r] = u]
    /\ ttl' = [ttl EXCEPT ![r] = Ttl]

\* Mutant of SetNX: SET without PX.
SetForEver(u, r) ==
    /\ holder[r] = NoUser
    /\ holder' = [holder EXCEPT ![r] = u]
    /\ UNCHANGED ttl

\* SET key userId PX ttl NX answered OK.  A refused SET changes nothing.
SetNX(u, r) ==
    /\ holder[r] = NoUser
    /\ holder' = [holder EXCEPT ![r] = u]
    /\ ttl' = [ttl EXCEPT ![r] = Ttl]

\* EXTEND_IF_OWNER_SCRIPT: PEXPIRE if the key still holds the caller.
ExtendIfOwner(u, r) ==
    /\ ttl' = IF holder[r] = u THEN [ttl EXCEPT ![r] = Ttl] ELSE ttl
    /\ UNCHANGED holder

\* Mutant of DeleteIfOwner: a plain DEL.
DeleteAlways(u, r) ==
    /\ holder' = [holder EXCEPT ![r] = NoUser]
    /\ ttl' = [ttl EXCEPT ![r] = 0]

\* DELETE_IF_OWNER_SCRIPT: DEL if the key still holds the caller.
DeleteIfOwner(u, r) ==
    IF holder[r] = u
    THEN /\ holder' = [holder EXCEPT ![r] = NoUser]
         /\ ttl' = [ttl EXCEPT ![r] = 0]
    ELSE UNCHANGED <<holder, ttl>>

-----------------------------------------------------------------------------
(* The sessions.                                                           *)

\* A session opens r in edit mode: acquire.
Open(s, r) ==
    /\ editing[s] = NoResource
    /\ SetNX(UserOf[s], r)
    /\ editing' = [editing EXCEPT ![s] = r]
    /\ lease' = [lease EXCEPT ![s] = Ttl]

\* The periodic heartbeat of an open session.  Refused ("Lock is no longer
\* held by you."), the session leaves edit mode.
Heartbeat(s) ==
    LET r == editing[s] IN
    /\ r # NoResource
    /\ ExtendIfOwner(UserOf[s], r)
    /\ IF holder[r] = UserOf[s]
       THEN lease' = [lease EXCEPT ![s] = Ttl] /\ UNCHANGED editing
       ELSE lease' = [lease EXCEPT ![s] = 0]
            /\ editing' = [editing EXCEPT ![s] = NoResource]

\* Save, cancel or navigate away: release.
Close(s) ==
    /\ editing[s] # NoResource
    /\ DeleteIfOwner(UserOf[s], editing[s])
    /\ editing' = [editing EXCEPT ![s] = NoResource]
    /\ lease' = [lease EXCEPT ![s] = 0]

\* Browser crash or lost connection: the release is never sent.
Vanish(s) ==
    /\ editing[s] # NoResource
    /\ editing' = [editing EXCEPT ![s] = NoResource]
    /\ lease' = [lease EXCEPT ![s] = 0]
    /\ UNCHANGED <<holder, ttl>>

\* One tick of Redis's clock: every time to live runs down, and the keys
\* whose time is up are gone.
Tick ==
    /\ ttl' = [r \in Resources |-> IF ttl[r] = 0 THEN 0 ELSE ttl[r] - 1]
    /\ holder' = [r \in Resources |-> IF ttl[r] = 1 THEN NoUser ELSE holder[r]]
    /\ lease' = [s \in Sessions |-> IF lease[s] = 0 THEN 0 ELSE lease[s] - 1]
    /\ UNCHANGED editing

Next ==
    \/ \E s \in Sessions, r \in Resources : Open(s, r)
    \/ \E s \in Sessions : Heartbeat(s) \/ Close(s) \/ Vanish(s)
    \/ Tick

Spec == Init /\ [][Next]_vars

\* Time passes whatever the sessions do; nothing else is promised to happen.
FairSpec == Spec /\ WF_vars(Tick)

-----------------------------------------------------------------------------
(* Properties.                                                             *)

\* A key exists exactly while its time to live runs: no SET without PX, no
\* DEL or expiry that leaves one half behind.
KeyIffTtl == \A r \in Resources : holder[r] = NoUser <=> ttl[r] = 0

\* The point of the lock: a session that acquired or renewed its lock less
\* than a time to live ago is still the holder, whatever other sessions
\* release, renew or let expire in the meantime.
LeaseHonoured ==
    \A s \in Sessions : lease[s] > 0 => holder[editing[s]] = UserOf[s]

\* Hence two sessions never edit the same record under live leases.
OneLiveEditor ==
    \A s, t \in Sessions :
        (s # t /\ lease[s] > 0 /\ lease[t] > 0) => editing[s] # editing[t]

\* ADR-080: when the pings stop, the key expires and the lock releases.
AbandonedLockLapses ==
    \A r \in Resources :
        (\A s \in Sessions : editing[s] # r) ~> (holder[r] = NoUser)

\* Each user edits in one session only.  Without this LeaseHonoured fails:
\* the key cannot tell two sessions of one user apart.
OneSessionPerUser ==
    \A s, t \in Sessions : UserOf[s] = UserOf[t] => s = t

\* The service implements the lock its callers rely on.
Lease == INSTANCE LeaseLock WITH holder <- holder
LeaseLockSpec == Lease!LockSpec
=============================================================================
