------------------------------ MODULE LeaseLock ------------------------------
(***************************************************************************)
(* What the concurrent-edit lock promises its callers, with Redis's clock  *)
(* abstracted away: every resource has at most one holder, a free resource *)
(* can be taken, a holder can give up what it holds and nothing else, and  *)
(* leases lapse.  EditLock implements this specification; Timeclock uses   *)
(* it as the lock it guards its override with.                             *)
(***************************************************************************)
CONSTANTS
    Users,      \* the internal user ids written as the value of a lock key
    Resources,  \* what can be locked: the `resourceType:resourceId` keys
    NoUser      \* the key does not exist

ASSUME NoUserAssumption == NoUser \notin Users

VARIABLE holder  \* holder[r]: the value stored under the key of r

LockTypeOK == holder \in [Resources -> Users \cup {NoUser}]

LockInit == holder = [r \in Resources |-> NoUser]

\* SET key user NX answered OK.
Take(u, r) ==
    /\ holder[r] = NoUser
    /\ holder' = [holder EXCEPT ![r] = u]

\* Compare-and-delete: without effect on a key that holds another user.
GiveUp(u, r) ==
    holder' = [holder EXCEPT ![r] = IF @ = u THEN NoUser ELSE @]

\* The leases of R run out together.
Lapse(R) ==
    holder' = [r \in Resources |-> IF r \in R THEN NoUser ELSE holder[r]]

\* isHeldBy: GET key, compared with the caller.
IsHeldBy(u, r) == holder[r] = u

LockNext ==
    \/ \E u \in Users, r \in Resources : Take(u, r) \/ GiveUp(u, r)
    \/ \E R \in SUBSET Resources : Lapse(R)

LockSpec == LockInit /\ [][LockNext]_holder
=============================================================================
