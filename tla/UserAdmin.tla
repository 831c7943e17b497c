------------------------------ MODULE UserAdmin ------------------------------
(***************************************************************************)
(* The users of a tenant and their audit pointers (UsersService), with     *)
(* what RolesService.remove does to them.                                  *)
(*                                                                         *)
(* Every check (the user exists, the role exists, another Admin is left)   *)
(* is a query of its own before the query that relies on it, and a removal *)
(* is three updates without a transaction.  A call in progress occupies a  *)
(* slot.  A call whose check fails changes nothing, which is no step here; *)
(* that is also how the check of e-mail and user name appears, since no    *)
(* property depends on who has which name.                                 *)
(***************************************************************************)
EXTENDS Naturals, FiniteSets

CONSTANTS
    Users,         \* rows of User, those not yet created included
    Founders,      \* the users the tenant starts with, all of them Admins
    Roles,         \* rows of Role
    Admin,         \* the role with the name `Admin`
    Requests,      \* slots for calls in progress
    None           \* NULL, and a field that a PATCH leaves out

ASSUME UserAdminAssumption ==
    /\ Founders \subseteq Users /\ Founders # {}
    /\ Admin \in Roles
    /\ None \notin Users /\ None \notin Roles

VARIABLES
    users,         \* users[u]: the row of u, or NoUser
    roles,         \* the roles that exist
    req,           \* req[s]: the call in progress in slot s, or Idle
    broken         \* what happened so far of what the properties assume away

userVars == <<users, roles, req, broken>>

-----------------------------------------------------------------------------
NoUser == [state |-> "absent"]

Row == [state : {"live", "removed"}, role : Roles \cup {None},
        createdBy : Users \cup {None}, updatedBy : Users \cup {None}]

Idle == [op |-> "idle"]

\* A create, an update and a change of password carry what is to be written
\* and who writes it; a removal its user, the target of the transfer and how
\* far it has come.
Call ==
    [op : {"create", "update", "password"}, user : Users, role : Roles \cup {None}, actor : Users]
        \cup [op : {"saved"}, user : Users]
        \cup [op : {"found", "counted", "createdBy", "updatedBy"}, user : Users, to : Users]
        \cup [op : {"removeRole", "moved"}, role : Roles, to : Roles]

Assumptions == {"removalsOverlap", "adminDemoted", "removedUserWrites"}

\* The rows of User, which refer to roles that exist, and the calls in progress.
UsersTypeOK ==
    /\ users \in [Users -> Row \cup {NoUser}]
    /\ roles \subseteq Roles
    /\ \A u \in Users : users[u] = NoUser \/ users[u].role \in roles \cup {None}
    /\ req \in [Requests -> Call \cup {Idle}]
    /\ broken \subseteq Assumptions

UsersInit ==
    /\ users = [u \in Users |->
          IF u \in Founders
            THEN [state |-> "live", role |-> Admin, createdBy |-> None, updatedBy |-> None]
            ELSE NoUser]
    /\ roles = Roles
    /\ req = [s \in Requests |-> Idle]
    /\ broken = {}

Live(u) == users[u].state = "live"
Living == {u \in Users : Live(u)}
Rows == {u \in Users : users[u].state # "absent"}
Admins == {u \in Living : users[u].role = Admin}

Removing == {s \in Requests : req[s].op \in {"found", "counted", "createdBy", "updatedBy"}}
BeingRemoved(u) == \E s \in Removing : req[s].user = u

Begin(s, call) == req[s] = Idle /\ req' = [req EXCEPT ![s] = call]
Goto(s, op) == req' = [req EXCEPT ![s].op = op]
Finish(s) == req' = [req EXCEPT ![s] = Idle]

Breaks(assumption, condition) == broken' = IF condition THEN broken \cup {assumption} ELSE broken

-----------------------------------------------------------------------------
(* POST /users, PATCH /users/:id and /users/me, and the two password routes *)

\* The actor is whoever a token names: its row exists, and may be removed.
BeginSave(s, op, u, role, actor) ==
    /\ op = "create" => /\ users[u] = NoUser
                        /\ \A r \in Requests : req[r].op = "create" => req[r].user # u
    /\ op # "create" => Live(u)
    /\ op = "password" => role = None
    /\ role \in roles \cup {None}
    /\ actor \in Rows
    /\ Begin(s, [op |-> op, user |-> u, role |-> role, actor |-> actor])
    /\ UNCHANGED <<users, roles, broken>>

Written(c) ==
    IF c.op = "create"
      THEN [state |-> "live", role |-> c.role, createdBy |-> c.actor, updatedBy |-> c.actor]
      ELSE [users[c.user] EXCEPT !.role = IF c.role = None THEN @ ELSE c.role,
                                 !.updatedBy = c.actor]

Demotes(c) == users[c.user].state # "absent" /\ users[c.user].role = Admin
              /\ c.role \notin {None, Admin}

\* The row is written whatever became of it since the check; the foreign key
\* asks that the role is still there.  Only create and update are followed by
\* an enqueue.
SaveUser(s) ==
    LET c == req[s] IN
    /\ c.op \in {"create", "update", "password"}
    /\ c.role \in roles \cup {None}
    /\ users' = [users EXCEPT ![c.user] = Written(c)]
    /\ req' = [req EXCEPT ![s] = IF c.op = "password" THEN Idle ELSE [op |-> "saved", user |-> c.user]]
    /\ broken' = broken
          \cup (IF Demotes(c) THEN {"adminDemoted"} ELSE {})
          \cup (IF ~Live(c.actor) \/ BeingRemoved(c.actor) THEN {"removedUserWrites"} ELSE {})
    /\ UNCHANGED roles

\* quickBooksSync.enqueue has returned
Saved(s) ==
    /\ req[s].op = "saved"
    /\ Finish(s)
    /\ UNCHANGED <<users, roles, broken>>

-----------------------------------------------------------------------------
(* DELETE /users/:id                                                       *)

RemoveFind(s, u, to) ==
    /\ u # to
    /\ Live(u) /\ Live(to)
    /\ Begin(s, [op |-> "found", user |-> u, to |-> to])
    /\ Breaks("removalsOverlap", Removing # {})
    /\ UNCHANGED <<users, roles>>

\* Mutant of CountAdmins: the user itself is counted.
CountAdminsAll(s) ==
    /\ req[s].op = "found"
    /\ users[req[s].user].role = Admin => Admins # {}
    /\ Goto(s, "counted")
    /\ UNCHANGED <<users, roles, broken>>

\* The last Admin is not removed.
CountAdmins(s) ==
    /\ req[s].op = "found"
    /\ users[req[s].user].role = Admin => Admins \ {req[s].user} # {}
    /\ Goto(s, "counted")
    /\ UNCHANGED <<users, roles, broken>>

TransferCreated(s) ==
    /\ req[s].op = "counted"
    /\ users' = [u \in Users |->
          IF u \in Rows /\ users[u].createdBy = req[s].user
            THEN [users[u] EXCEPT !.createdBy = req[s].to] ELSE users[u]]
    /\ Goto(s, "createdBy")
    /\ UNCHANGED <<roles, broken>>

\* Mutant of TransferUpdated: like the other queries of the service, it looks
\* only at the rows that are not removed.
TransferUpdatedLiving(s) ==
    /\ req[s].op = "createdBy"
    /\ users' = [u \in Users |->
          IF Live(u) /\ users[u].updatedBy = req[s].user
            THEN [users[u] EXCEPT !.updatedBy = req[s].to] ELSE users[u]]
    /\ Goto(s, "updatedBy")
    /\ UNCHANGED <<roles, broken>>

TransferUpdated(s) ==
    /\ req[s].op = "createdBy"
    /\ users' = [u \in Users |->
          IF u \in Rows /\ users[u].updatedBy = req[s].user
            THEN [users[u] EXCEPT !.updatedBy = req[s].to] ELSE users[u]]
    /\ Goto(s, "updatedBy")
    /\ UNCHANGED <<roles, broken>>

SoftDelete(s) ==
    /\ req[s].op = "updatedBy"
    /\ users' = [users EXCEPT ![req[s].user].state = "removed"]
    /\ Finish(s)
    /\ UNCHANGED <<roles, broken>>

-----------------------------------------------------------------------------
(* DELETE /roles/:id, as far as it touches users                           *)

RemoveRoleFind(s, r, to) ==
    /\ r # to
    /\ r \in roles /\ to \in roles
    /\ Begin(s, [op |-> "removeRole", role |-> r, to |-> to])
    /\ UNCHANGED <<users, roles, broken>>

MoveMembers(s) ==
    LET c == req[s] IN
    /\ c.op = "removeRole"
    /\ c.to \in roles
    /\ users' = [u \in Users |->
          IF u \in Rows /\ users[u].role = c.role
            THEN [users[u] EXCEPT !.role = c.to] ELSE users[u]]
    /\ Goto(s, "moved")
    /\ Breaks("adminDemoted", c.role = Admin)
    /\ UNCHANGED roles

\* The foreign key restricts: a role that someone has got meanwhile stays.
DeleteRole(s) ==
    /\ req[s].op = "moved"
    /\ \A u \in Rows : users[u].role # req[s].role
    /\ roles' = roles \ {req[s].role}
    /\ Finish(s)
    /\ UNCHANGED <<users, broken>>

-----------------------------------------------------------------------------
\* A query fails, or the server stops.
Abort(s) ==
    /\ req[s] # Idle
    /\ Finish(s)
    /\ UNCHANGED <<users, roles, broken>>

BeginCall(s) ==
    \/ \E op \in {"create", "update", "password"}, u, actor \in Users, role \in Roles \cup {None} :
          BeginSave(s, op, u, role, actor)
    \/ \E u, to \in Users : RemoveFind(s, u, to)
    \/ \E r, to \in Roles : RemoveRoleFind(s, r, to)

RemoveStep(s) ==
    CountAdmins(s) \/ TransferCreated(s) \/ TransferUpdated(s) \/ SoftDelete(s)

RoleStep(s) == MoveMembers(s) \/ DeleteRole(s)

UsersNext ==
    \E s \in Requests :
        BeginCall(s) \/ SaveUser(s) \/ Saved(s) \/ RemoveStep(s) \/ RoleStep(s) \/ Abort(s)

UsersSpec == UsersInit /\ [][UsersNext]_userVars

-----------------------------------------------------------------------------
(* Properties.                                                             *)

\* remove: as long as removals do not overlap and nobody takes the role from
\* an Admin, which update and the removal of the role do not refuse, an Admin
\* is left, also after removals that end halfway.
AnAdminRemains ==
    broken \cap {"removalsOverlap", "adminDemoted"} = {} => Admins # {}

\* remove: as long as removals do not overlap and no removed user goes on
\* writing with a token that is still valid, no row of a user names a removed
\* one as the one who created or last changed it.
PointersAreLiving ==
    broken \cap {"removalsOverlap", "removedUserWrites"} = {} =>
        \A u \in Rows : {users[u].createdBy, users[u].updatedBy} \subseteq Living \cup {None}
=============================================================================
