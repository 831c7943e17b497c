--------------------------- MODULE UserAdminProofs ---------------------------
(***************************************************************************)
(* Proofs about UserAdmin, for any number of users, roles and calls in     *)
(* progress.                                                               *)
(***************************************************************************)
EXTENDS UserAdmin, FiniteSetTheorems, TLAPS

\* Only one call creates a given row, and the row is not there before; an
\* update or a removal has found its row, and rows never go away.
CallsFitRows ==
    /\ \A s \in Requests : req[s].op = "create" =>
          /\ users[req[s].user] = NoUser
          /\ \A r \in Requests : req[r].op = "create" /\ req[r].user = req[s].user => r = s
    /\ \A s \in Requests : req[s].op \in {"update", "password"} => users[req[s].user] # NoUser
    /\ \A s \in Removing : users[req[s].user] # NoUser

OneRemoval == \A s, r \in Removing : s = r

\* Once a removal has counted, an Admin other than its user is left.
OthersRemain ==
    /\ Admins # {}
    /\ \A s \in Removing : req[s].op # "found" => Admins \ {req[s].user} # {}

AdminInv ==
    broken \cap {"removalsOverlap", "adminDemoted"} = {} => OneRemoval /\ OthersRemain

\* What a removal has transferred stays transferred.
Transferred ==
    /\ PointersAreLiving
    /\ \A s \in Removing :
          /\ req[s].to \in Living /\ req[s].to # req[s].user
          /\ req[s].op \in {"createdBy", "updatedBy"} =>
                \A u \in Rows : users[u].createdBy # req[s].user
          /\ req[s].op = "updatedBy" =>
                \A u \in Rows : users[u].updatedBy # req[s].user

PointerInv ==
    broken \cap {"removalsOverlap", "removedUserWrites"} = {} => OneRemoval /\ Transferred

UsersInv == UsersTypeOK /\ CallsFitRows /\ AdminInv /\ PointerInv

-----------------------------------------------------------------------------
(* Facts about the values.                                                 *)

LEMMA RowFacts ==
  ASSUME users \in [Users -> Row \cup {NoUser}], NEW u \in Users
  PROVE  /\ u \in Rows <=> users[u] \in Row
         /\ u \in Rows <=> users[u] # NoUser
         /\ u \in Living => u \in Rows
         /\ u \in Living <=> users[u].state = "live"
         /\ ~Live(u) \/ users[u] \in Row
         /\ users[u] \in Row =>
              /\ users[u].role \in Roles \cup {None}
              /\ users[u].createdBy \in Users \cup {None}
              /\ users[u].updatedBy \in Users \cup {None}
              /\ users[u].state \in {"live", "removed"}
  BY DEF Rows, Row, NoUser, Living, Live

LEMMA CallFields ==
  ASSUME NEW s \in Requests, req \in [Requests -> Call \cup {Idle}]
  PROVE  /\ req[s].op \in {"create", "update", "password"} =>
               /\ req[s].user \in Users /\ req[s].role \in Roles \cup {None} /\ req[s].actor \in Users
         /\ req[s].op \in {"found", "counted", "createdBy", "updatedBy"} =>
               /\ req[s].user \in Users /\ req[s].to \in Users
               /\ req[s] = [op |-> req[s].op, user |-> req[s].user, to |-> req[s].to]
         /\ req[s].op \in {"removeRole", "moved"} =>
               /\ req[s].role \in Roles /\ req[s].to \in Roles
               /\ req[s] = [op |-> req[s].op, role |-> req[s].role, to |-> req[s].to]
         /\ req[s].op = "idle" <=> req[s] = Idle
  BY DEF Call, Idle

LEMMA InitInv == UsersInit => UsersInv
<1> SUFFICES ASSUME UsersInit PROVE UsersInv
  OBVIOUS
<1> USE UserAdminAssumption DEF UsersInit
<1>1. UsersTypeOK
  <2>1. users \in [Users -> Row \cup {NoUser}]
    BY DEF Row, NoUser
  <2>2. \A u \in Users : users[u] = NoUser \/ users[u].role \in roles \cup {None}
    BY DEF NoUser
  <2>3. QED
    BY <2>1, <2>2 DEF UsersTypeOK
<1>3. Removing = {}
  BY DEF Removing, Idle
<1>2. CallsFitRows
  BY <1>3 DEF CallsFitRows, Idle
<1>4. Admins # {}
  <2>1. PICK u : u \in Founders
    OBVIOUS
  <2>2. u \in Admins
    BY <2>1 DEF Admins, Living, Live
  <2>3. QED
    BY <2>2
<1>5. AdminInv
  BY <1>3, <1>4 DEF AdminInv, OneRemoval, OthersRemain
<1>6. PointerInv
  <2>1. \A u \in Rows : users[u].createdBy = None /\ users[u].updatedBy = None
    BY DEF Rows, NoUser
  <2>2. QED
    BY <1>3, <2>1 DEF PointerInv, OneRemoval, Transferred, PointersAreLiving
<1>7. QED
  BY <1>1, <1>2, <1>5, <1>6 DEF UsersInv

-----------------------------------------------------------------------------
(* Steps that write no row of User.                                        *)

\* What a step does to the calls in progress, as far as removals see it.
LEMMA CallStep ==
  ASSUME UsersInv, UNCHANGED users, UsersTypeOK', CallsFitRows',
         broken \subseteq broken',
         NEW s \in Requests,
         \A r \in Requests \ {s} : req'[r] = req[r],
         \/ s \notin Removing'
         \/ /\ s \in Removing
            /\ req[s].op = "found" /\ req'[s].op = "counted"
            /\ req'[s].user = req[s].user /\ req'[s].to = req[s].to
            /\ users[req[s].user].role = Admin => Admins \ {req[s].user} # {}
         \/ /\ req'[s].op = "found"
            /\ Removing \subseteq {s} \/ "removalsOverlap" \in broken'
            /\ req'[s].to \in Living /\ req'[s].to # req'[s].user
  PROVE  UsersInv'
<1> USE DEF UsersInv
<1>1. /\ \A u : u \in Rows' <=> u \in Rows
      /\ \A u : u \in Living' <=> u \in Living
      /\ \A u : u \in Admins' <=> u \in Admins
  BY DEF Rows, Living, Live, Admins
<1>2. Admins' = Admins /\ Rows' = Rows /\ Living' = Living
  BY DEF Rows, Living, Live, Admins
<1>3. \A r \in Requests \ {s} : r \in Removing' <=> r \in Removing
  BY DEF Removing
<1>4. Removing \subseteq Requests /\ Removing' \subseteq Requests
  BY DEF Removing
<1>5. "removalsOverlap" \notin broken' => (OneRemoval => OneRemoval')
  BY <1>3, <1>4 DEF OneRemoval, Removing
<1>6. "removalsOverlap" \notin broken' => (OthersRemain => OthersRemain')
  <2> SUFFICES ASSUME "removalsOverlap" \notin broken', OthersRemain,
                      NEW r \in Removing', req'[r].op # "found"
               PROVE  Admins \ {req'[r].user} # {}
    BY <1>2 DEF OthersRemain
  <2>1. CASE r # s
    BY <2>1, <1>3, <1>4 DEF OthersRemain
  <2>2. CASE r = s
    <3>1. /\ req[s].op = "found" /\ req'[s].user = req[s].user
          /\ users[req[s].user].role = Admin => Admins \ {req[s].user} # {}
      BY <2>2
    <3>2. CASE users[req[s].user].role = Admin
      BY <3>1, <3>2, <2>2
    <3>3. CASE users[req[s].user].role # Admin
      <4>1. req[s].user \notin Admins
        BY <3>3 DEF Admins
      <4>2. QED
        BY <4>1, <3>1, <2>2 DEF OthersRemain
    <3>4. QED
      BY <3>2, <3>3
  <2>3. QED
    BY <2>1, <2>2
<1>7. AdminInv'
  BY <1>5, <1>6 DEF AdminInv
<1>8. ASSUME "removalsOverlap" \notin broken', "removedUserWrites" \notin broken', Transferred
      PROVE  Transferred'
  <2>1. PointersAreLiving'
    BY <1>2, <1>8 DEF Transferred, PointersAreLiving
  <2>2. ASSUME NEW r \in Removing'
        PROVE  /\ req'[r].to \in Living' /\ req'[r].to # req'[r].user
               /\ req'[r].op \in {"createdBy", "updatedBy"} =>
                     \A u \in Rows' : users'[u].createdBy # req'[r].user
               /\ req'[r].op = "updatedBy" =>
                     \A u \in Rows' : users'[u].updatedBy # req'[r].user
    <3>1. CASE r # s
      BY <3>1, <1>2, <1>3, <1>4, <1>8, <2>2 DEF Transferred
    <3>2. CASE r = s
      BY <3>2, <1>2, <1>8, <2>2 DEF Transferred
    <3>3. QED
      BY <3>1, <3>2
  <2>3. QED
    BY <2>1, <2>2 DEF Transferred
<1>9. PointerInv'
  BY <1>5, <1>8 DEF PointerInv
<1>10. QED
  BY <1>7, <1>9

-----------------------------------------------------------------------------
(* Types, and that a new row is created once.                              *)

LEMMA BeginTyping ==
  ASSUME UsersInv, NEW s \in Requests, BeginCall(s)
  PROVE  /\ UsersTypeOK' /\ CallsFitRows' /\ UNCHANGED <<users, roles>>
         /\ broken \subseteq broken'
<1> USE UserAdminAssumption DEF UsersInv
<1>1. ASSUME NEW op \in {"create", "update", "password"}, NEW u \in Users, NEW a \in Users,
             NEW role \in Roles \cup {None}, BeginSave(s, op, u, role, a)
      PROVE  UsersTypeOK' /\ CallsFitRows' /\ UNCHANGED <<users, roles>> /\ broken \subseteq broken'
  <2> DEFINE c == [op |-> op, user |-> u, role |-> role, actor |-> a]
  <2>1. /\ req' = [req EXCEPT ![s] = c] /\ req[s] = Idle /\ c \in Call
        /\ UNCHANGED <<users, roles, broken>>
    BY <1>1 DEF BeginSave, Begin, Call
  <2>2. req' \in [Requests -> Call \cup {Idle}]
    BY <2>1 DEF UsersTypeOK
  <2>3. UsersTypeOK'
    BY <2>1, <2>2 DEF UsersTypeOK
  <2>4. op = "create" => users[u] = NoUser
    BY <1>1 DEF BeginSave
  <2>5. /\ op = "create" => \A r \in Requests : req[r].op = "create" => req[r].user # u
        /\ op # "create" => users[u] # NoUser
    BY <1>1 DEF BeginSave, Live, NoUser
  <2>6. /\ req'[s].op = op /\ req'[s].user = u
        /\ \A r \in Requests \ {s} : req'[r] = req[r]
    BY <2>1 DEF UsersTypeOK
  <2>7. CallsFitRows'
    BY <2>1, <2>4, <2>5, <2>6 DEF CallsFitRows, Removing
  <2>8. QED
    BY <2>1, <2>3, <2>7
<1>2. ASSUME NEW u \in Users, NEW to \in Users, RemoveFind(s, u, to)
      PROVE  UsersTypeOK' /\ CallsFitRows' /\ UNCHANGED <<users, roles>> /\ broken \subseteq broken'
  <2>1. /\ req' = [req EXCEPT ![s] = [op |-> "found", user |-> u, to |-> to]]
        /\ [op |-> "found", user |-> u, to |-> to] \in Call
        /\ UNCHANGED <<users, roles>>
        /\ broken' \in {broken, broken \cup {"removalsOverlap"}}
    BY <1>2 DEF RemoveFind, Begin, Breaks, Call
  <2>2. UsersTypeOK'
    BY <2>1 DEF UsersTypeOK, Assumptions
  <2>3. users[u] # NoUser
    <3>1. users[u].state = "live"
      BY <1>2 DEF RemoveFind, Live
    <3>2. QED
      BY <3>1 DEF NoUser
  <2>4. /\ req'[s].op = "found" /\ req'[s].user = u
        /\ \A r \in Requests \ {s} : req'[r] = req[r]
    BY <2>1 DEF UsersTypeOK
  <2>5. CallsFitRows'
    <3>1. \A r \in Requests : req'[r].op \in {"create", "update", "password"} =>
              r # s /\ req'[r] = req[r]
      BY <2>4
    <3>2. Removing' \subseteq Removing \cup {s}
      BY <2>4 DEF Removing
    <3>3. \A r \in Requests : req'[r].op = "create" =>
             /\ users'[req'[r].user] = NoUser
             /\ \A q \in Requests : req'[q].op = "create" /\ req'[q].user = req'[r].user => q = r
      BY <2>1, <3>1 DEF CallsFitRows
    <3>4. \A r \in Requests : req'[r].op \in {"update", "password"} => users'[req'[r].user] # NoUser
      BY <2>1, <3>1 DEF CallsFitRows
    <3>5. \A r \in Removing' : users'[req'[r].user] # NoUser
      <4> SUFFICES ASSUME NEW r \in Removing' PROVE users'[req'[r].user] # NoUser
        OBVIOUS
      <4>1. CASE r = s
        BY <4>1, <2>1, <2>3, <2>4
      <4>2. CASE r # s
        BY <4>2, <2>1, <2>4, <3>2 DEF CallsFitRows, Removing
      <4>3. QED
        BY <4>1, <4>2
    <3>6. QED
      BY <3>3, <3>4, <3>5 DEF CallsFitRows, NoUser
  <2>6. QED
    BY <2>1, <2>2, <2>5
<1>3. ASSUME NEW r \in Roles, NEW to \in Roles, RemoveRoleFind(s, r, to)
      PROVE  UsersTypeOK' /\ CallsFitRows' /\ UNCHANGED <<users, roles>> /\ broken \subseteq broken'
  <2>1. /\ req' = [req EXCEPT ![s] = [op |-> "removeRole", role |-> r, to |-> to]]
        /\ [op |-> "removeRole", role |-> r, to |-> to] \in Call
        /\ UNCHANGED <<users, roles, broken>>
    BY <1>3 DEF RemoveRoleFind, Begin, Call
  <2>2. UsersTypeOK'
    BY <2>1 DEF UsersTypeOK
  <2>3. CallsFitRows'
    BY <2>1 DEF UsersTypeOK, CallsFitRows, Removing
  <2>4. QED
    BY <2>1, <2>2, <2>3
<1>4. QED
  BY <1>1, <1>2, <1>3 DEF BeginCall

\* A step that ends a call, or takes a removal one step further.
LEMMA GotoTyping ==
  ASSUME UsersInv, NEW s \in Requests,
         \/ req' = [req EXCEPT ![s] = Idle]
         \/ /\ req[s].op \in {"create", "update"}
            /\ req' = [req EXCEPT ![s] = [op |-> "saved", user |-> req[s].user]]
         \/ /\ req[s].op \in {"found", "counted", "createdBy", "updatedBy"}
            /\ \E op \in {"counted", "createdBy", "updatedBy"} : req' = [req EXCEPT ![s].op = op]
         \/ req[s].op = "removeRole" /\ req' = [req EXCEPT ![s].op = "moved"]
  PROVE  /\ req' \in [Requests -> Call \cup {Idle}]
         /\ \A r \in Requests \ {s} : req'[r] = req[r]
         /\ req'[s].op \notin {"create", "update", "password"}
         /\ s \in Removing' => s \in Removing /\ req'[s].user = req[s].user
<1> USE CallFields DEF UsersInv, UsersTypeOK, Removing
<1>1. CASE req' = [req EXCEPT ![s] = Idle]
  BY <1>1 DEF Idle
<1>2. CASE /\ req[s].op \in {"create", "update"}
           /\ req' = [req EXCEPT ![s] = [op |-> "saved", user |-> req[s].user]]
  <2>1. [op |-> "saved", user |-> req[s].user] \in Call
    BY <1>2 DEF Call
  <2>2. QED
    BY <1>2, <2>1
<1>3. ASSUME req[s].op \in {"found", "counted", "createdBy", "updatedBy"},
             NEW op \in {"counted", "createdBy", "updatedBy"}, req' = [req EXCEPT ![s].op = op]
      PROVE  /\ req' \in [Requests -> Call \cup {Idle}]
             /\ \A r \in Requests \ {s} : req'[r] = req[r]
             /\ req'[s].op \notin {"create", "update", "password"}
             /\ s \in Removing' => s \in Removing /\ req'[s].user = req[s].user
  <2>1. [req[s] EXCEPT !.op = op] = [op |-> op, user |-> req[s].user, to |-> req[s].to]
    BY <1>3
  <2>2. [op |-> op, user |-> req[s].user, to |-> req[s].to] \in Call
    BY <1>3 DEF Call
  <2>3. req' = [req EXCEPT ![s] = [op |-> op, user |-> req[s].user, to |-> req[s].to]]
    BY <1>3, <2>1
  <2>4. req'[s].user = req[s].user /\ req'[s].op = op
    BY <2>3
  <2>5. QED
    BY <1>3, <2>2, <2>3, <2>4
<1>4. CASE req[s].op = "removeRole" /\ req' = [req EXCEPT ![s].op = "moved"]
  <2>1. [req[s] EXCEPT !.op = "moved"] = [op |-> "moved", role |-> req[s].role, to |-> req[s].to]
    BY <1>4
  <2>2. [op |-> "moved", role |-> req[s].role, to |-> req[s].to] \in Call
    BY <1>4 DEF Call
  <2>3. req' = [req EXCEPT ![s] = [op |-> "moved", role |-> req[s].role, to |-> req[s].to]]
    BY <1>4, <2>1
  <2>4. QED
    BY <2>2, <2>3
<1>5. QED
  BY <1>1, <1>2, <1>3, <1>4

LEMMA DeleteRoleTyping ==
  ASSUME UsersInv, NEW s \in Requests, DeleteRole(s)
  PROVE  UsersTypeOK' /\ CallsFitRows'
<1> USE DEF UsersInv, DeleteRole, Finish
<1>1. /\ req' \in [Requests -> Call \cup {Idle}]
      /\ \A r \in Requests \ {s} : req'[r] = req[r]
      /\ req'[s].op \notin {"create", "update", "password"}
      /\ s \in Removing' => s \in Removing /\ req'[s].user = req[s].user
  BY GotoTyping
<1>2. \A u \in Users : users[u] = NoUser \/ users[u].role \in roles' \cup {None}
  BY RowFacts DEF UsersTypeOK
<1>3. UsersTypeOK'
  BY <1>1, <1>2 DEF UsersTypeOK
<1>4. CallsFitRows'
  BY <1>1 DEF CallsFitRows, Removing
<1>5. QED
  BY <1>3, <1>4

LEMMA CallStepsInv ==
  ASSUME UsersInv, NEW s \in Requests,
         BeginCall(s) \/ Saved(s) \/ CountAdmins(s) \/ DeleteRole(s) \/ Abort(s)
  PROVE  UsersInv'
<1> USE DEF UsersInv
<1>1. CASE BeginCall(s)
  <2>1. /\ UsersTypeOK' /\ CallsFitRows' /\ UNCHANGED <<users, roles>>
        /\ broken \subseteq broken'
    BY <1>1, BeginTyping
  <2>2. ASSUME NEW op \in {"create", "update", "password"}, NEW u \in Users, NEW a \in Users,
               NEW role \in Roles \cup {None}, BeginSave(s, op, u, role, a)
        PROVE  UsersInv'
    <3>1. /\ \A r \in Requests \ {s} : req'[r] = req[r]
          /\ s \notin Removing'
      BY <2>2 DEF BeginSave, Begin, UsersTypeOK, Removing
    <3>2. QED
      BY <2>1, <3>1, CallStep
  <2>3. ASSUME NEW u \in Users, NEW to \in Users, RemoveFind(s, u, to)
        PROVE  UsersInv'
    <3>1. /\ \A r \in Requests \ {s} : req'[r] = req[r]
          /\ req'[s].op = "found" /\ req'[s].user = u /\ req'[s].to = to
          /\ u # to /\ to \in Living
          /\ Removing # {} => "removalsOverlap" \in broken'
      BY <2>3 DEF RemoveFind, Begin, Breaks, UsersTypeOK, Living
    <3>2. QED
      BY <2>1, <3>1, CallStep
  <2>4. ASSUME NEW r \in Roles, NEW to \in Roles, RemoveRoleFind(s, r, to)
        PROVE  UsersInv'
    <3>1. /\ \A q \in Requests \ {s} : req'[q] = req[q]
          /\ s \notin Removing'
      BY <2>4 DEF RemoveRoleFind, Begin, UsersTypeOK, Removing
    <3>2. QED
      BY <2>1, <3>1, CallStep
  <2>5. QED
    BY <1>1, <2>2, <2>3, <2>4 DEF BeginCall
<1>2. CASE Saved(s) \/ Abort(s)
  <2>1. /\ req' = [req EXCEPT ![s] = Idle] /\ UNCHANGED <<users, roles, broken>>
    BY <1>2 DEF Saved, Abort, Finish
  <2>2. /\ req' \in [Requests -> Call \cup {Idle}]
        /\ \A r \in Requests \ {s} : req'[r] = req[r]
        /\ req'[s].op \notin {"create", "update", "password"}
        /\ s \in Removing' => s \in Removing /\ req'[s].user = req[s].user
    BY <2>1, GotoTyping
  <2>3. UsersTypeOK'
    BY <2>1, <2>2 DEF UsersTypeOK
  <2>4. CallsFitRows'
    BY <2>1, <2>2 DEF CallsFitRows, Removing
  <2>5. s \notin Removing'
    BY <2>1 DEF UsersTypeOK, Removing, Idle
  <2>6. QED
    BY <2>1, <2>2, <2>3, <2>4, <2>5, CallStep
<1>3. CASE CountAdmins(s)
  <2>1. /\ req' = [req EXCEPT ![s].op = "counted"] /\ UNCHANGED <<users, roles, broken>>
        /\ req[s].op = "found"
        /\ users[req[s].user].role = Admin => Admins \ {req[s].user} # {}
    BY <1>3 DEF CountAdmins, Goto
  <2>2. /\ req' \in [Requests -> Call \cup {Idle}]
        /\ \A r \in Requests \ {s} : req'[r] = req[r]
        /\ req'[s].op \notin {"create", "update", "password"}
        /\ s \in Removing' => s \in Removing /\ req'[s].user = req[s].user
    BY <2>1, GotoTyping
  <2>3. UsersTypeOK'
    BY <2>1, <2>2 DEF UsersTypeOK
  <2>4. CallsFitRows'
    BY <2>1, <2>2 DEF CallsFitRows, Removing
  <2>5. /\ s \in Removing /\ req'[s].op = "counted"
        /\ req'[s].user = req[s].user /\ req'[s].to = req[s].to
    BY <2>1, CallFields DEF UsersTypeOK, Removing
  <2>6. QED
    BY <2>1, <2>2, <2>3, <2>4, <2>5, CallStep
<1>4. CASE DeleteRole(s)
  <2>1. UsersTypeOK' /\ CallsFitRows'
    BY <1>4, DeleteRoleTyping
  <2>2. /\ s \notin Removing' /\ \A r \in Requests \ {s} : req'[r] = req[r]
        /\ UNCHANGED <<users, broken>>
    BY <1>4 DEF DeleteRole, Finish, UsersTypeOK, Removing, Idle
  <2>3. QED
    BY <2>1, <2>2, CallStep
<1>5. QED
  BY <1>1, <1>2, <1>3, <1>4

-----------------------------------------------------------------------------
(* Steps that write rows of User.                                          *)

LEMMA SaveInv ==
  ASSUME UsersInv, NEW s \in Requests, SaveUser(s)
  PROVE  UsersInv'
<1> USE UserAdminAssumption DEF UsersInv
<1> DEFINE c == req[s]
           x == c.user
           row == Written(c)
<1>1. /\ c.op \in {"create", "update", "password"}
      /\ x \in Users /\ c.actor \in Users /\ c.role \in roles \cup {None}
      /\ users' = [users EXCEPT ![x] = row]
      /\ UNCHANGED roles
  BY CallFields DEF SaveUser, UsersTypeOK
<1>2. /\ req' \in [Requests -> Call \cup {Idle}]
      /\ \A r \in Requests \ {s} : req'[r] = req[r]
      /\ req'[s].op \notin {"create", "update", "password"}
      /\ s \in Removing' => s \in Removing /\ req'[s].user = req[s].user
  <2>1. \/ req' = [req EXCEPT ![s] = Idle]
        \/ /\ req[s].op \in {"create", "update"}
           /\ req' = [req EXCEPT ![s] = [op |-> "saved", user |-> req[s].user]]
    BY DEF SaveUser
  <2>2. QED
    BY <2>1, GotoTyping
<1>3. s \notin Removing /\ s \notin Removing'
  BY <1>1 DEF SaveUser, UsersTypeOK, Removing, Idle
<1>4. Removing' = Removing /\ \A r \in Removing : req'[r] = req[r]
  BY <1>2, <1>3 DEF Removing
<1> DEFINE Fits ==
             /\ row \in Row /\ row # NoUser /\ row.role \in roles \cup {None}
             /\ row.updatedBy = c.actor
             /\ \/ row.createdBy = c.actor
                \/ users[x] \in Row /\ row.createdBy = users[x].createdBy
             /\ x \in Living => /\ row.state = "live" /\ c.op # "create"
                               /\ row.role = IF c.role = None THEN users[x].role ELSE c.role
<1>5. ASSUME c.op = "create" PROVE Fits
  <2>1. users[x] = NoUser
    BY <1>5 DEF CallsFitRows
  <2>2. row = [state |-> "live", role |-> c.role, createdBy |-> c.actor, updatedBy |-> c.actor]
    BY <1>5 DEF Written
  <2>3. /\ row \in Row /\ row # NoUser /\ row.role \in roles \cup {None}
        /\ row.state = "live" /\ row.createdBy = c.actor /\ row.updatedBy = c.actor
    BY <1>1, <2>2 DEF Row, NoUser, UsersTypeOK
  <2>4. x \notin Living
    BY <2>1 DEF NoUser, Live, Living
  <2> HIDE DEF row
  <2>5. QED
    BY <2>3, <2>4
<1>6. ASSUME c.op # "create" PROVE Fits
  <2>1. users[x] \in Row
    BY <1>1, <1>6, RowFacts DEF CallsFitRows, UsersTypeOK
  <2>2. row = [users[x] EXCEPT !.role = IF c.role = None THEN @ ELSE c.role,
                               !.updatedBy = c.actor]
    BY <1>6 DEF Written
  <2>3. users[x].role \in roles \cup {None} /\ users[x] # NoUser
    BY <1>1, <2>1 DEF UsersTypeOK, Row, NoUser
  <2>4. /\ row \in Row /\ row # NoUser
        /\ row.state = users[x].state /\ row.createdBy = users[x].createdBy
        /\ row.updatedBy = c.actor
        /\ row.role = IF c.role = None THEN users[x].role ELSE c.role
    BY <1>1, <2>1, <2>2 DEF Row, NoUser, UsersTypeOK
  <2>5. x \in Living => users[x].state = "live"
    BY DEF Live, Living
  <2> HIDE DEF row
  <2>6. row.role \in roles \cup {None}
    BY <1>1, <2>3, <2>4
  <2>7. QED
    BY <1>6, <2>1, <2>4, <2>5, <2>6
<1>7. Fits
  BY <1>5, <1>6
<1> HIDE DEF row
<1>8. \A u \in Users : users'[u] = IF u = x THEN row ELSE users[u]
  BY <1>1 DEF UsersTypeOK
<1>9. UsersTypeOK'
  <2>1. users' \in [Users -> Row \cup {NoUser}]
    BY <1>1, <1>7 DEF UsersTypeOK
  <2>2. \A u \in Users : users'[u] = NoUser \/ users'[u].role \in roles' \cup {None}
    BY <1>1, <1>7, <1>8 DEF UsersTypeOK
  <2>3. broken' \subseteq Assumptions
    BY DEF SaveUser, UsersTypeOK, Assumptions
  <2>4. QED
    BY <1>1, <1>2, <2>1, <2>2, <2>3 DEF UsersTypeOK
<1>10. CallsFitRows'
  <2>1. ASSUME NEW r \in Requests, req'[r].op = "create"
        PROVE  /\ users'[req'[r].user] = NoUser
               /\ \A q \in Requests : req'[q].op = "create" /\ req'[q].user = req'[r].user => q = r
    <3>1. r # s /\ req[r].op = "create" /\ req'[r] = req[r] /\ req[r].user \in Users
      BY <1>2, <2>1, CallFields DEF UsersTypeOK
    <3>2. req[r].user # x
      BY <1>1, <3>1 DEF CallsFitRows
    <3>3. QED
      BY <1>2, <1>8, <3>1, <3>2 DEF CallsFitRows
  <2>2. ASSUME NEW r \in Requests, req'[r].op \in {"update", "password"}
        PROVE  users'[req'[r].user] # NoUser
    <3>1. r # s /\ req'[r] = req[r] /\ req[r].user \in Users
      BY <1>2, <2>2, CallFields DEF UsersTypeOK
    <3>2. QED
      BY <1>7, <1>8, <2>2, <3>1 DEF CallsFitRows
  <2>3. ASSUME NEW r \in Removing'
        PROVE  users'[req'[r].user] # NoUser
    BY <1>4, <1>7, <1>8, <2>3, CallFields DEF CallsFitRows, UsersTypeOK, Removing
  <2>4. QED
    BY <2>1, <2>2, <2>3 DEF CallsFitRows
<1>11. /\ broken \subseteq broken'
       /\ Demotes(c) => "adminDemoted" \in broken'
       /\ ~Live(c.actor) \/ BeingRemoved(c.actor) => "removedUserWrites" \in broken'
  BY DEF SaveUser
<1>12. Living \subseteq Living'
  BY <1>7, <1>8 DEF Living, Live
<1>13. "adminDemoted" \notin broken' => Admins \subseteq Admins'
  <2> SUFFICES ASSUME "adminDemoted" \notin broken', NEW u \in Admins PROVE u \in Admins'
    OBVIOUS
  <2>1. u \in Users /\ u \in Living /\ users[u].role = Admin
    BY DEF Admins, Living
  <2>2. CASE u # x
    BY <1>8, <1>12, <2>1, <2>2 DEF Admins
  <2>3. CASE u = x
    <3>1. users[x].state # "absent"
      BY <2>1, <2>3 DEF Living, Live
    <3>2. c.role \in {None, Admin}
      BY <1>11, <2>1, <2>3, <3>1 DEF Demotes
    <3>3. row.role = Admin
      BY <1>7, <2>1, <2>3, <3>2
    <3>4. QED
      BY <1>8, <1>12, <2>1, <2>3, <3>3 DEF Admins
  <2>4. QED
    BY <2>2, <2>3
<1>14. AdminInv'
  <2> SUFFICES ASSUME "removalsOverlap" \notin broken', "adminDemoted" \notin broken'
               PROVE  OneRemoval' /\ OthersRemain'
    BY DEF AdminInv
  <2>1. OneRemoval /\ OthersRemain
    BY <1>11 DEF AdminInv
  <2>2. OneRemoval'
    BY <1>4, <2>1 DEF OneRemoval
  <2>3. Admins' # {}
    BY <1>13, <2>1 DEF OthersRemain
  <2>4. ASSUME NEW r \in Removing', req'[r].op # "found"
        PROVE  Admins' \ {req'[r].user} # {}
    BY <1>4, <1>13, <2>1, <2>4 DEF OthersRemain
  <2>5. QED
    BY <2>2, <2>3, <2>4 DEF OthersRemain
<1>15. PointerInv'
  <2> SUFFICES ASSUME "removalsOverlap" \notin broken', "removedUserWrites" \notin broken'
               PROVE  OneRemoval' /\ Transferred'
    BY DEF PointerInv
  <2>1. OneRemoval /\ Transferred
    BY <1>11 DEF PointerInv
  <2>2. OneRemoval'
    BY <1>4, <2>1 DEF OneRemoval
  <2>3. PointersAreLiving
    BY <2>1 DEF Transferred
  <2>4. c.actor \in Living /\ \A r \in Removing : req[r].user # c.actor
    BY <1>1, <1>11 DEF Living, BeingRemoved
  <2>5. ASSUME NEW u \in Rows'
        PROVE  /\ \/ users'[u].createdBy = c.actor
                  \/ u \in Rows /\ users'[u].createdBy = users[u].createdBy
               /\ \/ users'[u].updatedBy = c.actor
                  \/ u \in Rows /\ users'[u].updatedBy = users[u].updatedBy
    BY <1>7, <1>8, RowFacts DEF Rows, UsersTypeOK
  <2>6. \A u \in Rows : {users[u].createdBy, users[u].updatedBy} \subseteq Living \cup {None}
    BY <1>11, <2>3 DEF PointersAreLiving
  <2>7. PointersAreLiving'
    BY <1>12, <2>4, <2>5, <2>6 DEF PointersAreLiving
  <2>8. ASSUME NEW r \in Removing'
        PROVE  /\ req'[r].to \in Living' /\ req'[r].to # req'[r].user
               /\ req'[r].op \in {"createdBy", "updatedBy"} =>
                     \A u \in Rows' : users'[u].createdBy # req'[r].user
               /\ req'[r].op = "updatedBy" =>
                     \A u \in Rows' : users'[u].updatedBy # req'[r].user
    BY <1>4, <1>12, <2>1, <2>4, <2>5, <2>8 DEF Transferred
  <2>9. QED
    BY <2>2, <2>7, <2>8 DEF Transferred
<1>16. QED
  BY <1>9, <1>10, <1>14, <1>15

\* The rows after a step of a removal, of the user or of a role: the same
\* ones, with other contents.
LEMMA SameRows ==
  ASSUME users \in [Users -> Row \cup {NoUser}], users' \in [Users -> Row \cup {NoUser}],
         CallsFitRows,
         \A u \in Users : users'[u] = NoUser <=> users[u] = NoUser,
         NEW s \in Requests, req \in [Requests -> Call \cup {Idle}],
         \A r \in Requests \ {s} : req'[r] = req[r],
         req'[s].op \notin {"create", "update", "password"},
         s \in Removing' => s \in Removing /\ req'[s].user = req[s].user
  PROVE  CallsFitRows' /\ Rows' = Rows
<1>1. \A u \in Users : u \in Rows' <=> u \in Rows
  BY RowFacts DEF Rows, Row, NoUser
<1>2. /\ \A r \in Requests : req[r].op \in {"create", "update", "password"} => req[r].user \in Users
      /\ \A r \in Removing : req[r].user \in Users
  BY CallFields DEF Removing
<1>3. CallsFitRows'
  BY <1>2 DEF CallsFitRows, Removing
<1>4. QED
  BY <1>1, <1>3 DEF Rows

LEMMA TransferInv ==
  ASSUME UsersInv, NEW s \in Requests, TransferCreated(s) \/ TransferUpdated(s)
  PROVE  UsersInv'
<1> USE UserAdminAssumption DEF UsersInv
<1> DEFINE x == req[s].user
           to == req[s].to
<1>1. /\ x \in Users /\ to \in Users
      /\ UNCHANGED <<roles, broken>>
      /\ \/ /\ req[s].op = "counted" /\ req' = [req EXCEPT ![s].op = "createdBy"]
            /\ users' = [u \in Users |-> IF u \in Rows /\ users[u].createdBy = x
                                           THEN [users[u] EXCEPT !.createdBy = to] ELSE users[u]]
         \/ /\ req[s].op = "createdBy" /\ req' = [req EXCEPT ![s].op = "updatedBy"]
            /\ users' = [u \in Users |-> IF u \in Rows /\ users[u].updatedBy = x
                                           THEN [users[u] EXCEPT !.updatedBy = to] ELSE users[u]]
  BY CallFields DEF TransferCreated, TransferUpdated, Goto, UsersTypeOK
<1>2. /\ req' \in [Requests -> Call \cup {Idle}]
      /\ \A r \in Requests \ {s} : req'[r] = req[r]
      /\ req'[s].op \notin {"create", "update", "password"}
      /\ s \in Removing' => s \in Removing /\ req'[s].user = req[s].user
  BY <1>1, GotoTyping
<1>3. /\ s \in Removing /\ s \in Removing'
      /\ req[s].op # "found" /\ req'[s].op # "found"
      /\ req'[s].user = x /\ req'[s].to = to
      /\ req[s].op = "counted" => req'[s].op = "createdBy"
      /\ req[s].op = "createdBy" => req'[s].op = "updatedBy"
      /\ req[s].op \in {"counted", "createdBy"}
  BY <1>1, CallFields DEF UsersTypeOK, Removing
<1>4. Removing' = Removing
  BY <1>2, <1>3 DEF Removing
<1>5. ASSUME NEW u \in Rows
      PROVE  /\ u \in Users /\ users[u] \in Row /\ users'[u] \in Row
             /\ users'[u].state = users[u].state /\ users'[u].role = users[u].role
             /\ users'[u].createdBy = IF req[s].op = "counted" /\ users[u].createdBy = x
                                        THEN to ELSE users[u].createdBy
             /\ users'[u].updatedBy = IF req[s].op = "createdBy" /\ users[u].updatedBy = x
                                        THEN to ELSE users[u].updatedBy
  <2>1. u \in Users /\ users[u] \in Row
    BY RowFacts DEF UsersTypeOK, Rows
  <2>2. CASE req[s].op = "counted"
    BY <1>1, <2>1, <2>2 DEF Row
  <2>3. CASE req[s].op = "createdBy"
    BY <1>1, <2>1, <2>3 DEF Row
  <2>4. QED
    BY <1>3, <2>2, <2>3
<1>6. \A u \in Users \ Rows : users'[u] = users[u] /\ users[u] = NoUser
  BY <1>1, RowFacts DEF UsersTypeOK
<1>7. users' \in [Users -> Row \cup {NoUser}]
  <2>1. users' = [u \in Users |-> users'[u]]
    BY <1>1
  <2>2. QED
    BY <1>5, <1>6, <2>1
<1>8. \A u \in Users : users'[u] = NoUser <=> users[u] = NoUser
  BY <1>5, <1>6 DEF Row, NoUser
<1>9. CallsFitRows' /\ Rows' = Rows
  BY <1>2, <1>7, <1>8, SameRows DEF UsersTypeOK
<1>10. UsersTypeOK'
  <2>1. \A u \in Users : users'[u] = NoUser \/ users'[u].role \in roles \cup {None}
    BY <1>5, <1>6 DEF UsersTypeOK, Row, NoUser
  <2>2. QED
    BY <1>1, <1>2, <1>7, <2>1 DEF UsersTypeOK
<1>11. Living' = Living /\ Admins' = Admins
  <2>1. \A u \in Users : u \in Living' <=> u \in Living
    BY <1>5, <1>6 DEF Living, Live
  <2>2. \A u \in Living : u \in Rows
    BY RowFacts DEF UsersTypeOK, Living
  <2>3. Living' = Living
    BY <2>1 DEF Living
  <2>4. QED
    BY <1>5, <2>2, <2>3 DEF Admins
<1>12. \A r \in Removing : req'[r].user = req[r].user /\ (req'[r].op = "found" <=> req[r].op = "found")
  BY <1>2, <1>3 DEF Removing
<1>13. AdminInv'
  BY <1>1, <1>4, <1>11, <1>12 DEF AdminInv, OneRemoval, OthersRemain
<1>14. PointerInv'
  <2> SUFFICES ASSUME "removalsOverlap" \notin broken, "removedUserWrites" \notin broken
               PROVE  OneRemoval' /\ Transferred'
    BY <1>1 DEF PointerInv
  <2>1. OneRemoval /\ Transferred
    BY DEF PointerInv
  <2>2. OneRemoval'
    BY <1>4, <2>1 DEF OneRemoval
  <2>3. to \in Living /\ to # x
    BY <1>3, <2>1 DEF Transferred
  <2>4. \A u \in Rows : {users[u].createdBy, users[u].updatedBy} \subseteq Living \cup {None}
    BY <2>1 DEF Transferred, PointersAreLiving
  <2>5. ASSUME NEW u \in Rows
        PROVE  {users'[u].createdBy, users'[u].updatedBy} \subseteq Living \cup {None}
    <3>1. /\ users'[u].createdBy \in {to, users[u].createdBy}
          /\ users'[u].updatedBy \in {to, users[u].updatedBy}
      BY <1>5, <2>5
    <3>2. QED
      BY <2>3, <2>4, <2>5, <3>1
  <2>6. PointersAreLiving'
    BY <1>9, <1>11, <2>5 DEF PointersAreLiving
  <2>7. \A r \in Removing' : r = s
    BY <1>3, <1>4, <2>1 DEF OneRemoval
  <2>8. /\ req'[s].op \in {"createdBy", "updatedBy"} => \A u \in Rows' : users'[u].createdBy # x
        /\ req'[s].op = "updatedBy" => \A u \in Rows' : users'[u].updatedBy # x
    <3>1. ASSUME NEW u \in Rows
          PROVE  /\ users'[u].createdBy # x
                 /\ req'[s].op = "updatedBy" => users'[u].updatedBy # x
      <4>1. CASE req[s].op = "counted"
        BY <1>3, <1>5, <2>3, <3>1, <4>1
      <4>2. CASE req[s].op = "createdBy"
        <5>1. users[u].createdBy # x
          BY <1>3, <2>1, <4>2 DEF Transferred
        <5>2. QED
          BY <1>3, <1>5, <2>3, <3>1, <4>2, <5>1
      <4>3. QED
        BY <1>3, <4>1, <4>2
    <3>2. QED
      BY <1>9, <3>1
  <2>9. QED
    BY <1>3, <1>11, <2>2, <2>3, <2>6, <2>7, <2>8 DEF Transferred
<1>15. QED
  BY <1>9, <1>10, <1>13, <1>14

LEMMA SoftDeleteInv ==
  ASSUME UsersInv, NEW s \in Requests, SoftDelete(s)
  PROVE  UsersInv'
<1> USE UserAdminAssumption DEF UsersInv
<1> DEFINE x == req[s].user
<1>1. /\ x \in Users /\ req[s].op = "updatedBy"
      /\ users' = [users EXCEPT ![x].state = "removed"]
      /\ req' = [req EXCEPT ![s] = Idle]
      /\ UNCHANGED <<roles, broken>>
  BY CallFields DEF SoftDelete, Finish, UsersTypeOK
<1>2. /\ req' \in [Requests -> Call \cup {Idle}]
      /\ \A r \in Requests \ {s} : req'[r] = req[r]
      /\ req'[s].op \notin {"create", "update", "password"}
      /\ s \in Removing' => s \in Removing /\ req'[s].user = req[s].user
  BY <1>1, GotoTyping
<1>3. s \in Removing /\ s \notin Removing' /\ Removing' = Removing \ {s}
  BY <1>1, <1>2 DEF UsersTypeOK, Removing, Idle
<1>4. users[x] \in Row
  BY <1>1, <1>3, RowFacts DEF UsersTypeOK, CallsFitRows
<1> DEFINE row == [users[x] EXCEPT !.state = "removed"]
<1>5. /\ row \in Row
      /\ row.role = users[x].role /\ row.createdBy = users[x].createdBy
      /\ row.updatedBy = users[x].updatedBy /\ row.state = "removed"
      /\ users' = [users EXCEPT ![x] = row]
  BY <1>1, <1>4 DEF Row
<1> HIDE DEF row
<1>6. \A u \in Users : users'[u] = IF u = x THEN row ELSE users[u]
  BY <1>1, <1>5 DEF UsersTypeOK
<1>7. users' \in [Users -> Row \cup {NoUser}]
  BY <1>5 DEF UsersTypeOK
<1>8. \A u \in Users : users'[u] = NoUser <=> users[u] = NoUser
  BY <1>4, <1>5, <1>6 DEF Row, NoUser
<1>9. CallsFitRows' /\ Rows' = Rows
  BY <1>2, <1>7, <1>8, SameRows DEF UsersTypeOK
<1>10. UsersTypeOK'
  <2>1. \A u \in Users : users'[u] = NoUser \/ users'[u].role \in roles \cup {None}
    BY <1>4, <1>5, <1>6 DEF UsersTypeOK, Row, NoUser
  <2>2. QED
    BY <1>1, <1>2, <1>7, <2>1 DEF UsersTypeOK
<1>11. Living' = Living \ {x}
  <2>1. \A u \in Users : u \in Living' <=> u \in Living \ {x}
    BY <1>5, <1>6 DEF Living, Live
  <2>2. QED
    BY <2>1 DEF Living
<1>12. Admins' = Admins \ {x}
  BY <1>6, <1>11 DEF Admins, Living
<1>13. OneRemoval => Removing' = {}
  BY <1>3 DEF OneRemoval
<1>14. AdminInv'
  <2>1. OthersRemain => Admins' # {}
    BY <1>1, <1>3, <1>12 DEF OthersRemain
  <2>2. QED
    BY <1>1, <1>13, <2>1 DEF AdminInv, OneRemoval, OthersRemain
<1>15. PointerInv'
  <2> SUFFICES ASSUME "removalsOverlap" \notin broken, "removedUserWrites" \notin broken
               PROVE  OneRemoval' /\ Transferred'
    BY <1>1 DEF PointerInv
  <2>1. OneRemoval /\ Transferred
    BY DEF PointerInv
  <2>2. ASSUME NEW u \in Rows
        PROVE  {users'[u].createdBy, users'[u].updatedBy} \subseteq (Living \ {x}) \cup {None}
    <3>1. /\ u \in Users
          /\ users'[u].createdBy = users[u].createdBy /\ users'[u].updatedBy = users[u].updatedBy
      BY <1>5, <1>6 DEF Rows
    <3>2. {users[u].createdBy, users[u].updatedBy} \subseteq Living \cup {None}
      BY <2>1 DEF Transferred, PointersAreLiving
    <3>3. users[u].createdBy # x /\ users[u].updatedBy # x
      BY <1>1, <1>3, <2>1 DEF Transferred
    <3>4. QED
      BY <3>1, <3>2, <3>3
  <2>3. PointersAreLiving'
    BY <1>9, <1>11, <2>2 DEF PointersAreLiving
  <2>4. QED
    BY <1>13, <2>1, <2>3 DEF Transferred, OneRemoval
<1>16. QED
  BY <1>9, <1>10, <1>14, <1>15

LEMMA MoveMembersInv ==
  ASSUME UsersInv, NEW s \in Requests, MoveMembers(s)
  PROVE  UsersInv'
<1> USE UserAdminAssumption DEF UsersInv
<1> DEFINE from == req[s].role
           to == req[s].to
<1>1. /\ from \in Roles /\ to \in roles /\ req[s].op = "removeRole"
      /\ users' = [u \in Users |-> IF u \in Rows /\ users[u].role = from
                                     THEN [users[u] EXCEPT !.role = to] ELSE users[u]]
      /\ req' = [req EXCEPT ![s].op = "moved"]
      /\ broken' = IF from = Admin THEN broken \cup {"adminDemoted"} ELSE broken
      /\ UNCHANGED roles
  BY CallFields DEF MoveMembers, Goto, Breaks, UsersTypeOK
<1>2. /\ req' \in [Requests -> Call \cup {Idle}]
      /\ \A r \in Requests \ {s} : req'[r] = req[r]
      /\ req'[s].op \notin {"create", "update", "password"}
      /\ s \in Removing' => s \in Removing /\ req'[s].user = req[s].user
  BY <1>1, GotoTyping
<1>3. Removing' = Removing /\ s \notin Removing
  BY <1>1, <1>2 DEF Removing
<1>4. \A r \in Removing : req'[r] = req[r]
  BY <1>2, <1>3 DEF Removing
<1>5. ASSUME NEW u \in Rows
      PROVE  /\ u \in Users /\ users[u] \in Row /\ users'[u] \in Row
             /\ users'[u].state = users[u].state
             /\ users'[u].role = IF users[u].role = from THEN to ELSE users[u].role
             /\ users'[u].createdBy = users[u].createdBy
             /\ users'[u].updatedBy = users[u].updatedBy
  <2>1. u \in Users /\ users[u] \in Row
    BY RowFacts DEF UsersTypeOK, Rows
  <2>2. to \in Roles
    BY <1>1 DEF UsersTypeOK
  <2>3. QED
    BY <1>1, <2>1, <2>2 DEF Row
<1>6. \A u \in Users \ Rows : users'[u] = users[u] /\ users[u] = NoUser
  BY <1>1, RowFacts DEF UsersTypeOK
<1>7. users' \in [Users -> Row \cup {NoUser}]
  <2>1. users' = [u \in Users |-> users'[u]]
    BY <1>1
  <2>2. QED
    BY <1>5, <1>6, <2>1
<1>8. \A u \in Users : users'[u] = NoUser <=> users[u] = NoUser
  BY <1>5, <1>6 DEF Row, NoUser
<1>9. CallsFitRows' /\ Rows' = Rows
  BY <1>2, <1>7, <1>8, SameRows DEF UsersTypeOK
<1>10. UsersTypeOK'
  <2>1. ASSUME NEW u \in Users
        PROVE  users'[u] = NoUser \/ users'[u].role \in roles \cup {None}
    <3>1. CASE u \notin Rows
      BY <1>6, <3>1
    <3>2. CASE u \in Rows
      <4>1. users[u].role \in roles \cup {None}
        BY <1>5, <3>2 DEF UsersTypeOK, Row, NoUser
      <4>2. QED
        BY <1>1, <1>5, <3>2, <4>1
    <3>3. QED
      BY <3>1, <3>2
  <2>2. broken' \subseteq Assumptions
    BY <1>1 DEF UsersTypeOK, Assumptions
  <2>3. QED
    BY <1>1, <1>2, <1>7, <2>1, <2>2 DEF UsersTypeOK
<1>11. Living' = Living
  <2>1. \A u \in Users : u \in Living' <=> u \in Living
    BY <1>5, <1>6 DEF Living, Live
  <2>2. QED
    BY <2>1 DEF Living
<1>12. from # Admin => Admins \subseteq Admins'
  <2>1. \A u \in Living : u \in Rows
    BY RowFacts DEF UsersTypeOK, Living
  <2>2. QED
    BY <1>5, <1>11, <2>1 DEF Admins
<1>13. AdminInv'
  <2> SUFFICES ASSUME "removalsOverlap" \notin broken', "adminDemoted" \notin broken'
               PROVE  OneRemoval' /\ OthersRemain'
    BY DEF AdminInv
  <2>1. from # Admin /\ OneRemoval /\ OthersRemain
    BY <1>1 DEF AdminInv
  <2>2. QED
    BY <1>3, <1>4, <1>12, <2>1 DEF OneRemoval, OthersRemain
<1>14. PointerInv'
  <2> SUFFICES ASSUME "removalsOverlap" \notin broken', "removedUserWrites" \notin broken'
               PROVE  OneRemoval' /\ Transferred'
    BY DEF PointerInv
  <2>1. OneRemoval /\ Transferred
    BY <1>1 DEF PointerInv
  <2>2. /\ \A u \in Rows : {users[u].createdBy, users[u].updatedBy} \subseteq Living \cup {None}
        /\ \A u \in Rows : /\ users'[u].createdBy = users[u].createdBy
                          /\ users'[u].updatedBy = users[u].updatedBy
    BY <1>1, <1>5, <2>1 DEF Transferred, PointersAreLiving
  <2>3. PointersAreLiving'
    BY <1>9, <1>11, <2>2 DEF PointersAreLiving
  <2>4. OneRemoval'
    BY <1>3, <2>1 DEF OneRemoval
  <2>5. ASSUME NEW r \in Removing
        PROVE  /\ req[r].to \in Living /\ req[r].to # req[r].user
               /\ req[r].op \in {"createdBy", "updatedBy"} =>
                     \A u \in Rows : users'[u].createdBy # req[r].user
               /\ req[r].op = "updatedBy" =>
                     \A u \in Rows : users'[u].updatedBy # req[r].user
    BY <2>1, <2>2, <2>5 DEF Transferred
  <2>6. QED
    BY <1>3, <1>4, <1>9, <1>11, <2>3, <2>4, <2>5 DEF Transferred
<1>15. QED
  BY <1>9, <1>10, <1>13, <1>14

-----------------------------------------------------------------------------
(* Theorems.                                                               *)

LEMMA NextInv == UsersInv /\ [UsersNext]_userVars => UsersInv'
<1> SUFFICES ASSUME UsersInv, [UsersNext]_userVars PROVE UsersInv'
  OBVIOUS
<1>1. CASE UNCHANGED userVars
  <2>1. UsersTypeOK' /\ CallsFitRows'
    BY <1>1 DEF UsersInv, userVars, UsersTypeOK, CallsFitRows, Removing
  <2>2. AdminInv'
    BY <1>1 DEF UsersInv, userVars, AdminInv, OneRemoval, OthersRemain, Removing, Admins, Living, Live
  <2>3. PointerInv'
    BY <1>1 DEF UsersInv, userVars, PointerInv, OneRemoval, Transferred, PointersAreLiving,
                Removing, Rows, Living, Live
  <2>4. QED
    BY <2>1, <2>2, <2>3 DEF UsersInv
<1>2. ASSUME NEW s \in Requests,
             BeginCall(s) \/ SaveUser(s) \/ Saved(s) \/ RemoveStep(s) \/ RoleStep(s) \/ Abort(s)
      PROVE  UsersInv'
  BY <1>2, CallStepsInv, SaveInv, TransferInv, SoftDeleteInv, MoveMembersInv
     DEF RemoveStep, RoleStep
<1>3. QED
  BY <1>1, <1>2 DEF UsersNext

\* The tables and the calls keep their types, and every user's role exists.
THEOREM UsersTyping == UsersSpec => []UsersTypeOK
<1>1. UsersInv => UsersTypeOK
  BY DEF UsersInv
<1>2. QED
  BY <1>1, InitInv, NextInv, PTL DEF UsersSpec

\* remove, for any number of users: an Admin is left as long as removals do
\* not overlap and no Admin is demoted.
THEOREM LastAdminIsKept == UsersSpec => []AnAdminRemains
<1>1. UsersInv => AnAdminRemains
  BY DEF UsersInv, AdminInv, AnAdminRemains, OthersRemain
<1>2. QED
  BY <1>1, InitInv, NextInv, PTL DEF UsersSpec

\* remove, for any number of users: nobody's audit pointer names a removed
\* user as long as removals do not overlap and no removed user writes.
THEOREM PointersFollowRemovals == UsersSpec => []PointersAreLiving
<1>1. UsersInv => PointersAreLiving
  <2> SUFFICES ASSUME UsersInv,
                      broken \cap {"removalsOverlap", "removedUserWrites"} = {}
               PROVE  \A u \in Rows :
                         {users[u].createdBy, users[u].updatedBy} \subseteq Living \cup {None}
    BY DEF PointersAreLiving
  <2>1. PointersAreLiving
    BY DEF UsersInv, PointerInv, Transferred
  <2>2. QED
    BY <2>1 DEF PointersAreLiving
<1>2. QED
  BY <1>1, InitInv, NextInv, PTL DEF UsersSpec
=============================================================================
