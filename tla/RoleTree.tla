------------------------------- MODULE RoleTree -------------------------------
(***************************************************************************)
(* The hierarchy of roles (RolesService): every role has a parent and a    *)
(* stored depth.  Reparenting walks up from the new parent to refuse a     *)
(* cycle, moves the role, and then recomputes the depths below it;         *)
(* removing a role first hands its children to the transfer target.  Each  *)
(* step is one query, none of them in a transaction, so calls interleave   *)
(* between them; a call in progress occupies a request slot.               *)
(*                                                                         *)
(* Names, descriptions, the two-factor flag and the users of a role take   *)
(* no part in the hierarchy and are left out.                              *)
(***************************************************************************)
EXTENDS Naturals, Sequences

CONSTANTS
    Roles,       \* the ids of the rows that can ever be created
    NoRole,      \* NULL
    Requests,    \* slots for calls in progress
    MaxDepth     \* bound on the depths written: stale ones can pile up

ASSUME RoleTreeAssumption == NoRole \notin Roles /\ MaxDepth \in Nat

VARIABLES
    live,     \* the rows of Role that exist
    removed,  \* the ids of the rows that were deleted: no id is used again
    parent,   \* parent[r]: parentRoleId
    depth,    \* depth[r]: the stored depth
    req,      \* req[s]: the call in progress in slot s, or Idle
    undisturbed,  \* so far no MovedUnderWalk and no TransferredBelow
    settled       \* so far only steps of Settling; these two for the properties only

tree == <<live, removed, parent, depth>>
roleVars == <<live, removed, parent, depth, req>>
rtVars == <<roleVars, undisturbed, settled>>

-----------------------------------------------------------------------------
Idle == [op |-> "idle"]

\* An activation of recomputeDescendantDepths: the role, the depth its
\* children get, whether they were read, and those still to be updated.
Frame == [of : Roles, childDepth : Nat, read : BOOLEAN, todo : SUBSET Roles]

Activation(r, d) == [of |-> r, childDepth |-> d + 1, read |-> FALSE, todo |-> {}]

Call ==
    [op : {"create"}, to : Roles \cup {NoRole}, depth : Nat]
        \cup [op : {"walk"}, role : Roles, to : Roles \cup {NoRole}, depth : Nat,
              cursor : Roles \cup {NoRole}]
        \cup [op : {"recompute"}, stack : Seq(Frame)]
        \cup [op : {"remove", "delete"}, role : Roles, to : Roles]

TreeTypeOK ==
    /\ live \subseteq Roles
    /\ removed \subseteq Roles \ live
    /\ parent \in [Roles -> Roles \cup {NoRole}]
    /\ depth \in [Roles -> Nat]
    /\ req \in [Requests -> Call \cup {Idle}]

RTTypeOK == TreeTypeOK /\ undisturbed \in BOOLEAN /\ settled \in BOOLEAN

\* No role yet; the seeded roles are created like any other.
RTInit ==
    /\ live = {}
    /\ removed = {}
    /\ parent = [r \in Roles |-> NoRole]
    /\ depth = [r \in Roles |-> 0]
    /\ req = [s \in Requests |-> Idle]
    /\ undisturbed = TRUE
    /\ settled = TRUE

Begin(s, call) == req[s] = Idle /\ req' = [req EXCEPT ![s] = call]

Continue(s, call) == req' = [req EXCEPT ![s] = call]

Finish(s) == req' = [req EXCEPT ![s] = Idle]

\* The depth below a parent read just now.
DepthBelow(p) == IF p = NoRole THEN 0 ELSE depth[p] + 1

Children(r) == {c \in live : parent[c] = r}

\* The foreign key of parentRoleId.
CanRefer(p) == p \in live \cup {NoRole}

-----------------------------------------------------------------------------
(* POST /roles                                                             *)

CreateFind(s, p) ==
    /\ CanRefer(p)
    /\ DepthBelow(p) <= MaxDepth
    /\ Begin(s, [op |-> "create", to |-> p, depth |-> DepthBelow(p)])
    /\ UNCHANGED tree

CreateSave(s) ==
    /\ req[s].op = "create"
    /\ CanRefer(req[s].to)
    /\ \E r \in Roles \ (live \cup removed) :
          /\ live' = live \cup {r}
          /\ parent' = [parent EXCEPT ![r] = req[s].to]
          /\ depth' = [depth EXCEPT ![r] = req[s].depth]
    /\ Finish(s)
    /\ UNCHANGED removed

-----------------------------------------------------------------------------
(* PATCH /roles/:id/reparent                                               *)

\* The role and the new parent, whose depth is remembered from here on.
ReparentFind(s, r, p) ==
    /\ r \in live
    /\ CanRefer(p)
    /\ DepthBelow(p) <= MaxDepth
    /\ Begin(s, [op |-> "walk", role |-> r, to |-> p, depth |-> DepthBelow(p), cursor |-> p])
    /\ UNCHANGED tree

\* Mutant of Walk: only the new parent and its own parent are looked at.
WalkOneLevel(s) ==
    LET c == req[s].cursor IN
    /\ req[s].op = "walk"
    /\ c \in live
    /\ c # req[s].role
    /\ parent[c] # req[s].role
    /\ Continue(s, [req[s] EXCEPT !.cursor = NoRole])
    /\ UNCHANGED tree

\* One turn of the loop that looks for the role among the new parent's
\* ancestors; meeting it is a 409, that is Abort.
Walk(s) ==
    LET c == req[s].cursor IN
    /\ req[s].op = "walk"
    /\ c # NoRole
    /\ c # req[s].role
    /\ Continue(s, [req[s] EXCEPT !.cursor = IF c \in live THEN parent[c] ELSE NoRole])
    /\ UNCHANGED tree

ReparentSave(s) ==
    LET c == req[s] IN
    /\ c.op = "walk"
    /\ c.cursor = NoRole
    /\ c.role \in live
    /\ CanRefer(c.to)
    /\ parent' = [parent EXCEPT ![c.role] = c.to]
    /\ depth' = [depth EXCEPT ![c.role] = c.depth]
    /\ Continue(s, [op |-> "recompute", stack |-> <<Activation(c.role, c.depth)>>])
    /\ UNCHANGED <<live, removed>>

(* recomputeDescendantDepths                                               *)

Top(s) == Head(req[s].stack)

Recomputing(s) == req[s].op = "recompute" /\ req[s].stack # <<>>

SetStack(s, stack) == Continue(s, [op |-> "recompute", stack |-> stack])

ReadChildren(s) ==
    /\ Recomputing(s)
    /\ ~Top(s).read
    /\ SetStack(s, <<[Top(s) EXCEPT !.read = TRUE, !.todo = Children(Top(s).of)]>>
                      \o Tail(req[s].stack))
    /\ UNCHANGED tree

\* Mutant of UpdateChild: it does not recurse into the child.
UpdateChildOnly(s) ==
    /\ Recomputing(s)
    /\ Top(s).read
    /\ Top(s).childDepth <= MaxDepth
    /\ \E c \in Top(s).todo \cap live :
          /\ depth' = [depth EXCEPT ![c] = Top(s).childDepth]
          /\ SetStack(s, <<[Top(s) EXCEPT !.todo = @ \ {c}]>> \o Tail(req[s].stack))
    /\ UNCHANGED <<live, removed, parent>>

\* One child, in the order the query happened to return them, and into it.
\* A child that is gone fails the call.
UpdateChild(s) ==
    /\ Recomputing(s)
    /\ Top(s).read
    /\ Top(s).childDepth <= MaxDepth
    /\ \E c \in Top(s).todo \cap live :
          /\ depth' = [depth EXCEPT ![c] = Top(s).childDepth]
          /\ SetStack(s, <<Activation(c, Top(s).childDepth), [Top(s) EXCEPT !.todo = @ \ {c}]>>
                            \o Tail(req[s].stack))
    /\ UNCHANGED <<live, removed, parent>>

Return(s) ==
    /\ Recomputing(s)
    /\ Top(s).read /\ Top(s).todo = {}
    /\ SetStack(s, Tail(req[s].stack))
    /\ UNCHANGED tree

ReparentDone(s) ==
    /\ req[s].op = "recompute" /\ req[s].stack = <<>>
    /\ Finish(s)
    /\ UNCHANGED tree

-----------------------------------------------------------------------------
(* DELETE /roles/:id                                                       *)

RemoveFind(s, r, t) ==
    /\ r \in live /\ t \in live
    /\ r # t
    /\ Begin(s, [op |-> "remove", role |-> r, to |-> t])
    /\ UNCHANGED tree

\* updateMany: every child of the role, the transfer target among them if it
\* is one.  Without children there is nothing for the foreign key to refuse.
RemoveTransfer(s) ==
    LET c == req[s] IN
    /\ c.op = "remove"
    /\ Children(c.role) # {} => c.to \in live
    /\ parent' = [r \in Roles |-> IF r \in Children(c.role) THEN c.to ELSE parent[r]]
    /\ Continue(s, [c EXCEPT !.op = "delete"])
    /\ UNCHANGED <<live, removed, depth>>

\* The delete; onDelete: Restrict refuses it while the role has children.
RemoveDelete(s) ==
    LET r == req[s].role IN
    /\ req[s].op = "delete"
    /\ r \in live
    /\ Children(r) = {}
    /\ live' = live \ {r}
    /\ removed' = removed \cup {r}
    /\ Finish(s)
    /\ UNCHANGED <<parent, depth>>

\* A refused command, an error or a restart ends a call where it is.
Abort(s) ==
    /\ req[s] # Idle
    /\ Finish(s)
    /\ UNCHANGED tree

-----------------------------------------------------------------------------
CreateStep(s) == (\E p \in Roles \cup {NoRole} : CreateFind(s, p)) \/ CreateSave(s)

RecomputeStep(s) == ReadChildren(s) \/ UpdateChild(s) \/ Return(s) \/ ReparentDone(s)

ReparentStep(s) ==
    \/ \E r \in Roles, p \in Roles \cup {NoRole} : ReparentFind(s, r, p)
    \/ Walk(s)
    \/ ReparentSave(s)
    \/ RecomputeStep(s)

RemoveStep(s) ==
    \/ \E r, t \in Roles : RemoveFind(s, r, t)
    \/ RemoveTransfer(s)
    \/ RemoveDelete(s)

RolesMove ==
    \E s \in Requests : CreateStep(s) \/ ReparentStep(s) \/ RemoveStep(s) \/ Abort(s)

\* What breaks the hierarchy: a role is moved while another call walks up for a
\* move of its own ...
MovedUnderWalk ==
    /\ \E r \in live : parent'[r] # parent[r]
    /\ \E s \in Requests : req[s].op = "walk" /\ req'[s] = req[s]

\* The ancestors of r, r included.
AncestorsOf(r) ==
    {a \in live : \A S \in SUBSET live :
        (r \in S /\ \A c \in S : parent[c] \in S \cup {NoRole}) => a \in S}

\* ... or a removal hands the children of a role to a role below it.
TransferredBelow ==
    \E s \in Requests :
        /\ req[s].op = "remove" /\ Children(req[s].role) # {}
        /\ req[s].role \in AncestorsOf(req[s].to)
        /\ RemoveTransfer(s)

\* What unsettles the depths, other than for a while: calls that overlap, a
\* reparent that is given up once it has begun to write, any removal.
OneCall == \A s, t \in Requests : req[s] # Idle /\ req[t] # Idle => s = t

CarriedThrough ==
    \A s \in Requests :
        req[s].op = "recompute" /\ Abort(s) => ReparentDone(s)

NoRemoval == \A s \in Requests : req[s].op # "remove"

Settling == OneCall' /\ CarriedThrough /\ NoRemoval'

RTNext ==
    /\ RolesMove
    /\ undisturbed' = (undisturbed /\ ~MovedUnderWalk /\ ~TransferredBelow)
    /\ settled' = (settled /\ Settling)

RTSpec == RTInit /\ [][RTNext]_rtVars

-----------------------------------------------------------------------------
(* Properties.                                                             *)

\* Every set of roles has a member whose parent is outside of the set: no
\* role is an ancestor of its own.
Acyclic ==
    \A S \in SUBSET live : S # {} => \E r \in S : parent[r] \notin S

\* reparent, remove: the roles are a hierarchy, whatever overlaps and ends halfway,
\* until a role is moved under another call's walk or handed to a role below it.
UndisturbedIsAcyclic == undisturbed => Acyclic

\* The stored depths are the nesting depths once nothing is in progress.
DepthIsNesting ==
    (\A s \in Requests : req[s] = Idle) => \A r \in live : depth[r] = DepthBelow(parent[r])

\* reparent: the depths are the nesting depths as long as calls do not overlap,
\* none is cut off while it writes, and nothing is removed.
SettledDepthIsNesting == settled => DepthIsNesting
=============================================================================
