--------------------------- MODULE RoleTreeProofs ---------------------------
(***************************************************************************)
(* Proofs about RoleTree, for any number of roles and calls.               *)
(*                                                                         *)
(* The hierarchy stays a forest until a role is moved under the walk of    *)
(* another call or a removal hands children to a role below; everything    *)
(* else may overlap.  What a walk has seen is a set of roles closed under  *)
(* parents up to the cursor: creates add leaves, and deletes take leaves   *)
(* away, the cursor perhaps.  When the cursor runs out the set is closed,  *)
(* holds the new parent and not the role, and a cycle through the role     *)
(* would have to live inside of it.                                        *)
(*                                                                         *)
(* The depths settle: a depth that is wrong is that of a child which an    *)
(* activation has still to update, and since there are no cycles no update *)
(* reaches a role of an activation below it on the stack.                  *)
(***************************************************************************)
EXTENDS RoleTree, TLAPS

\* The foreign key.
ParentsLive == \A r \in live : parent[r] \in live \cup {NoRole}

\* What the walk of slot s has established.
Seen(s, A) ==
    /\ A \subseteq live
    /\ req[s].role \notin A
    /\ req[s].to \in live => req[s].to \in A \cup {req[s].cursor}
    /\ \A a \in A : parent[a] \in A \cup {req[s].cursor, NoRole}

WalkInv(s) ==
    req[s].op = "walk" =>
        /\ req[s].to \in live \cup removed \cup {NoRole}
        /\ \E A \in SUBSET Roles : Seen(s, A)

ForestInv ==
    /\ TreeTypeOK
    /\ ParentsLive
    /\ Acyclic
    /\ \A s \in Requests : WalkInv(s)

-----------------------------------------------------------------------------
(* Types.                                                                  *)

LEMMA CallFields ==
  ASSUME NEW c \in Call \cup {Idle}
  PROVE  /\ c.op = "create" => c.to \in Roles \cup {NoRole} /\ c.depth \in Nat
         /\ c.op = "walk" =>
               /\ c.role \in Roles /\ c.to \in Roles \cup {NoRole}
               /\ c.depth \in Nat /\ c.cursor \in Roles \cup {NoRole}
               /\ c = [op |-> "walk", role |-> c.role, to |-> c.to, depth |-> c.depth,
                       cursor |-> c.cursor]
         /\ c.op = "recompute" => c.stack \in Seq(Frame)
         /\ c.op \in {"remove", "delete"} =>
               /\ c.role \in Roles /\ c.to \in Roles
               /\ c = [op |-> c.op, role |-> c.role, to |-> c.to]
<1>1. CASE c = Idle
  BY <1>1 DEF Idle
<1>2. CASE c \in Call
  BY <1>2 DEF Call
<1>3. QED
  BY <1>1, <1>2

LEMMA RequestTyped ==
  ASSUME TreeTypeOK, NEW s \in Requests, NEW c \in Call \cup {Idle}, req' = [req EXCEPT ![s] = c]
  PROVE  req' \in [Requests -> Call \cup {Idle}]
BY DEF TreeTypeOK

LEMMA DepthBelowType ==
  ASSUME TreeTypeOK, NEW p \in Roles \cup {NoRole}
  PROVE  DepthBelow(p) \in Nat
BY DEF TreeTypeOK, DepthBelow

LEMMA StackTyped ==
  ASSUME NEW stack \in Seq(Frame)
  PROVE  [op |-> "recompute", stack |-> stack] \in Call
BY DEF Call

LEMMA ActivationType ==
  ASSUME NEW r \in Roles, NEW d \in Nat
  PROVE  Activation(r, d) \in Frame
BY DEF Activation, Frame

LEMMA NextType ==
  ASSUME TreeTypeOK, RolesMove
  PROVE  TreeTypeOK'
<1> USE DEF Begin, Continue, Finish
<1>1. ASSUME NEW s \in Requests, NEW p \in Roles \cup {NoRole}, CreateFind(s, p)
      PROVE  TreeTypeOK'
  <2>1. [op |-> "create", to |-> p, depth |-> DepthBelow(p)] \in Call
    BY DepthBelowType DEF Call
  <2>2. QED
    BY <1>1, <2>1, RequestTyped DEF CreateFind, TreeTypeOK, tree
<1>2. ASSUME NEW s \in Requests, CreateSave(s)
      PROVE  TreeTypeOK'
  <2>1. req[s].to \in Roles \cup {NoRole} /\ req[s].depth \in Nat
    BY <1>2, CallFields DEF CreateSave, TreeTypeOK
  <2>2. req' \in [Requests -> Call \cup {Idle}]
    BY <1>2, RequestTyped DEF CreateSave
  <2>3. QED
    BY <1>2, <2>1, <2>2 DEF CreateSave, TreeTypeOK
<1>3. ASSUME NEW s \in Requests, NEW r \in Roles, NEW p \in Roles \cup {NoRole},
             ReparentFind(s, r, p)
      PROVE  TreeTypeOK'
  <2>1. [op |-> "walk", role |-> r, to |-> p, depth |-> DepthBelow(p), cursor |-> p] \in Call
    BY DepthBelowType DEF Call
  <2>2. QED
    BY <1>3, <2>1, RequestTyped DEF ReparentFind, TreeTypeOK, tree
<1>4. ASSUME NEW s \in Requests, Walk(s)
      PROVE  TreeTypeOK'
  <2>1. PICK c \in Roles \cup {NoRole} : req' = [req EXCEPT ![s] = [req[s] EXCEPT !.cursor = c]]
    BY <1>4, CallFields DEF Walk, TreeTypeOK
  <2>2. [req[s] EXCEPT !.cursor = c] \in Call
    <3>1. /\ req[s] = [op |-> "walk", role |-> req[s].role, to |-> req[s].to,
                       depth |-> req[s].depth, cursor |-> req[s].cursor]
          /\ req[s].role \in Roles /\ req[s].to \in Roles \cup {NoRole} /\ req[s].depth \in Nat
      BY <1>4, CallFields DEF Walk, TreeTypeOK
    <3>2. [req[s] EXCEPT !.cursor = c] =
             [op |-> "walk", role |-> req[s].role, to |-> req[s].to,
              depth |-> req[s].depth, cursor |-> c]
      BY <3>1
    <3>3. QED
      BY <3>1, <3>2 DEF Call
  <2>3. QED
    BY <1>4, <2>1, <2>2, RequestTyped DEF Walk, TreeTypeOK, tree
<1>5. ASSUME NEW s \in Requests, ReparentSave(s)
      PROVE  TreeTypeOK'
  <2>1. req[s].role \in Roles /\ req[s].to \in Roles \cup {NoRole} /\ req[s].depth \in Nat
    BY <1>5, CallFields DEF ReparentSave, TreeTypeOK
  <2>2. <<Activation(req[s].role, req[s].depth)>> \in Seq(Frame)
    BY <2>1, ActivationType
  <2>3. req' \in [Requests -> Call \cup {Idle}]
    BY <1>5, <2>2, StackTyped, RequestTyped DEF ReparentSave
  <2>4. QED
    BY <1>5, <2>1, <2>3 DEF ReparentSave, TreeTypeOK
<1>6. ASSUME NEW s \in Requests, RecomputeStep(s)
      PROVE  TreeTypeOK'
  <2>1. req[s].stack \in Seq(Frame) /\ (Recomputing(s) => Top(s) \in Frame /\ Tail(req[s].stack) \in Seq(Frame))
    BY <1>6, CallFields
    DEF RecomputeStep, ReadChildren, UpdateChild, Return, ReparentDone, Recomputing, Top, TreeTypeOK
  <2>2. CASE ReadChildren(s)
    <3>1. [Top(s) EXCEPT !.read = TRUE, !.todo = Children(Top(s).of)] \in Frame
      BY <2>1, <2>2 DEF ReadChildren, Frame, Children, TreeTypeOK
    <3>2. <<[Top(s) EXCEPT !.read = TRUE, !.todo = Children(Top(s).of)]>> \o Tail(req[s].stack)
             \in Seq(Frame)
      BY <2>1, <2>2, <3>1 DEF ReadChildren
    <3>3. QED
      BY <2>2, <3>2, StackTyped, RequestTyped DEF ReadChildren, SetStack, TreeTypeOK, tree
  <2>3. CASE UpdateChild(s)
    <3>1. PICK c \in Top(s).todo \cap live :
             /\ depth' = [depth EXCEPT ![c] = Top(s).childDepth]
             /\ SetStack(s, <<Activation(c, Top(s).childDepth), [Top(s) EXCEPT !.todo = @ \ {c}]>>
                               \o Tail(req[s].stack))
      BY <2>3 DEF UpdateChild
    <3>2. c \in Roles /\ Top(s).childDepth \in Nat /\ [Top(s) EXCEPT !.todo = @ \ {c}] \in Frame
      BY <2>1, <2>3, <3>1 DEF UpdateChild, Frame, TreeTypeOK
    <3>3. Activation(c, Top(s).childDepth) \in Frame
      BY <3>2, ActivationType
    <3>4. <<Activation(c, Top(s).childDepth), [Top(s) EXCEPT !.todo = @ \ {c}]>>
             \o Tail(req[s].stack) \in Seq(Frame)
      BY <2>1, <2>3, <3>2, <3>3 DEF UpdateChild
    <3>5. QED
      BY <2>3, <3>1, <3>2, <3>4, StackTyped, RequestTyped
      DEF UpdateChild, SetStack, TreeTypeOK
  <2>4. CASE Return(s)
    BY <2>1, <2>4, StackTyped, RequestTyped DEF Return, SetStack, TreeTypeOK, tree
  <2>5. CASE ReparentDone(s)
    BY <2>5, RequestTyped DEF ReparentDone, TreeTypeOK, tree
  <2>6. QED
    BY <1>6, <2>2, <2>3, <2>4, <2>5 DEF RecomputeStep
<1>7. ASSUME NEW s \in Requests, NEW r \in Roles, NEW t \in Roles, RemoveFind(s, r, t)
      PROVE  TreeTypeOK'
  <2>1. [op |-> "remove", role |-> r, to |-> t] \in Call
    BY DEF Call
  <2>2. QED
    BY <1>7, <2>1, RequestTyped DEF RemoveFind, TreeTypeOK, tree
<1>8. ASSUME NEW s \in Requests, RemoveTransfer(s)
      PROVE  TreeTypeOK'
  <2>1. /\ req[s].role \in Roles /\ req[s].to \in Roles
        /\ req[s] = [op |-> "remove", role |-> req[s].role, to |-> req[s].to]
    BY <1>8, CallFields DEF RemoveTransfer, TreeTypeOK
  <2>2. [req[s] EXCEPT !.op = "delete"] = [op |-> "delete", role |-> req[s].role, to |-> req[s].to]
    BY <2>1
  <2>3. [req[s] EXCEPT !.op = "delete"] \in Call
    BY <2>1, <2>2 DEF Call
  <2>4. req' \in [Requests -> Call \cup {Idle}]
    BY <1>8, <2>3, RequestTyped DEF RemoveTransfer
  <2>5. QED
    BY <1>8, <2>1, <2>4 DEF RemoveTransfer, TreeTypeOK
<1>9. ASSUME NEW s \in Requests, RemoveDelete(s)
      PROVE  TreeTypeOK'
  BY <1>9, RequestTyped DEF RemoveDelete, TreeTypeOK
<1>10. ASSUME NEW s \in Requests, Abort(s)
       PROVE  TreeTypeOK'
  BY <1>10, RequestTyped DEF Abort, TreeTypeOK, tree
<1>11. QED
  BY <1>1, <1>2, <1>3, <1>4, <1>5, <1>6, <1>7, <1>8, <1>9, <1>10
  DEF RolesMove, CreateStep, ReparentStep, RemoveStep

-----------------------------------------------------------------------------
(* No cycle.                                                               *)

\* A set of roles closed under parents has, without cycles, no member whose
\* ancestors stay inside of another set.
Closed(A) == \A a \in A : parent[a] \in A \cup {NoRole}

LEMMA NoLoopThroughClosed ==
  ASSUME Acyclic, NoRole \notin Roles, live \subseteq Roles,
         NEW A \in SUBSET live, Closed(A),
         NEW S \in SUBSET live, NEW r \in A \cap S,
         \A x \in A \cap S : parent[x] \in S
  PROVE  FALSE
<1>1. A \cap S \in SUBSET live /\ A \cap S # {}
  OBVIOUS
<1>2. PICK x \in A \cap S : parent[x] \notin A \cap S
  BY <1>1 DEF Acyclic
<1>3. parent[x] \in S /\ parent[x] # NoRole
  OBVIOUS
<1>4. QED
  BY <1>2, <1>3 DEF Closed

\* A new role is a leaf.
LEMMA CreateAcyclic ==
  ASSUME ForestInv, NEW s \in Requests, CreateSave(s)
  PROVE  /\ Acyclic' /\ ParentsLive'
         /\ live \subseteq live' /\ \A r \in live : parent'[r] = parent[r]
<1>1. PICK n \in Roles \ (live \cup removed) :
         /\ live' = live \cup {n}
         /\ parent' = [parent EXCEPT ![n] = req[s].to]
  BY DEF CreateSave
<1>2. req[s].to \in live \cup {NoRole} /\ live \subseteq Roles /\ NoRole \notin Roles
  BY RoleTreeAssumption DEF CreateSave, CanRefer, ForestInv, TreeTypeOK
<1>3. parent'[n] = req[s].to /\ \A r \in live : parent'[r] = parent[r]
  BY <1>1, <1>2 DEF ForestInv, TreeTypeOK
<1>4. ParentsLive'
  BY <1>1, <1>2, <1>3 DEF ForestInv, ParentsLive
<1>5. ASSUME NEW S \in SUBSET live', S # {}, \A r \in S : parent'[r] \in S
      PROVE  FALSE
  <2>1. S \ {n} \in SUBSET live
    BY <1>1
  <2>2. S \ {n} # {}
    BY <1>1, <1>2, <1>3, <1>5
  <2>3. \A r \in S \ {n} : parent[r] \in S \ {n}
    BY <1>1, <1>2, <1>3, <1>5, <2>1 DEF ForestInv, ParentsLive
  <2>4. QED
    BY <2>1, <2>2, <2>3 DEF ForestInv, Acyclic
<1>6. Acyclic'
  BY <1>5 DEF Acyclic
<1>7. QED
  BY <1>1, <1>3, <1>4, <1>6

\* The walk went past every ancestor of the new parent.
LEMMA ReparentAcyclic ==
  ASSUME ForestInv, NEW s \in Requests, ReparentSave(s)
  PROVE  Acyclic' /\ ParentsLive'
<1> DEFINE c == req[s]
<1>1. /\ c.op = "walk" /\ c.cursor = NoRole
      /\ c.role \in live /\ c.to \in live \cup {NoRole}
      /\ parent' = [parent EXCEPT ![c.role] = c.to] /\ live' = live
      /\ live \subseteq Roles /\ NoRole \notin Roles
  BY RoleTreeAssumption DEF ReparentSave, CanRefer, ForestInv, TreeTypeOK
<1>2. parent'[c.role] = c.to /\ \A r \in live : r # c.role => parent'[r] = parent[r]
  BY <1>1 DEF ForestInv, TreeTypeOK
<1>3. ParentsLive'
  BY <1>1, <1>2 DEF ForestInv, ParentsLive
<1>4. PICK A \in SUBSET Roles : Seen(s, A)
  BY <1>1 DEF ForestInv, WalkInv
<1>5. A \in SUBSET live /\ Closed(A) /\ c.role \notin A /\ (c.to # NoRole => c.to \in A)
  BY <1>1, <1>4 DEF Seen, Closed
<1>6. ASSUME NEW S \in SUBSET live', S # {}, \A r \in S : parent'[r] \in S
      PROVE  FALSE
  <2>1. CASE c.role \notin S
    BY <1>1, <1>2, <1>6, <2>1 DEF ForestInv, Acyclic
  <2>2. CASE c.role \in S
    <3>1. c.to \in A \cap S
      BY <1>1, <1>2, <1>5, <1>6, <2>2
    <3>2. \A x \in A \cap S : parent[x] \in S
      BY <1>1, <1>2, <1>5, <1>6
    <3>3. QED
      BY <1>1, <1>5, <3>1, <3>2, NoLoopThroughClosed DEF ForestInv
  <2>3. QED
    BY <2>1, <2>2
<1>7. Acyclic'
  BY <1>6 DEF Acyclic
<1>8. QED
  BY <1>3, <1>7

\* The children go to a role that is not below the removed one.
LEMMA TransferAcyclic ==
  ASSUME ForestInv, NEW s \in Requests, RemoveTransfer(s), ~TransferredBelow
  PROVE  Acyclic' /\ ParentsLive'
<1> DEFINE c == req[s]
<1>1. /\ c.op = "remove" /\ live' = live /\ c.role \in Roles
      /\ parent' = [r \in Roles |-> IF r \in Children(c.role) THEN c.to ELSE parent[r]]
      /\ live \subseteq Roles /\ NoRole \notin Roles
  BY RoleTreeAssumption, CallFields DEF RemoveTransfer, ForestInv, TreeTypeOK
<1>2. \A r \in live : parent'[r] = IF parent[r] = c.role THEN c.to ELSE parent[r]
  BY <1>1 DEF Children
<1>3. CASE Children(c.role) = {}
  <2>1. \A r \in live : parent'[r] = parent[r]
    BY <1>2, <1>3 DEF Children
  <2>2. QED
    BY <1>1, <2>1 DEF ForestInv, Acyclic, ParentsLive
<1>4. CASE Children(c.role) # {}
  <2>1. c.to \in live /\ c.role \in live
    BY <1>1, <1>4 DEF RemoveTransfer, Children, ForestInv, ParentsLive
  <2>2. ParentsLive'
    BY <1>1, <1>2, <2>1 DEF ForestInv, ParentsLive
  <2>3. PICK A \in SUBSET live : c.to \in A /\ Closed(A) /\ c.role \notin A
    BY <1>1, <1>4, <2>1 DEF TransferredBelow, AncestorsOf, Closed
  <2>4. ASSUME NEW S \in SUBSET live', S # {}, \A r \in S : parent'[r] \in S
        PROVE  FALSE
    <3>1. CASE S \cap Children(c.role) = {}
      BY <1>1, <1>2, <2>4, <3>1 DEF Children, ForestInv, Acyclic
    <3>2. CASE S \cap Children(c.role) # {}
      <4>1. c.to \in A \cap S
        BY <1>1, <1>2, <2>3, <2>4, <3>2 DEF Children
      <4>2. \A x \in A \cap S : parent[x] \in S
        BY <1>1, <1>2, <2>1, <2>3, <2>4 DEF Closed
      <4>3. QED
        BY <1>1, <2>3, <2>4, <4>1, <4>2, NoLoopThroughClosed DEF ForestInv
    <3>3. QED
      BY <3>1, <3>2
  <2>5. Acyclic'
    BY <2>4 DEF Acyclic
  <2>6. QED
    BY <2>2, <2>5
<1>5. QED
  BY <1>3, <1>4

LEMMA DeleteAcyclic ==
  ASSUME ForestInv, NEW s \in Requests, RemoveDelete(s)
  PROVE  Acyclic' /\ ParentsLive'
<1>1. live' = live \ {req[s].role} /\ parent' = parent /\ Children(req[s].role) = {}
  BY DEF RemoveDelete
<1>2. ParentsLive'
  BY <1>1 DEF ForestInv, ParentsLive, Children
<1>3. Acyclic'
  BY <1>1 DEF ForestInv, Acyclic
<1>4. QED
  BY <1>2, <1>3

-----------------------------------------------------------------------------
(* The walk.                                                               *)

LEMMA WalkStep ==
  ASSUME ForestInv, NEW s \in Requests, Walk(s)
  PROVE  WalkInv(s)'
<1>1. PICK c \in Roles : c = req[s].cursor
  BY CallFields DEF Walk, ForestInv, TreeTypeOK
<1>2. PICK d \in Roles \cup {NoRole} : d = IF c \in live THEN parent[c] ELSE NoRole
  BY DEF ForestInv, TreeTypeOK
<1>3. /\ req[s].op = "walk" /\ c # req[s].role
      /\ req' = [req EXCEPT ![s] = [req[s] EXCEPT !.cursor = d]]
      /\ UNCHANGED tree /\ live \subseteq Roles /\ NoRole \notin Roles
      /\ \A r \in live : parent[r] \in live \cup {NoRole}
  BY <1>1, <1>2, RoleTreeAssumption DEF Walk, Continue, ForestInv, TreeTypeOK, ParentsLive
<1>4. req[s] = [op |-> "walk", role |-> req[s].role, to |-> req[s].to,
                depth |-> req[s].depth, cursor |-> req[s].cursor]
  BY <1>3, CallFields DEF ForestInv, TreeTypeOK
<1>5. req'[s] = [op |-> "walk", role |-> req[s].role, to |-> req[s].to,
                 depth |-> req[s].depth, cursor |-> d]
  BY <1>3, <1>4 DEF ForestInv, TreeTypeOK
<1>6. PICK A \in SUBSET Roles : Seen(s, A)
  BY <1>3 DEF ForestInv, WalkInv
<1>7. CASE c \in live
  <2>1. Seen(s, A \cup {c})'
    BY <1>1, <1>2, <1>3, <1>5, <1>6, <1>7 DEF Seen, tree
  <2>2. QED
    BY <1>3, <1>5, <2>1 DEF ForestInv, WalkInv, tree
\* The role the walk had come to was removed, so no role seen was below it.
<1>8. CASE c \notin live
  <2>1. Seen(s, A)'
    BY <1>1, <1>2, <1>3, <1>5, <1>6, <1>8 DEF Seen, tree
  <2>2. QED
    BY <1>3, <1>5, <2>1 DEF ForestInv, WalkInv, tree
<1>9. QED
  BY <1>7, <1>8

LEMMA ReparentFindWalk ==
  ASSUME ForestInv, NEW s \in Requests, NEW r \in Roles, NEW p \in Roles \cup {NoRole},
         ReparentFind(s, r, p)
  PROVE  WalkInv(s)'
<1>1. /\ req'[s] = [op |-> "walk", role |-> r, to |-> p, depth |-> DepthBelow(p), cursor |-> p]
      /\ live' = live /\ p \in live \cup {NoRole}
  BY DEF ReparentFind, Begin, CanRefer, tree, ForestInv, TreeTypeOK
<1>2. Seen(s, {})'
  BY <1>1 DEF Seen
<1>3. QED
  BY <1>1, <1>2 DEF WalkInv

\* A walk that does not move goes on seeing the same roles while new ones
\* appear elsewhere, and loses those that are removed.
LEMMA WalkKept ==
  ASSUME NoRole \notin live', NEW s \in Requests, WalkInv(s), req'[s] = req[s],
         \A r \in live \cap live' : parent'[r] = parent[r],
         \A r \in live \ live' : Children(r) = {},
         live' \cap removed = {}, live \cup removed \subseteq live' \cup removed'
  PROVE  WalkInv(s)'
<1> SUFFICES ASSUME req[s].op = "walk"
             PROVE  /\ req[s].to \in live' \cup removed' \cup {NoRole}
                    /\ \E A \in SUBSET Roles : Seen(s, A)'
  BY DEF WalkInv
<1>1. req[s].to \in live \cup removed \cup {NoRole}
  BY DEF WalkInv
<1>2. PICK A \in SUBSET Roles : Seen(s, A)
  BY DEF WalkInv
<1>3. PICK B \in SUBSET Roles : B = A \cap live'
  OBVIOUS
<1>4. Seen(s, B)'
  <2>1. ASSUME NEW a \in B
        PROVE  parent'[a] \in B \cup {req[s].cursor, NoRole}
    <3>1. a \in live /\ parent'[a] = parent[a] /\ parent[a] \in A \cup {req[s].cursor, NoRole}
      BY <1>2, <1>3 DEF Seen
    <3>2. CASE parent[a] \in A
      <4>1. a \in Children(parent[a]) /\ parent[a] \in live
        BY <1>2, <3>1, <3>2 DEF Seen, Children
      <4>2. QED
        BY <1>3, <3>1, <3>2, <4>1
    <3>3. QED
      BY <3>1, <3>2
  <2>2. req[s].to \in live' => req[s].to \in B \cup {req[s].cursor}
    BY <1>1, <1>2, <1>3 DEF Seen
  <2>3. QED
    BY <1>2, <1>3, <2>1, <2>2 DEF Seen
<1>5. QED
  BY <1>1, <1>4

-----------------------------------------------------------------------------
(* The invariant.                                                          *)

\* A step leaves the other slots alone, and moves no role while one of them walks.
LEMMA OtherWalks ==
  ASSUME ForestInv, ~MovedUnderWalk, NEW s \in Requests, NEW t \in Requests, t # s,
         CreateStep(s) \/ ReparentStep(s) \/ RemoveStep(s) \/ Abort(s)
  PROVE  WalkInv(t)'
<1>1. req'[t] = req[t]
  BY DEF CreateStep, ReparentStep, RecomputeStep, RemoveStep, CreateFind, CreateSave,
         ReparentFind, Walk, ReparentSave, ReadChildren, UpdateChild, Return, ReparentDone,
         RemoveFind, RemoveTransfer, RemoveDelete, Abort, Begin, Continue, Finish, SetStack,
         ForestInv, TreeTypeOK
<1> SUFFICES ASSUME req[t].op = "walk" PROVE WalkInv(t)'
  BY <1>1 DEF WalkInv
<1>2. \A r \in live : parent'[r] = parent[r]
  BY <1>1 DEF MovedUnderWalk
<1>3. live \subseteq Roles /\ removed \subseteq Roles \ live /\ NoRole \notin Roles /\ WalkInv(t)
  BY RoleTreeAssumption DEF ForestInv, TreeTypeOK
<1>4. CASE CreateSave(s)
  <2>1. PICK n \in Roles \ (live \cup removed) : live' = live \cup {n} /\ removed' = removed
    BY <1>4 DEF CreateSave
  <2>2. QED
    BY <1>1, <1>2, <1>3, <2>1, WalkKept
<1>5. CASE RemoveDelete(s)
  <2>1. PICK r \in live : live' = live \ {r} /\ removed' = removed \cup {r} /\ Children(r) = {}
    BY <1>5 DEF RemoveDelete
  <2>2. QED
    BY <1>1, <1>2, <1>3, <2>1, WalkKept
<1>6. CASE live' = live /\ removed' = removed
  BY <1>1, <1>2, <1>3, <1>6, WalkKept
<1>7. QED
  BY <1>4, <1>5, <1>6
  DEF CreateStep, ReparentStep, RecomputeStep, RemoveStep, CreateFind, ReparentFind, Walk,
      ReparentSave, ReadChildren, UpdateChild, Return, ReparentDone, RemoveFind, RemoveTransfer,
      Abort, tree

\* The walk of the slot that takes the step.
LEMMA OwnWalk ==
  ASSUME ForestInv, NEW s \in Requests,
         CreateStep(s) \/ ReparentStep(s) \/ RemoveStep(s) \/ Abort(s)
  PROVE  WalkInv(s)'
<1>1. CASE Walk(s)
  BY <1>1, WalkStep
<1>2. CASE \E r \in Roles, p \in Roles \cup {NoRole} : ReparentFind(s, r, p)
  BY <1>2, ReparentFindWalk
<1>3. ASSUME NEW p \in Roles \cup {NoRole}, CreateFind(s, p)
      PROVE  req'[s].op # "walk"
  BY <1>3 DEF CreateFind, Begin, ForestInv, TreeTypeOK
<1>4. CASE CreateSave(s) \/ ReparentDone(s) \/ RemoveDelete(s) \/ Abort(s)
  BY <1>4
  DEF CreateSave, ReparentDone, RemoveDelete, Abort, Finish, Idle, WalkInv, ForestInv, TreeTypeOK
<1>5. CASE ReparentSave(s) \/ ReadChildren(s) \/ UpdateChild(s) \/ Return(s)
  <2>1. ASSUME NEW stack, Continue(s, [op |-> "recompute", stack |-> stack])
        PROVE  req'[s].op = "recompute"
    <3>1. req'[s] = [op |-> "recompute", stack |-> stack]
      BY <2>1 DEF Continue, ForestInv, TreeTypeOK
    <3>2. QED
      BY <3>1
  <2>2. req'[s].op = "recompute"
    <3>1. CASE ReparentSave(s)
      BY <2>1, <3>1 DEF ReparentSave
    <3>2. CASE ReadChildren(s)
      BY <2>1, <3>2 DEF ReadChildren, SetStack
    <3>3. CASE UpdateChild(s)
      BY <2>1, <3>3 DEF UpdateChild, SetStack
    <3>4. CASE Return(s)
      BY <2>1, <3>4 DEF Return, SetStack
    <3>5. QED
      BY <1>5, <3>1, <3>2, <3>3, <3>4
  <2>3. QED
    BY <2>2 DEF WalkInv
<1>6. ASSUME NEW r \in Roles, NEW t \in Roles, RemoveFind(s, r, t)
      PROVE  req'[s].op # "walk"
  BY <1>6 DEF RemoveFind, Begin, ForestInv, TreeTypeOK
<1>7. CASE RemoveTransfer(s)
  <2>1. req[s] = [op |-> "remove", role |-> req[s].role, to |-> req[s].to]
    BY <1>7, CallFields DEF RemoveTransfer, ForestInv, TreeTypeOK
  <2>2. req'[s] = [req[s] EXCEPT !.op = "delete"]
    BY <1>7 DEF RemoveTransfer, Continue, ForestInv, TreeTypeOK
  <2>3. req'[s].op = "delete"
    BY <2>1, <2>2
  <2>4. QED
    BY <2>3 DEF WalkInv
<1>8. QED
  BY <1>1, <1>2, <1>3, <1>4, <1>5, <1>6, <1>7
  DEF CreateStep, ReparentStep, RecomputeStep, RemoveStep, WalkInv

LEMMA StepAcyclic ==
  ASSUME ForestInv, ~TransferredBelow, NEW s \in Requests,
         CreateStep(s) \/ ReparentStep(s) \/ RemoveStep(s) \/ Abort(s)
  PROVE  Acyclic' /\ ParentsLive'
<1>1. CASE live' = live /\ parent' = parent
  BY <1>1 DEF ForestInv, Acyclic, ParentsLive
<1>2. CASE CreateSave(s) \/ ReparentSave(s) \/ RemoveTransfer(s) \/ RemoveDelete(s)
  BY <1>2, CreateAcyclic, ReparentAcyclic, TransferAcyclic, DeleteAcyclic
<1>3. QED
  BY <1>1, <1>2
  DEF CreateStep, ReparentStep, RecomputeStep, RemoveStep, CreateFind, ReparentFind, Walk,
      ReadChildren, UpdateChild, Return, ReparentDone, RemoveFind, Abort, tree

LEMMA ForestInvNext ==
  ForestInv /\ [RolesMove /\ ~MovedUnderWalk /\ ~TransferredBelow]_roleVars => ForestInv'
<1>1. ASSUME ForestInv, RolesMove, ~MovedUnderWalk, ~TransferredBelow
      PROVE  ForestInv'
  <2>1. PICK s \in Requests : CreateStep(s) \/ ReparentStep(s) \/ RemoveStep(s) \/ Abort(s)
    BY <1>1 DEF RolesMove
  <2>2. TreeTypeOK'
    BY <1>1, NextType DEF ForestInv
  <2>3. Acyclic' /\ ParentsLive'
    BY <1>1, <2>1, StepAcyclic
  <2>4. \A t \in Requests : WalkInv(t)'
    BY <1>1, <2>1, OtherWalks, OwnWalk
  <2>5. QED
    BY <1>1, <2>2, <2>3, <2>4 DEF ForestInv
<1>2. ASSUME ForestInv, UNCHANGED roleVars
      PROVE  ForestInv'
  BY <1>2
  DEF roleVars, ForestInv, TreeTypeOK, ParentsLive, Acyclic, WalkInv, Seen
<1>3. QED
  BY <1>1, <1>2

LEMMA ForestInvInit == RTInit => ForestInv
<1> SUFFICES ASSUME RTInit PROVE ForestInv
  OBVIOUS
<1>1. TreeTypeOK
  BY DEF RTInit, TreeTypeOK
<1>2. ParentsLive /\ Acyclic
  BY DEF RTInit, ParentsLive, Acyclic
<1>3. \A s \in Requests : WalkInv(s)
  BY DEF RTInit, WalkInv, Idle
<1>4. QED
  BY <1>1, <1>2, <1>3 DEF ForestInv

LEMMA TreeTypeStutter ==
  ASSUME TreeTypeOK, UNCHANGED roleVars
  PROVE  TreeTypeOK'
BY DEF roleVars, TreeTypeOK

\* Creates, reparents and removals overlapping as they may, and ending halfway:
\* until a role is moved under the walk of another call, or handed to a role below
\* it, no role becomes an ancestor of its own.
THEOREM HierarchyIsAcyclic == RTSpec => [](RTTypeOK /\ UndisturbedIsAcyclic)
<1> DEFINE Inv == RTTypeOK /\ (undisturbed => ForestInv)
<1>1. RTInit => Inv
  BY ForestInvInit DEF RTInit, RTTypeOK, ForestInv
<1>2. Inv /\ [RTNext]_rtVars => Inv'
  <2>1. ASSUME Inv, RTNext
        PROVE  Inv'
    <3>1. RolesMove /\ TreeTypeOK
      BY <2>1, Zenon DEF RTNext, RTTypeOK
    <3>2. TreeTypeOK'
      BY <3>1, NextType, Zenon
    <3>3. undisturbed' \in BOOLEAN /\ settled' \in BOOLEAN
      BY <2>1, Zenon DEF RTNext
    <3>4. ASSUME undisturbed' PROVE ForestInv'
      <4>1. ForestInv /\ ~MovedUnderWalk /\ ~TransferredBelow
        BY <2>1, <3>4, Zenon DEF RTNext
      <4>2. QED
        BY <3>1, <4>1, ForestInvNext, Zenon
    <3>5. QED
      BY <3>2, <3>3, <3>4, Zenon DEF RTTypeOK
  <2>2. ASSUME Inv, UNCHANGED rtVars
        PROVE  Inv'
    <3>1. UNCHANGED roleVars /\ undisturbed' = undisturbed /\ settled' = settled
      BY <2>2, Zenon DEF rtVars, roleVars
    <3>2. TreeTypeOK'
      BY <2>2, <3>1, TreeTypeStutter, Zenon DEF RTTypeOK
    <3>3. undisturbed' => ForestInv'
      BY <2>2, <3>1, ForestInvNext, Zenon
    <3>4. QED
      BY <2>2, <3>1, <3>2, <3>3, Zenon DEF RTTypeOK
  <2>3. QED
    BY <2>1, <2>2, Zenon
<1>3. Inv => RTTypeOK /\ UndisturbedIsAcyclic
  BY DEF ForestInv, UndisturbedIsAcyclic
<1>4. QED
  BY <1>1, <1>2, <1>3, PTL DEF RTSpec

-----------------------------------------------------------------------------
(* The depths, while `settled` holds.                                      *)

\* A child of an activation's role that has not got its new depth.
Pending(f, r) == parent[r] = f.of /\ (~f.read \/ r \in f.todo)

DepthIsRight(r) == depth[r] = DepthBelow(parent[r])

\* The activations lead up from a role to its parent, each knows the depth that
\* the children of its role are to get, and no other depth is wrong.
StackInv(stack) ==
    /\ \A i \in 1..Len(stack) :
          /\ stack[i].of \in live /\ stack[i].childDepth = depth[stack[i].of] + 1
          /\ stack[i].read => stack[i].todo \subseteq Children(stack[i].of)
    /\ \A i \in 1..Len(stack) : i + 1 \in 1..Len(stack) => parent[stack[i].of] = stack[i + 1].of
    /\ \A r \in live : DepthIsRight(r) \/ \E i \in 1..Len(stack) : Pending(stack[i], r)

\* The one call in progress, if any, knows the depth its role is to get.
CallInv(s) ==
    /\ req[s].op \notin {"remove", "delete"}
    /\ req[s].op \in {"create", "walk"} => req[s].depth = DepthBelow(req[s].to)
    /\ req[s].op = "recompute" => StackInv(req[s].stack)

DepthInv ==
    /\ ForestInv
    /\ OneCall
    /\ \A s \in Requests : CallInv(s)
    /\ (\A s \in Requests : req[s].op # "recompute") => \A r \in live : DepthIsRight(r)

\* Nobody else has a call in progress, before and after a step.
LEMMA OthersIdle ==
  ASSUME TreeTypeOK, OneCall, OneCall', NEW s \in Requests,
         CreateStep(s) \/ ReparentStep(s) \/ RemoveStep(s) \/ Abort(s)
  PROVE  \A t \in Requests : t # s => req[t] = Idle /\ req'[t] = Idle
<1>1. \A t \in Requests : t # s => req'[t] = req[t]
  BY DEF CreateStep, ReparentStep, RecomputeStep, RemoveStep, CreateFind, CreateSave,
         ReparentFind, Walk, ReparentSave, ReadChildren, UpdateChild, Return, ReparentDone,
         RemoveFind, RemoveTransfer, RemoveDelete, Abort, Begin, Continue, Finish, SetStack,
         TreeTypeOK
<1>2. CASE req[s] # Idle
  BY <1>1, <1>2 DEF OneCall
<1>3. CASE req[s] = Idle
  <2>1. req'[s] # Idle
    <3>1. PICK c \in Call : req' = [req EXCEPT ![s] = c]
      <4>1. ASSUME NEW p \in Roles \cup {NoRole}, CreateFind(s, p)
            PROVE  \E c \in Call : req' = [req EXCEPT ![s] = c]
        <5>1. [op |-> "create", to |-> p, depth |-> DepthBelow(p)] \in Call
          BY DepthBelowType DEF Call
        <5>2. QED
          BY <4>1, <5>1 DEF CreateFind, Begin
      <4>2. ASSUME NEW r \in Roles, NEW p \in Roles \cup {NoRole}, ReparentFind(s, r, p)
            PROVE  \E c \in Call : req' = [req EXCEPT ![s] = c]
        <5>1. [op |-> "walk", role |-> r, to |-> p, depth |-> DepthBelow(p), cursor |-> p] \in Call
          BY DepthBelowType DEF Call
        <5>2. QED
          BY <4>2, <5>1 DEF ReparentFind, Begin
      <4>3. ASSUME NEW r \in Roles, NEW t \in Roles, RemoveFind(s, r, t)
            PROVE  \E c \in Call : req' = [req EXCEPT ![s] = c]
        <5>1. [op |-> "remove", role |-> r, to |-> t] \in Call
          BY DEF Call
        <5>2. QED
          BY <4>3, <5>1 DEF RemoveFind, Begin
      <4>4. QED
        BY <1>3, <4>1, <4>2, <4>3
        DEF CreateStep, ReparentStep, RecomputeStep, RemoveStep, CreateSave, Walk, ReparentSave,
            ReadChildren, UpdateChild, Return, ReparentDone, Recomputing, RemoveTransfer,
            RemoveDelete, Abort, Idle
    <3>2. c # Idle
      BY DEF Call, Idle
    <3>3. QED
      BY <3>1, <3>2 DEF TreeTypeOK
  <2>2. QED
    BY <1>1, <2>1 DEF OneCall
<1>4. QED
  BY <1>2, <1>3

\* What a call that writes nothing has to keep.
LEMMA DepthKept ==
  ASSUME DepthInv, ForestInv', OneCall', NEW s \in Requests, UNCHANGED tree,
         \A t \in Requests : t # s => req[t] = Idle /\ req'[t] = Idle,
         CallInv(s)',
         req'[s].op # "recompute" => \A r \in live : DepthIsRight(r)
  PROVE  DepthInv'
<1>1. \A r \in live : DepthIsRight(r)' <=> DepthIsRight(r)
  BY DEF tree, DepthIsRight, DepthBelow
<1>2. \A t \in Requests : CallInv(t)'
  BY DEF CallInv, Idle
<1>3. QED
  BY <1>1, <1>2 DEF DepthInv, tree

\* The steps of a create and of a walk, and the ends of calls.
LEMMA CreateDepths ==
  ASSUME DepthInv, ForestInv', OneCall', NEW s \in Requests, CreateSave(s),
         \A t \in Requests : t # s => req[t] = Idle /\ req'[t] = Idle
  PROVE  DepthInv'
<1>1. PICK n \in Roles \ (live \cup removed) :
         /\ live' = live \cup {n}
         /\ parent' = [parent EXCEPT ![n] = req[s].to]
         /\ depth' = [depth EXCEPT ![n] = req[s].depth]
  BY DEF CreateSave
<1>2. /\ req[s].op = "create" /\ req[s].to \in live \cup {NoRole} /\ req'[s] = Idle
      /\ live \subseteq Roles /\ NoRole \notin Roles
      /\ parent \in [Roles -> Roles \cup {NoRole}] /\ depth \in [Roles -> Nat]
  BY RoleTreeAssumption DEF CreateSave, CanRefer, Finish, DepthInv, ForestInv, TreeTypeOK
<1>3. /\ parent'[n] = req[s].to /\ depth'[n] = req[s].depth /\ n # req[s].to
      /\ \A r \in live : parent'[r] = parent[r] /\ depth'[r] = depth[r]
  BY <1>1, <1>2
<1>4. \A t \in Requests : req[t].op # "recompute" /\ req'[t] = Idle
  BY <1>2 DEF Idle
<1>5. \A r \in live : DepthIsRight(r)
  BY <1>4 DEF DepthInv
<1>6. req[s].depth = DepthBelow(req[s].to)
  BY <1>2 DEF DepthInv, CallInv
<1>7. ASSUME NEW p \in live \cup {NoRole} PROVE DepthBelow(p)' = DepthBelow(p)
  BY <1>3 DEF DepthBelow
<1>8. DepthIsRight(n)'
  BY <1>2, <1>3, <1>6, <1>7 DEF DepthIsRight
<1>9. ASSUME NEW r \in live PROVE DepthIsRight(r)'
  <2>1. parent[r] \in live \cup {NoRole}
    BY DEF DepthInv, ForestInv, ParentsLive
  <2>2. QED
    BY <1>3, <1>5, <1>7, <2>1 DEF DepthIsRight
<1>10. \A r \in live' : DepthIsRight(r)'
  BY <1>1, <1>8, <1>9
<1>11. \A t \in Requests : CallInv(t)'
  BY <1>4 DEF CallInv, Idle
<1>12. QED
  BY <1>10, <1>11 DEF DepthInv

LEMMA BeginDepths ==
  ASSUME DepthInv, ForestInv', OneCall', NEW s \in Requests,
         \A t \in Requests : t # s => req[t] = Idle /\ req'[t] = Idle,
         \/ \E p \in Roles \cup {NoRole} : CreateFind(s, p)
         \/ \E r \in Roles, p \in Roles \cup {NoRole} : ReparentFind(s, r, p)
         \/ Walk(s)
  PROVE  DepthInv'
<1>1. UNCHANGED tree /\ req[s].op # "recompute"
  BY DEF CreateFind, ReparentFind, Walk, Begin, Idle
<1>2. \A t \in Requests : req[t].op # "recompute"
  BY <1>1 DEF Idle
<1>3. \A r \in live : DepthIsRight(r)
  BY <1>2 DEF DepthInv
<1>4. req \in [Requests -> Call \cup {Idle}]
  BY DEF DepthInv, ForestInv, TreeTypeOK
<1>5. \A p : DepthBelow(p)' = DepthBelow(p)
  BY <1>1 DEF tree, DepthBelow
<1>6. req'[s].op \in {"create", "walk"} /\ req'[s].depth = DepthBelow(req'[s].to)
  <2>1. ASSUME NEW p \in Roles \cup {NoRole}, CreateFind(s, p)
        PROVE  req'[s].op \in {"create", "walk"} /\ req'[s].depth = DepthBelow(req'[s].to)
    BY <1>4, <2>1 DEF CreateFind, Begin
  <2>2. ASSUME NEW r \in Roles, NEW p \in Roles \cup {NoRole}, ReparentFind(s, r, p)
        PROVE  req'[s].op \in {"create", "walk"} /\ req'[s].depth = DepthBelow(req'[s].to)
    BY <1>4, <2>2 DEF ReparentFind, Begin
  <2>3. CASE Walk(s)
    <3>1. /\ req[s] = [op |-> "walk", role |-> req[s].role, to |-> req[s].to,
                       depth |-> req[s].depth, cursor |-> req[s].cursor]
          /\ req[s].depth = DepthBelow(req[s].to)
      BY <1>4, <2>3, CallFields DEF Walk, DepthInv, CallInv
    <3>2. PICK c : req' = [req EXCEPT ![s] = [req[s] EXCEPT !.cursor = c]]
      BY <2>3 DEF Walk, Continue
    <3>3. req'[s] = [op |-> "walk", role |-> req[s].role, to |-> req[s].to,
                     depth |-> req[s].depth, cursor |-> c]
      BY <1>4, <3>1, <3>2
    <3>4. QED
      BY <3>1, <3>3
  <2>4. QED
    BY <2>1, <2>2, <2>3
<1>7. CallInv(s)'
  BY <1>5, <1>6 DEF CallInv
<1>8. QED
  BY <1>1, <1>3, <1>7, DepthKept

LEMMA EndDepths ==
  ASSUME DepthInv, ForestInv', OneCall', NEW s \in Requests,
         \A t \in Requests : t # s => req[t] = Idle /\ req'[t] = Idle,
         ReparentDone(s) \/ (Abort(s) /\ req[s].op # "recompute")
  PROVE  DepthInv'
<1>1. UNCHANGED tree /\ req'[s] = Idle
  BY DEF ReparentDone, Abort, Finish, DepthInv, ForestInv, TreeTypeOK
<1>2. CallInv(s)'
  BY <1>1 DEF CallInv, Idle
<1>3. \A r \in live : DepthIsRight(r)
  <2>1. CASE ReparentDone(s)
    <3>1. StackInv(<<>>)
      BY <2>1 DEF ReparentDone, DepthInv, CallInv
    <3>2. QED
      BY <3>1 DEF StackInv
  <2>2. CASE req[s].op # "recompute"
    BY <2>2 DEF DepthInv, Idle
  <2>3. QED
    BY <2>1, <2>2
<1>4. QED
  BY <1>1, <1>2, <1>3, DepthKept

\* The role has its new depth, the one below the parent that was found, and its
\* children are to get theirs.
LEMMA ReparentDepths ==
  ASSUME DepthInv, ForestInv', OneCall', NEW s \in Requests, ReparentSave(s),
         \A t \in Requests : t # s => req[t] = Idle /\ req'[t] = Idle
  PROVE  DepthInv'
<1>1. /\ req[s].op = "walk" /\ req[s].cursor = NoRole
      /\ req[s].role \in live /\ req[s].to \in live \cup {NoRole}
      /\ live' = live
      /\ live \subseteq Roles /\ NoRole \notin Roles
      /\ parent \in [Roles -> Roles \cup {NoRole}] /\ depth \in [Roles -> Nat]
  BY RoleTreeAssumption DEF ReparentSave, CanRefer, DepthInv, ForestInv, TreeTypeOK
<1>2. PICK m \in live, p \in live \cup {NoRole} : m = req[s].role /\ p = req[s].to
  BY <1>1
<1>3. PICK d : d = req[s].depth
  OBVIOUS
<1>4. /\ parent' = [parent EXCEPT ![m] = p] /\ depth' = [depth EXCEPT ![m] = d]
      /\ req' = [req EXCEPT ![s] = [op |-> "recompute", stack |-> <<Activation(m, d)>>]]
  BY <1>2, <1>3 DEF ReparentSave, Continue
<1>5. m # p
  <2>1. PICK A \in SUBSET Roles : Seen(s, A)
    BY <1>1 DEF DepthInv, ForestInv, WalkInv
  <2>2. QED
    BY <1>1, <1>2, <2>1 DEF Seen
<1>6. /\ parent'[m] = p /\ depth'[m] = d
      /\ \A r \in live : r # m => parent'[r] = parent[r] /\ depth'[r] = depth[r]
  BY <1>1, <1>4
<1>7. d = DepthBelow(p)
  BY <1>1, <1>2, <1>3 DEF DepthInv, CallInv
<1>8. \A r \in live : DepthIsRight(r)
  BY <1>1 DEF DepthInv, Idle
<1>9. DepthIsRight(m)'
  BY <1>1, <1>5, <1>6, <1>7 DEF DepthIsRight, DepthBelow
<1>10. \A r \in live : r # m /\ parent[r] # m => DepthIsRight(r)'
  <2>1. ASSUME NEW r \in live, r # m, parent[r] # m PROVE DepthIsRight(r)'
    <3>1. parent[r] \in live \cup {NoRole}
      BY DEF DepthInv, ForestInv, ParentsLive
    <3>2. QED
      BY <1>6, <1>8, <2>1, <3>1 DEF DepthIsRight, DepthBelow
  <2>2. QED
    BY <2>1
<1> DEFINE stack == <<Activation(m, d)>>
<1>11. StackInv(stack)'
  <2>1. /\ Len(stack) = 1 /\ stack[1].of = m /\ stack[1].childDepth = d + 1 /\ stack[1].read = FALSE
    BY DEF Activation
  <2>2. \A i \in 1..Len(stack) : i = 1
    BY <2>1
  <2>3. \A r \in live : r # m /\ parent[r] = m => Pending(stack[1], r)'
    BY <1>6, <2>1 DEF Pending
  <2> HIDE DEF stack
  <2>4. \A r \in live' : DepthIsRight(r)' \/ \E i \in 1..Len(stack) : Pending(stack[i], r)'
    BY <1>1, <1>9, <1>10, <2>1, <2>3
  <2>5. /\ stack[1].of \in live' /\ stack[1].childDepth = depth'[stack[1].of] + 1
        /\ ~stack[1].read
    BY <1>1, <1>6, <2>1
  <2>6. QED
    BY <2>1, <2>2, <2>4, <2>5 DEF StackInv
<1>12. req'[s].op = "recompute" /\ req'[s].stack = stack
  BY <1>4 DEF DepthInv, ForestInv, TreeTypeOK
<1>13. \A t \in Requests : CallInv(t)'
  BY <1>11, <1>12 DEF CallInv, Idle
<1>14. QED
  BY <1>12, <1>13 DEF DepthInv

-----------------------------------------------------------------------------
(* recomputeDescendantDepths.                                              *)

LEMMA OnTop ==
  ASSUME NEW stack \in Seq(Frame), stack # <<>>, NEW a, NEW b
  PROVE  /\ Head(stack) = stack[1] /\ Len(stack) \in Nat \ {0}
         /\ Len(<<a>> \o Tail(stack)) = Len(stack)
         /\ (<<a>> \o Tail(stack))[1] = a
         /\ \A i \in 2..Len(stack) : (<<a>> \o Tail(stack))[i] = stack[i]
         /\ Len(<<a, b>> \o Tail(stack)) = Len(stack) + 1
         /\ (<<a, b>> \o Tail(stack))[1] = a
         /\ (<<a, b>> \o Tail(stack))[2] = b
         /\ \A i \in 2..Len(stack) : (<<a, b>> \o Tail(stack))[i + 1] = stack[i]
         /\ Len(Tail(stack)) = Len(stack) - 1
         /\ \A i \in 1..(Len(stack) - 1) : Tail(stack)[i] = stack[i + 1]
OBVIOUS

\* The slot that recomputes, and its stack.
LEMMA StackOf ==
  ASSUME DepthInv, NEW s \in Requests, req[s].op = "recompute"
  PROVE  req[s].stack \in Seq(Frame) /\ StackInv(req[s].stack)
BY CallFields DEF DepthInv, CallInv, ForestInv, TreeTypeOK

\* A call that goes on recomputing.
LEMMA StackKept ==
  ASSUME DepthInv, ForestInv', OneCall', NEW s \in Requests, NEW stack,
         SetStack(s, stack), StackInv(stack)',
         \A t \in Requests : t # s => req[t] = Idle /\ req'[t] = Idle
  PROVE  DepthInv'
<1>1. req'[s] = [op |-> "recompute", stack |-> stack]
  BY DEF SetStack, Continue, DepthInv, ForestInv, TreeTypeOK
<1>2. req'[s].op = "recompute" /\ req'[s].stack = stack
  BY <1>1
<1>3. \A t \in Requests : CallInv(t)'
  BY <1>2 DEF CallInv, Idle
<1>4. QED
  BY <1>2, <1>3 DEF DepthInv

LEMMA ReadDepths ==
  ASSUME DepthInv, ForestInv', OneCall', NEW s \in Requests, ReadChildren(s),
         \A t \in Requests : t # s => req[t] = Idle /\ req'[t] = Idle
  PROVE  DepthInv'
<1>1. /\ req[s].op = "recompute" /\ req[s].stack # <<>> /\ ~Top(s).read /\ UNCHANGED tree
      /\ SetStack(s, <<[Top(s) EXCEPT !.read = TRUE, !.todo = Children(Top(s).of)]>>
                        \o Tail(req[s].stack))
  BY DEF ReadChildren, Recomputing
<1>2. PICK old \in Seq(Frame) : old = req[s].stack
  BY <1>1, StackOf
<1>3. PICK f \in Frame : f = Top(s)
  BY <1>1, <1>2 DEF Top
<1>4. PICK g : g = [f EXCEPT !.read = TRUE, !.todo = Children(f.of)]
  OBVIOUS
<1>5. g.of = f.of /\ g.childDepth = f.childDepth /\ g.read = TRUE /\ g.todo = Children(f.of)
  BY <1>4 DEF Frame
<1>6. PICK new : new = <<g>> \o Tail(old)
  OBVIOUS
<1>7. old # <<>> /\ SetStack(s, new) /\ StackInv(old)
  BY <1>1, <1>2, <1>3, <1>4, <1>6, StackOf
<1>8. /\ old[1] = f /\ Len(old) \in Nat \ {0} /\ Len(new) = Len(old) /\ new[1] = g
      /\ \A i \in 2..Len(old) : new[i] = old[i]
  BY <1>2, <1>3, <1>6, <1>7, OnTop DEF Top
<1>9. ~f.read /\ \A r \in live : Pending(f, r) => Pending(g, r)
  BY <1>1, <1>3, <1>5 DEF Pending, Children
<1>10. StackInv(new)
  <2>1. \A i \in 1..Len(new) :
          /\ new[i].of = old[i].of /\ new[i].childDepth = old[i].childDepth
          /\ (i = 1 \/ new[i] = old[i])
    BY <1>5, <1>8
  <2>2. \A i \in 1..Len(new) :
          /\ new[i].of \in live /\ new[i].childDepth = depth[new[i].of] + 1
          /\ new[i].read => new[i].todo \subseteq Children(new[i].of)
    BY <1>5, <1>7, <1>8, <2>1 DEF StackInv
  <2>3. \A i \in 1..Len(new) : i + 1 \in 1..Len(new) => parent[new[i].of] = new[i + 1].of
    BY <1>7, <1>8, <2>1 DEF StackInv
  <2>4. ASSUME NEW r \in live, ~DepthIsRight(r)
        PROVE  \E i \in 1..Len(new) : Pending(new[i], r)
    <3>1. PICK i \in 1..Len(old) : Pending(old[i], r)
      BY <1>7, <2>4 DEF StackInv
    <3>2. Pending(new[i], r)
      BY <1>8, <1>9, <2>1, <3>1
    <3>3. QED
      BY <1>8, <3>2
  <2>5. QED
    BY <2>2, <2>3, <2>4 DEF StackInv
<1>11. StackInv(new)'
  BY <1>1, <1>10 DEF tree, StackInv, Children, Pending, DepthIsRight, DepthBelow
<1>12. QED
  BY <1>7, <1>11, StackKept

LEMMA ReturnDepths ==
  ASSUME DepthInv, ForestInv', OneCall', NEW s \in Requests, Return(s),
         \A t \in Requests : t # s => req[t] = Idle /\ req'[t] = Idle
  PROVE  DepthInv'
<1>1. /\ req[s].op = "recompute" /\ req[s].stack # <<>> /\ Top(s).read /\ Top(s).todo = {}
      /\ UNCHANGED tree /\ SetStack(s, Tail(req[s].stack))
  BY DEF Return, Recomputing
<1>2. PICK old \in Seq(Frame) : old = req[s].stack
  BY <1>1, StackOf
<1>3. PICK new : new = Tail(old)
  OBVIOUS
<1>4. old # <<>> /\ SetStack(s, new) /\ StackInv(old) /\ old[1].read /\ old[1].todo = {}
  BY <1>1, <1>2, <1>3, StackOf, OnTop DEF Top
<1>5. /\ Len(old) \in Nat \ {0} /\ Len(new) = Len(old) - 1
      /\ \A i \in 1..(Len(old) - 1) : new[i] = old[i + 1]
  BY <1>2, <1>3, <1>4, OnTop
<1>6. StackInv(new)
  <2>1. \A i \in 1..Len(new) : i + 1 \in 1..Len(old) /\ new[i] = old[i + 1]
    BY <1>5
  <2>2. \A i \in 1..Len(new) :
          /\ new[i].of \in live /\ new[i].childDepth = depth[new[i].of] + 1
          /\ new[i].read => new[i].todo \subseteq Children(new[i].of)
    BY <1>4, <2>1 DEF StackInv
  <2>3. \A i \in 1..Len(new) : i + 1 \in 1..Len(new) => parent[new[i].of] = new[i + 1].of
    <3>1. \A i \in 1..Len(new) : i + 1 \in 1..Len(new) => (i + 1) + 1 \in 1..Len(old)
      BY <1>5
    <3>2. QED
      BY <1>4, <2>1, <3>1 DEF StackInv
  <2>4. ASSUME NEW r \in live, ~DepthIsRight(r)
        PROVE  \E i \in 1..Len(new) : Pending(new[i], r)
    <3>1. PICK i \in 1..Len(old) : Pending(old[i], r)
      BY <1>4, <2>4 DEF StackInv
    <3>2. i # 1
      BY <1>4, <3>1 DEF Pending
    <3>3. PICK j \in 1..Len(new) : i = j + 1
      <4>1. i - 1 \in 1..Len(new) /\ i = (i - 1) + 1
        BY <1>5, <3>2
      <4>2. QED
        BY <4>1
    <3>4. QED
      BY <2>1, <3>1, <3>3
  <2>5. QED
    BY <2>2, <2>3, <2>4 DEF StackInv
<1>7. StackInv(new)'
  BY <1>1, <1>6 DEF tree, StackInv, Children, Pending, DepthIsRight, DepthBelow
<1>8. QED
  BY <1>4, <1>7, StackKept

\* A child of the role on top is none of the roles that the stack leads up through:
\* they would be a cycle.
LEMMA ChildIsNew ==
  ASSUME Acyclic, NEW stack \in Seq(Frame), stack # <<>>, StackInv(stack),
         NEW c \in live, parent[c] = stack[1].of
  PROVE  \A k \in 1..Len(stack) : stack[k].of # c
<1> SUFFICES ASSUME NEW k \in 1..Len(stack), stack[k].of = c PROVE FALSE
  OBVIOUS
<1>1. Len(stack) \in Nat \ {0}
  BY OnTop
<1> DEFINE S == {stack[i].of : i \in 1..k}
<1>2. S \in SUBSET live
  BY <1>1 DEF StackInv
<1>3. stack[1].of \in S
  BY <1>1
<1>4. ASSUME NEW i \in 1..k PROVE parent[stack[i].of] \in S
  <2>1. CASE i = k
    BY <1>3, <2>1
  <2>2. CASE i # k
    <3>1. i \in 1..Len(stack) /\ i + 1 \in 1..Len(stack) /\ i + 1 \in 1..k
      BY <1>1, <2>2
    <3>2. parent[stack[i].of] = stack[i + 1].of
      BY <3>1 DEF StackInv
    <3>3. QED
      BY <3>1, <3>2
  <2>3. QED
    BY <2>1, <2>2
<1>5. QED
  BY <1>2, <1>3, <1>4 DEF Acyclic

LEMMA UpdateDepths ==
  ASSUME DepthInv, ForestInv', OneCall', NEW s \in Requests, UpdateChild(s),
         \A t \in Requests : t # s => req[t] = Idle /\ req'[t] = Idle
  PROVE  DepthInv'
<1>1. /\ req[s].op = "recompute" /\ req[s].stack # <<>> /\ Top(s).read
      /\ UNCHANGED <<live, removed, parent>>
  BY DEF UpdateChild, Recomputing
<1>2. PICK old \in Seq(Frame) : old = req[s].stack
  BY <1>1, StackOf
<1>3. PICK f \in Frame : f = Top(s)
  BY <1>1, <1>2 DEF Top
<1>4. PICK c \in f.todo \cap live :
         /\ depth' = [depth EXCEPT ![c] = f.childDepth]
         /\ SetStack(s, <<Activation(c, f.childDepth), [f EXCEPT !.todo = f.todo \ {c}]>> \o Tail(old))
  BY <1>2, <1>3 DEF UpdateChild
<1>5. PICK a, b : a = Activation(c, f.childDepth) /\ b = [f EXCEPT !.todo = f.todo \ {c}]
  OBVIOUS
<1>6. /\ a.of = c /\ a.childDepth = f.childDepth + 1 /\ a.read = FALSE
      /\ b.of = f.of /\ b.childDepth = f.childDepth /\ b.read = f.read /\ b.todo = f.todo \ {c}
  BY <1>5 DEF Activation, Frame
<1>7. PICK new : new = <<a, b>> \o Tail(old)
  OBVIOUS
<1>8. old # <<>> /\ SetStack(s, new) /\ StackInv(old) /\ f.read
  BY <1>1, <1>2, <1>3, <1>4, <1>5, <1>7, StackOf
<1>9. /\ old[1] = f /\ Len(old) \in Nat \ {0} /\ Len(new) = Len(old) + 1 /\ new[1] = a /\ new[2] = b
      /\ \A i \in 2..Len(old) : new[i + 1] = old[i]
  BY <1>2, <1>3, <1>7, <1>8, OnTop DEF Top
<1>10. /\ live \subseteq Roles /\ NoRole \notin Roles /\ Acyclic
       /\ parent \in [Roles -> Roles \cup {NoRole}] /\ depth \in [Roles -> Nat]
       /\ \A r \in live : parent[r] \in live \cup {NoRole}
  BY RoleTreeAssumption DEF DepthInv, ForestInv, TreeTypeOK, ParentsLive
<1>11. c \in live /\ parent[c] = f.of /\ f.of \in live /\ f.childDepth = depth[f.of] + 1
  BY <1>4, <1>8, <1>9 DEF StackInv, Children
<1>12. \A k \in 1..Len(old) : old[k].of # c
  BY <1>8, <1>9, <1>10, <1>11, ChildIsNew
<1>13. /\ depth'[c] = f.childDepth /\ f.of # c
       /\ \A r \in live : r # c => depth'[r] = depth[r]
  <2>1. 1 \in 1..Len(old)
    BY <1>9
  <2>2. f.of # c
    BY <1>9, <1>12, <2>1
  <2>3. QED
    BY <1>4, <1>10, <2>2
\* The old activations have moved down by one, the first with one child less.
<1>14. \A i \in 1..Len(old) :
         /\ i + 1 \in 1..Len(new) /\ new[i + 1].of = old[i].of
         /\ new[i + 1].childDepth = old[i].childDepth
         /\ new[i + 1].read = old[i].read /\ new[i + 1].todo \in {old[i].todo, old[i].todo \ {c}}
  <2>1. ASSUME NEW i \in 1..Len(old)
        PROVE  i + 1 \in 1..Len(new) /\ ((i = 1 /\ new[i + 1] = b) \/ new[i + 1] = old[i])
    BY <1>9
  <2>2. QED
    BY <1>6, <1>9, <2>1
<1>15. \A j \in 1..Len(new) : j = 1 \/ \E i \in 1..Len(old) : j = i + 1
  <2>1. ASSUME NEW j \in 1..Len(new), j # 1 PROVE j - 1 \in 1..Len(old) /\ j = (j - 1) + 1
    BY <1>9, <2>1
  <2>2. QED
    BY <2>1
<1>16. ASSUME NEW j \in 1..Len(new)
       PROVE  /\ new[j].of \in live' /\ new[j].childDepth = depth'[new[j].of] + 1
              /\ new[j].read => new[j].todo \subseteq Children(new[j].of)'
              /\ j + 1 \in 1..Len(new) => parent'[new[j].of] = new[j + 1].of
  <2>1. CASE j = 1
    BY <1>1, <1>6, <1>9, <1>11, <1>13, <2>1
  <2>2. ASSUME NEW i \in 1..Len(old), j = i + 1
        PROVE  /\ new[j].of \in live' /\ new[j].childDepth = depth'[new[j].of] + 1
               /\ new[j].read => new[j].todo \subseteq Children(new[j].of)'
               /\ j + 1 \in 1..Len(new) => parent'[new[j].of] = new[j + 1].of
    <3>1. /\ old[i].of \in live /\ old[i].childDepth = depth[old[i].of] + 1
          /\ old[i].read => old[i].todo \subseteq Children(old[i].of)
      BY <1>8 DEF StackInv
    <3>2. /\ new[j].of = old[i].of /\ new[j].childDepth = old[i].childDepth
          /\ new[j].read = old[i].read /\ new[j].todo \subseteq old[i].todo
      BY <1>14, <2>2
    <3>3. depth'[old[i].of] = depth[old[i].of]
      BY <1>12, <1>13, <3>1
    <3>4. j + 1 \in 1..Len(new) => i + 1 \in 1..Len(old)
      BY <1>9, <2>2
    <3>5. ASSUME j + 1 \in 1..Len(new) PROVE parent[old[i].of] = new[j + 1].of
      <4>1. i + 1 \in 1..Len(old) /\ parent[old[i].of] = old[i + 1].of
        BY <1>8, <3>4, <3>5 DEF StackInv
      <4>2. new[j + 1].of = old[i + 1].of
        BY <1>14, <2>2, <4>1
      <4>3. QED
        BY <4>1, <4>2
    <3>6. QED
      BY <1>1, <3>1, <3>2, <3>3, <3>5 DEF Children
  <2>3. QED
    BY <1>15, <2>1, <2>2
<1>17. DepthIsRight(c)'
  BY <1>1, <1>10, <1>11, <1>13 DEF DepthIsRight, DepthBelow
<1>18. ASSUME NEW r \in live, ~DepthIsRight(r)'
       PROVE  \E j \in 1..Len(new) : Pending(new[j], r)'
  <2>1. r # c
    BY <1>17, <1>18
  <2>2. CASE parent[r] = c
    <3>1. Pending(new[1], r)'
      BY <1>1, <1>6, <1>9, <2>2 DEF Pending
    <3>2. QED
      BY <1>9, <3>1
  <2>3. CASE parent[r] # c
    <3>1. ~DepthIsRight(r)
      <4>1. depth'[r] = depth[r] /\ (parent[r] # NoRole => depth'[parent[r]] = depth[parent[r]])
        BY <1>10, <1>13, <2>1, <2>3
      <4>2. QED
        BY <1>1, <1>18, <4>1 DEF DepthIsRight, DepthBelow
    <3>2. PICK i \in 1..Len(old) : Pending(old[i], r)
      BY <1>8, <3>1 DEF StackInv
    <3>3. i + 1 \in 1..Len(new) /\ Pending(new[i + 1], r)'
      BY <1>1, <1>14, <2>1, <3>2 DEF Pending
    <3>4. QED
      BY <3>3
  <2>4. QED
    BY <2>2, <2>3
<1>19. StackInv(new)'
  BY <1>1, <1>16, <1>18 DEF StackInv
<1>20. QED
  BY <1>8, <1>19, StackKept

-----------------------------------------------------------------------------
LEMMA DepthStep ==
  ASSUME DepthInv, RolesMove, Settling
  PROVE  DepthInv'
<1>1. PICK s \in Requests : CreateStep(s) \/ ReparentStep(s) \/ RemoveStep(s) \/ Abort(s)
  BY DEF RolesMove
<1>2. OneCall' /\ NoRemoval'
  BY DEF Settling
<1>3. \A t \in Requests : t # s => req[t] = Idle /\ req'[t] = Idle
  BY <1>1, <1>2, OthersIdle DEF DepthInv, ForestInv
<1>4. ~MovedUnderWalk /\ ~TransferredBelow
  <2>1. ASSUME MovedUnderWalk PROVE FALSE
    <3>1. PICK t \in Requests : req[t].op = "walk" /\ req'[t] = req[t]
      BY <2>1 DEF MovedUnderWalk
    <3>2. t = s
      BY <1>3, <3>1 DEF Idle
    <3>3. CASE ReparentSave(s)
      <4>1. req'[s] = [op |-> "recompute", stack |-> <<Activation(req[s].role, req[s].depth)>>]
        BY <3>3 DEF ReparentSave, Continue, DepthInv, ForestInv, TreeTypeOK
      <4>2. QED
        BY <3>1, <3>2, <4>1
    <3>4. CASE ~ReparentSave(s)
      <4>1. parent' = parent
        BY <1>1, <3>1, <3>2, <3>4
        DEF CreateStep, ReparentStep, RecomputeStep, RemoveStep, CreateFind, CreateSave,
            ReparentFind, Walk, ReadChildren, UpdateChild, Return, ReparentDone, RemoveFind,
            RemoveTransfer, RemoveDelete, Abort, tree
      <4>2. QED
        BY <2>1, <4>1 DEF MovedUnderWalk
    <3>5. QED
      BY <3>3, <3>4
  <2>2. ASSUME TransferredBelow PROVE FALSE
    <3>1. PICK t \in Requests : req[t].op = "remove"
      BY <2>2 DEF TransferredBelow
    <3>2. QED
      BY <3>1 DEF DepthInv, CallInv
  <2>3. QED
    BY <2>1, <2>2
<1>5. ForestInv'
  BY <1>4, ForestInvNext DEF DepthInv
<1>6. ~RemoveStep(s)
  <2>1. \A r, t \in Roles : ~RemoveFind(s, r, t)
    BY <1>2 DEF NoRemoval, RemoveFind, Begin, DepthInv, ForestInv, TreeTypeOK
  <2>2. ~RemoveTransfer(s) /\ ~RemoveDelete(s)
    BY DEF RemoveTransfer, RemoveDelete, DepthInv, CallInv
  <2>3. QED
    BY <2>1, <2>2 DEF RemoveStep
<1>7. Abort(s) => ReparentDone(s) \/ req[s].op # "recompute"
  BY DEF Settling, CarriedThrough
<1>8. CASE CreateStep(s)
  BY <1>2, <1>3, <1>5, <1>8, CreateDepths, BeginDepths DEF CreateStep
<1>9. CASE ReparentStep(s)
  BY <1>2, <1>3, <1>5, <1>9, BeginDepths, ReparentDepths, ReadDepths, UpdateDepths, ReturnDepths,
     EndDepths DEF ReparentStep, RecomputeStep
<1>10. CASE Abort(s)
  BY <1>2, <1>3, <1>5, <1>7, <1>10, EndDepths
<1>11. QED
  BY <1>1, <1>6, <1>8, <1>9, <1>10

\* For a hierarchy of any size and depth: as long as calls did not overlap, none
\* was cut off while it wrote, and nothing was removed, every stored depth is the
\* nesting depth once nothing is in progress.
THEOREM DepthsSettle == RTSpec => []SettledDepthIsNesting
<1> DEFINE Inv == settled => DepthInv
<1>1. RTInit => Inv
  <2> SUFFICES ASSUME RTInit PROVE DepthInv
    OBVIOUS
  <2>1. ForestInv
    BY ForestInvInit
  <2>2. QED
    BY <2>1 DEF RTInit, DepthInv, OneCall, CallInv, Idle
<1>2. Inv /\ [RTNext]_rtVars => Inv'
  <2>1. ASSUME Inv, RTNext, settled'
        PROVE  DepthInv'
    <3>1. settled /\ Settling /\ RolesMove
      BY <2>1, Zenon DEF RTNext
    <3>2. QED
      BY <2>1, <3>1, DepthStep, Zenon
  <2>2. ASSUME Inv, UNCHANGED rtVars, settled'
        PROVE  DepthInv'
    <3>1. DepthInv
      BY <2>2, Zenon DEF rtVars
    <3>2. UNCHANGED roleVars
      BY <2>2, Zenon DEF rtVars, roleVars
    <3>3. ForestInv'
      BY <3>1, <3>2, ForestInvNext DEF DepthInv
    <3>4. QED
      BY <3>1, <3>2, <3>3
      DEF roleVars, DepthInv, OneCall, CallInv, StackInv, Children, Pending, DepthIsRight, DepthBelow
  <2>3. QED
    BY <2>1, <2>2, Zenon
<1>3. Inv => SettledDepthIsNesting
  <2> SUFFICES ASSUME DepthInv PROVE DepthIsNesting
    BY Zenon DEF SettledDepthIsNesting
  <2>1. QED
    BY DEF DepthInv, DepthIsNesting, DepthIsRight, Idle
<1>4. QED
  BY <1>1, <1>2, <1>3, PTL DEF RTSpec
=============================================================================
