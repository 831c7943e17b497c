----------------------------- MODULE MCUomGroups -----------------------------
(***************************************************************************)
(* Instances of UomGroups, with one role, so that an assignment is a Type, *)
(* and of UserScreens, which share no state, for one run of TLC.           *)
(***************************************************************************)
EXTENDS UomGroups, UserScreens, TLC

CONSTANTS each, box, picker

Body(b, rs, fs) == [base |-> b, roles |-> rs, factors |-> fs]

Whole ==
    {Body(each, [r \in Roles |-> rt], [t \in Types |-> IF t = box THEN f ELSE None]) :
        rt \in {box, None}, f \in Rates}

OnlyBase == {Body(t, NotSent, NotSent) : t \in Types}
OnlyRoles == {Body(NotSent, [r \in Roles |-> rt], NotSent) : rt \in Types \cup {None}}
OnlyFactors ==
    {Body(NotSent, NotSent, [t \in Types |-> IF t = box THEN f ELSE None]) :
        f \in Rates \cup {None}}

\* The whole Group at once, or one of its three parts.
Writes == Whole \cup OnlyBase \cup OnlyRoles \cup OnlyFactors

MCSymmetry == Permutations(Requests) \cup Permutations(ScreenUsers)

VARIABLE part     \* "service", or the pages of the screens that are visited

\* "tree": the roles and what the users copy of them; "people": the users'
\* pages; "lists": the dialogs of roles and groups, over a flat list of roles,
\* with one member at most in a group that is created.
Visited ==
    CASE part = "tree" -> at' \in {"users", "roles", "mass"} /\ UsersThere' = ScreenUsers
      [] part = "people" -> at' \in {"users", "form", "detail"}
      [] part = "lists" ->
            /\ at' \in {"roles", "groups"}
            /\ Cardinality(RolesThere') > 1
            /\ \A g \in GroupsThere' \ SeededGroups : Cardinality(groupRows'[g]) <= 1
            /\ \A r \in RolesThere' : roleRows'[r].parent = TopLevel /\ ~roleRows'[r].twoFactor

OneRoleForAll == \A u, v \in ScreenUsers : userRows[u] = userRows[v]

MCInit ==
    /\ UomInit
    /\ ScreensInit
    /\ \/ part \in {"service", "lists"} /\ OneRoleForAll
       \/ part \in {"tree", "people"}

MCNext ==
    /\ UNCHANGED part
    /\ \/ part = "service" /\ UomNext /\ UNCHANGED screenVars
       \/ part # "service" /\ ScreensNext /\ Visited /\ UNCHANGED uomVars

MCSpec == MCInit /\ [][MCNext]_<<uomVars, screenVars, part>>

\* In "lists" nothing is claimed once a form was left while it was saved, and its
\* timer has ended.
SomethingToCheck == part = "lists" /\ "left" \in excuses => saves # <<>>

\* Every variable keeps its type, whatever is called and clicked.
GroupsAndScreensTypeOK == UomTypeOK /\ ScreensTypeOK
=============================================================================
