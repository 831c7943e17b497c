------------------------------ MODULE UserScreens ------------------------------
(***************************************************************************)
(* The screens for users, roles and groups in one browser tab.  They do    *)
(* not call the back end: they change the rows of lib/mock-data/users.ts   *)
(* in place, and a page shows that array or a copy it took of it.  A form  *)
(* is saved by a timer, which goes on when its dialog or page is gone.     *)
(*                                                                         *)
(* Names, depths (an indentation), profiles and the users among the        *)
(* members of a group are left out.                                        *)
(***************************************************************************)
EXTENDS Naturals, Sequences, FiniteSets

CONSTANTS
    ScreenRoles, ScreenUsers, ScreenGroups,
    SeededRoles,     \* the roles of the fixture
    SeededGroups,    \* its groups
    Missing, Gone,   \* no row yet, and no row any more
    TopLevel,        \* parentRoleId null
    TheRows,         \* a page that shows the array itself
    PageSize,        \* rows of a page of the user list
    MaxSaves         \* bound on the timers that run at once

ASSUME ScreensAssumption ==
    /\ SeededRoles \subseteq ScreenRoles /\ SeededRoles # {} /\ SeededGroups \subseteq ScreenGroups
    /\ TopLevel \notin ScreenRoles /\ PageSize \in Nat \ {0} /\ MaxSaves \in Nat
    /\ IsFiniteSet(ScreenUsers) /\ ScreenUsers # {} /\ {"left", "below"} \cap ScreenUsers = {}

VARIABLES
    roleRows,    \* roleRows[r]: parent and two-factor flag, or Missing, Gone
    userRows,    \* userRows[u]: its role and a copy of the flag, or Gone
    groupRows,   \* groupRows[g]: the members, or Missing, Gone
    at,          \* the page
    listed,      \* the rows of the page's copy, or TheRows
    dialog,      \* the dialog of the page, or NoDialog
    pageNumber,  \* of the user list
    saves,       \* forms whose timer runs, the oldest first
    excuses      \* what the properties make exceptions for, for them only

screenVars == <<roleRows, userRows, groupRows, at, listed, dialog, pageNumber, saves, excuses>>
rows == <<roleRows, userRows, groupRows>>

-----------------------------------------------------------------------------
Screens == {"users", "form", "detail", "roles", "groups", "mass"}

RolesThere == {r \in ScreenRoles : roleRows[r] \notin {Missing, Gone}}
UsersThere == {u \in ScreenUsers : userRows[u] # Gone}
GroupsThere == {g \in ScreenGroups : groupRows[g] \notin {Missing, Gone}}

RoleRow == [parent : ScreenRoles \cup {TopLevel}, twoFactor : BOOLEAN]
UserRow == [role : ScreenRoles, twoFactor : BOOLEAN]

\* A role is a member with a type that was chosen, or with none.
Member == [id : ScreenRoles, typed : BOOLEAN]

ASSUME RowAssumption ==
    \A x \in {Missing, Gone} : x \notin RoleRow /\ x \notin UserRow /\ \A S \in SUBSET Member : x # S

New == "new"
NoDialog == [kind |-> "none"]

\* Mutant of FormOf: the entries are made when they are typed, not before.
FormUnfilled(kind, x, known) == [kind |-> kind, of |-> x, known |-> {}, sent |-> FALSE]
FormOf(kind, x, known) == [kind |-> kind, of |-> x, known |-> known, sent |-> FALSE]
PickerOf(x) == [kind |-> "delete", of |-> x]
Dialogs ==
    {NoDialog} \cup {PickerOf(x) : x \in ScreenRoles \cup ScreenUsers \cup ScreenGroups}
    \cup [kind : {"role", "group"}, of : ScreenRoles \cup ScreenGroups \cup {New},
          known : SUBSET ScreenRoles, sent : BOOLEAN]

\* `here`: its page has not been left.  `known`: roles with an entry in the
\* form; `chosen`: the members chosen among them.
Saves == [kind : {"role", "group", "user"}, of : ScreenRoles \cup ScreenGroups \cup {New},
          parent : ScreenRoles \cup {TopLevel}, known : SUBSET ScreenRoles,
          chosen : SUBSET ScreenRoles, here : BOOLEAN]

ScreensTypeOK ==
    /\ roleRows \in [ScreenRoles -> RoleRow \cup {Missing, Gone}]
    /\ userRows \in [ScreenUsers -> UserRow \cup {Gone}]
    /\ \A u \in UsersThere : userRows[u].role \in RolesThere
    /\ groupRows \in [ScreenGroups -> {Missing, Gone} \cup SUBSET Member]
    /\ at \in Screens
    /\ listed \in {TheRows} \cup SUBSET (ScreenRoles \cup ScreenUsers \cup ScreenGroups)
    /\ dialog \in Dialogs
    /\ pageNumber \in 1..Cardinality(ScreenUsers)
    /\ saves \in Seq(Saves) /\ Len(saves) <= MaxSaves
    /\ excuses \subseteq {"left", "below"} \cup ScreenUsers

\* The fixture: a flat list of roles, of which the users have one each.
ScreensInit ==
    /\ roleRows = [r \in ScreenRoles |->
          IF r \in SeededRoles THEN [parent |-> TopLevel, twoFactor |-> FALSE] ELSE Missing]
    /\ userRows \in [ScreenUsers -> [role : SeededRoles, twoFactor : {FALSE}]]
    /\ groupRows = [g \in ScreenGroups |->
          IF g \in SeededGroups THEN {[id |-> r, typed |-> TRUE] : r \in SeededRoles} ELSE Missing]
    /\ at = "users" /\ listed = TheRows /\ dialog = NoDialog /\ pageNumber = 1
    /\ saves = <<>> /\ excuses = {}

-----------------------------------------------------------------------------
(* The tree of roles.                                                      *)

\* With a role, its parent: the walk of reparentRole and of renderNode.
UpwardClosed(S) == \A q \in S : roleRows[q].parent \in RolesThere => roleRows[q].parent \in S
Lines(r) == {S \in SUBSET RolesThere : r \in S /\ UpwardClosed(S)}

\* renderNode reaches it from a root.
InTree(r) == \A S \in Lines(r) : \E q \in S : roleRows[q].parent = TopLevel
Tree == {r \in RolesThere : InTree(r)}

IsBelow(t, r) == t \in RolesThere /\ \A S \in Lines(t) : r \in S

\* Mutant of RefusesCycle: only the new parent itself is looked at.
RefusesSelf(r, t) == r = t
RefusesCycle(r, t) == r = t \/ IsBelow(t, r)

\* reparentRole, refresh: a role is dropped on another, or below the tree.
Reparent(r, t) ==
    /\ roleRows' = IF RefusesCycle(r, t) THEN roleRows ELSE [roleRows EXCEPT ![r].parent = t]
    /\ listed' = RolesThere
    /\ UNCHANGED <<userRows, groupRows, at, dialog, pageNumber, saves, excuses>>

\* Mutant of SetTwoFactor: the users' copies stay as they are.
SetTwoFactorOnly(r, required) ==
    /\ roleRows' = [roleRows EXCEPT ![r].twoFactor = required]
    /\ listed' = RolesThere
    /\ UNCHANGED <<userRows, groupRows, at, dialog, pageNumber, saves, excuses>>

\* setRoleTwoFactorRequired
SetTwoFactor(r, required) ==
    /\ roleRows' = [roleRows EXCEPT ![r].twoFactor = required]
    /\ userRows' = [u \in ScreenUsers |->
          IF u \in UsersThere /\ userRows[u].role = r
          THEN [userRows[u] EXCEPT !.twoFactor = required] ELSE userRows[u]]
    /\ listed' = RolesThere
    /\ excuses' = excuses \ {u \in UsersThere : userRows[u].role = r}
    /\ UNCHANGED <<groupRows, at, dialog, pageNumber, saves>>

\* Only rows of the tree can be dragged, dropped on, or ticked.
UseTree ==
    /\ at = "roles" /\ dialog = NoDialog
    /\ \E r \in Tree :
          \/ \E t \in Tree \cup {TopLevel} : Reparent(r, t)
          \/ \E b \in BOOLEAN : SetTwoFactor(r, b)

\* massUpdateUsers by role; its other fields are data.
MassUpdate(S, r) ==
    /\ at = "mass" /\ S # {} /\ S \subseteq UsersThere /\ r \in RolesThere
    /\ userRows' = [u \in ScreenUsers |->
          IF u \in S THEN [role |-> r, twoFactor |-> roleRows[r].twoFactor] ELSE userRows[u]]
    /\ excuses' = excuses \ S
    /\ UNCHANGED <<roleRows, groupRows, at, listed, dialog, pageNumber, saves>>

-----------------------------------------------------------------------------
(* Pages and dialogs.                                                      *)

Going == dialog.kind \in {"role", "group"} /\ dialog.sent

\* A link or the browser's history; timers go on.
Navigate(p) ==
    /\ at' = p /\ listed' = TheRows /\ dialog' = NoDialog /\ pageNumber' = 1
    /\ saves' = [i \in DOMAIN saves |-> [saves[i] EXCEPT !.here = FALSE]]
    /\ excuses' = excuses \cup (IF saves # <<>> THEN {"left"} ELSE {})
    /\ UNCHANGED rows

\* The rows that the page is about, and those that it shows.
Present == CASE at = "roles" -> RolesThere [] at = "groups" -> GroupsThere [] OTHER -> UsersThere
Shown == IF listed # TheRows THEN listed ELSE Present

\* Those with the buttons Edit and Delete.
RowsWithButtons == IF at = "roles" THEN Tree ELSE Shown

\* Create, or Edit of a row.  The entries of the group form are those of the
\* roles that are there when it opens.
OpenForm ==
    /\ at \in {"roles", "groups"} /\ dialog = NoDialog
    /\ \E x \in RowsWithButtons \cup {New} :
          dialog' = IF at = "roles" THEN FormOf("role", x, {}) ELSE FormOf("group", x, RolesThere)
    /\ UNCHANGED <<rows, at, listed, pageNumber, saves, excuses>>

\* The dialog can be dismissed while it saves.
DismissForm ==
    /\ dialog.kind \in {"role", "group"}
    /\ dialog' = NoDialog
    /\ excuses' = excuses \cup (IF Going THEN {"left"} ELSE {})
    /\ UNCHANGED <<rows, at, listed, pageNumber, saves>>

StartTimer(save) ==
    /\ Len(saves) < MaxSaves
    /\ saves' = Append(saves, save)

SaveOf(kind, x, parent, known, chosen) ==
    [kind |-> kind, of |-> x, parent |-> parent, known |-> known, chosen |-> chosen, here |-> TRUE]

SubmitRole(parent) ==
    /\ dialog.kind = "role" /\ ~dialog.sent
    /\ parent = TopLevel \/ (dialog.of = New /\ parent \in Shown)
    /\ StartTimer(SaveOf("role", dialog.of, parent, {}, {}))
    /\ dialog' = [dialog EXCEPT !.sent = TRUE]
    /\ UNCHANGED <<rows, at, listed, pageNumber, excuses>>

\* Entries for roles that came later are made only where one is chosen.
SubmitGroup(roles) ==
    /\ dialog.kind = "group" /\ ~dialog.sent
    /\ roles \subseteq RolesThere
    /\ StartTimer(SaveOf("group", dialog.of, TopLevel, dialog.known \cup roles, roles))
    /\ dialog' = [dialog EXCEPT !.sent = TRUE]
    /\ UNCHANGED <<rows, at, listed, pageNumber, excuses>>

\* UserForm: nothing is stored, the timer leads to another page.
SubmitUser ==
    /\ at = "form"
    /\ \A i \in DOMAIN saves : ~(saves[i].kind = "user" /\ saves[i].here)
    /\ StartTimer(SaveOf("user", New, TopLevel, {}, {}))
    /\ UNCHANGED <<rows, at, listed, dialog, pageNumber, excuses>>

-----------------------------------------------------------------------------
(* The timers.  Those of one length end in order.                          *)

IsNext(i) == \A j \in 1..(i - 1) : (saves[j].kind = "user") # (saves[i].kind = "user")

Ended(i) == SubSeq(saves, 1, i - 1) \o SubSeq(saves, i + 1, Len(saves))

\* onSaved: refresh and setEditing(null), if the page is still there.
SavedOn(save, present) ==
    /\ listed' = IF save.here THEN present ELSE listed
    /\ dialog' = IF save.here /\ dialog.kind = save.kind THEN NoDialog ELSE dialog

\* addRole; updateRole changes names only.
RoleSaved(i) ==
    LET save == saves[i] IN
    /\ save.kind = "role" /\ IsNext(i)
    /\ IF save.of = New
       THEN \E r \in ScreenRoles : roleRows[r] = Missing /\
               roleRows' = [roleRows EXCEPT ![r] = [parent |-> save.parent, twoFactor |-> FALSE]]
       ELSE UNCHANGED roleRows
    /\ SavedOn(save, {r \in ScreenRoles : roleRows'[r] \notin {Missing, Gone}})
    /\ saves' = Ended(i)
    /\ UNCHANGED <<userRows, groupRows, at, pageNumber, excuses>>

\* Roles whose entry is not "none", if there still.
\* A role without an entry is none of those without a type.
MembersOf(save) ==
    {[id |-> r, typed |-> r \in save.known] :
        r \in {q \in RolesThere : q \in save.known => q \in save.chosen}}

\* addGroup, updateGroup.
GroupSaved(i) ==
    LET save == saves[i] IN
    /\ save.kind = "group" /\ IsNext(i)
    /\ IF save.of = New
       THEN \E g \in ScreenGroups : groupRows[g] = Missing /\
               groupRows' = [groupRows EXCEPT ![g] = MembersOf(save)]
       ELSE groupRows' = [groupRows EXCEPT ![save.of] = IF @ = Gone THEN @ ELSE MembersOf(save)]
    /\ SavedOn(save, {g \in ScreenGroups : groupRows'[g] \notin {Missing, Gone}})
    /\ saves' = Ended(i)
    /\ UNCHANGED <<roleRows, userRows, at, pageNumber, excuses>>

\* router.push, wherever the tab is by now.
UserSaved(i) ==
    /\ saves[i].kind = "user" /\ IsNext(i)
    /\ at' \in {"users", "detail"} /\ listed' = TheRows /\ dialog' = NoDialog /\ pageNumber' = 1
    /\ saves' = [j \in DOMAIN Ended(i) |-> [Ended(i)[j] EXCEPT !.here = FALSE]]
    /\ excuses' = excuses \cup (IF Len(saves) > 1 THEN {"left"} ELSE {})
    /\ UNCHANGED rows

-----------------------------------------------------------------------------
(* Deletion: the TransferTargetPicker.                                     *)

OpenPicker ==
    /\ at \in {"users", "detail", "roles", "groups"} /\ dialog = NoDialog
    /\ \E x \in RowsWithButtons : dialog' = PickerOf(x)
    /\ UNCHANGED <<rows, at, listed, pageNumber, saves, excuses>>

ClosePicker ==
    /\ dialog.kind = "delete"
    /\ dialog' = NoDialog
    /\ UNCHANGED <<rows, at, listed, pageNumber, saves, excuses>>

\* Another row of the page is chosen to transfer to.
IsConfirmed(t) == dialog.kind = "delete" /\ t \in Shown \ {dialog.of}

\* removeMockUser; the detail page goes to the list.
ConfirmUser(t) ==
    /\ at \in {"users", "detail"} /\ IsConfirmed(t)
    /\ userRows' = [userRows EXCEPT ![dialog.of] = Gone]
    /\ at' = "users" /\ listed' = IF at = "detail" THEN TheRows ELSE Shown \ {dialog.of}
    /\ excuses' = excuses \ {dialog.of}
    /\ dialog' = NoDialog
    /\ UNCHANGED <<roleRows, groupRows, pageNumber, saves>>

\* removeRole: users and children go to the target; flags are not recomputed,
\* and the target may be one of the children.
ConfirmRole(t) ==
    /\ at = "roles" /\ IsConfirmed(t)
    /\ LET r == dialog.of IN
       /\ userRows' = [u \in ScreenUsers |->
             IF u \in UsersThere /\ userRows[u].role = r THEN [userRows[u] EXCEPT !.role = t] ELSE userRows[u]]
       /\ roleRows' = [q \in ScreenRoles |->
             CASE q = r -> Gone
               [] q \in RolesThere \ {r} /\ roleRows[q].parent = r -> [roleRows[q] EXCEPT !.parent = t]
               [] OTHER -> roleRows[q]]
       /\ listed' = RolesThere \ {r}
       /\ excuses' = excuses \cup {u \in UsersThere : userRows[u].role = r}
                             \cup (IF IsBelow(t, r) THEN {"below"} ELSE {})
    /\ dialog' = NoDialog
    /\ UNCHANGED <<groupRows, at, pageNumber, saves>>

\* removeGroup: nothing is transferred.
ConfirmGroup(t) ==
    /\ at = "groups" /\ IsConfirmed(t)
    /\ groupRows' = [groupRows EXCEPT ![dialog.of] = Gone]
    /\ listed' = GroupsThere \ {dialog.of}
    /\ dialog' = NoDialog
    /\ UNCHANGED <<roleRows, userRows, at, pageNumber, saves, excuses>>

-----------------------------------------------------------------------------
(* The pages of the user list, without filters.                            *)

TotalPages == LET n == Cardinality(Shown) IN IF n = 0 THEN 1 ELSE (n + PageSize - 1) \div PageSize

\* Mutant of CurrentPage: the number that was reached.
CurrentPageReached == pageNumber
CurrentPage == IF pageNumber < TotalPages THEN pageNumber ELSE TotalPages

\* Previous counts from the number that was reached, not from the one shown.
TurnPage ==
    /\ at = "users" /\ dialog = NoDialog
    /\ \/ CurrentPage > 1 /\ pageNumber' = pageNumber - 1
       \/ CurrentPage < TotalPages /\ pageNumber' = pageNumber + 1
    /\ UNCHANGED <<rows, at, listed, dialog, saves, excuses>>

ScreensNext ==
    \/ UseTree \/ OpenForm \/ DismissForm \/ SubmitUser \/ OpenPicker \/ ClosePicker \/ TurnPage
    \/ \E S \in SUBSET ScreenUsers, r \in ScreenRoles : MassUpdate(S, r)
    \/ \E p \in Screens : Navigate(p)
    \/ \E p \in ScreenRoles \cup {TopLevel} : SubmitRole(p)
    \/ \E R \in SUBSET ScreenRoles : SubmitGroup(R)
    \/ \E i \in DOMAIN saves : RoleSaved(i) \/ GroupSaved(i) \/ UserSaved(i)
    \/ \E x \in Shown : ConfirmUser(x) \/ ConfirmRole(x) \/ ConfirmGroup(x)

ScreensSpec == ScreensInit /\ [][ScreensNext]_screenVars

-----------------------------------------------------------------------------
(* Properties.                                                             *)

\* RoleTree, reparentRole, removeRole: whatever is dragged, created and removed,
\* every role is shown in the tree, unless one was removed in favour of a role
\* below it, or a form was left while it was saved.
AllRolesAreShown ==
    excuses \cap {"left", "below"} = {} => \A r \in RolesThere : InTree(r)

\* users.ts:357: every user's copy of the two-factor flag is that of the role,
\* until a removal carries the user over to another one.
TwoFactorFollowsRole ==
    \A u \in UsersThere \ excuses : userRows[u].twoFactor = roleRows[userRows[u].role].twoFactor

\* handleSubmit of the group form: every role among the members was chosen with
\* a type, unless a form was left while it was saved.
MembersAreTyped ==
    "left" \notin excuses => \A g \in GroupsThere : \A m \in groupRows[g] : m.typed

\* However rows are deleted and pages turned, the user list shows a page with
\* rows as long as there are any.
PageHasRows ==
    at = "users" /\ Shown # {} => PageSize * (CurrentPage - 1) < Cardinality(Shown)

\* What is stored can be reached: every role in the tree, every user on a page.
RowsAreShown == AllRolesAreShown /\ PageHasRows

\* The rows that the screens change in place agree with one another: users with
\* their roles, the members of groups with the form they were chosen in.
RowsAgree == TwoFactorFollowsRole /\ MembersAreTyped
=============================================================================
