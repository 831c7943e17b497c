------------------------------- MODULE Rosters -------------------------------
(***************************************************************************)
(* Rows that are written in parts: the groups with their members           *)
(* (GroupsService), the profiles with their permissions (ProfilesService)  *)
(* and the holidays with the users they are assigned to (HolidaysService). *)
(*                                                                         *)
(* The row is one command and its parts are others, without a transaction; *)
(* for a group they are even deleted by one and created by the next.  A    *)
(* row that is created anew has an id that no call in progress knows.      *)
(***************************************************************************)
EXTENDS Naturals

CONSTANTS
    Groups, Profiles, Holidays,
    People,        \* users and roles that groups and holidays refer to
    Permissions,   \* module and action: PERMISSION_MODULES x PERMISSION_ACTIONS
    Callers,       \* slots for calls in progress
    Missing        \* no row

VARIABLES
    people,        \* those of People that exist
    groups,        \* groups[g][m]: the memberships of m in g, or Missing
    profiles,      \* profiles[p][x]: the row of permission x, or Missing
    holidays,      \* holidays[h]: the users assigned, or Missing
    call,          \* call[s]: the call in progress in slot s, or Resting
    asked,         \* what the last call that wrote a row asked for
    spoilt         \* groups saved by overlapping calls, and rows with a call
                   \* that did not end; these two for the properties only

rosterVars == <<people, groups, profiles, holidays, call, asked, spoilt>>
groupOnly == <<people, profiles, holidays>>
profileOnly == <<people, groups, holidays>>
holidayOnly == <<people, groups, profiles>>

-----------------------------------------------------------------------------
Resting == [at |-> "idle"]

Grants == [Permissions -> {"unset", "granted", "denied"}]

ASSUME RosterAssumption ==
    /\ Groups \cap Profiles = {} /\ Groups \cap Holidays = {} /\ Profiles \cap Holidays = {}
    /\ Missing \notin [People -> Nat] /\ Missing \notin Grants /\ \A S \in SUBSET People : S # Missing

Lists == [Groups \cup Holidays -> SUBSET People]

RosterCall ==
    [at : {"resolve", "delete", "create"}, row : Groups, list : SUBSET People]
        \cup [at : {"permissions"}, row : Profiles, granted : SUBSET Permissions]
        \cup [at : {"assign"}, row : Holidays, list : SUBSET People]

RosterTypeOK ==
    /\ people \subseteq People
    /\ groups \in [Groups -> [People -> Nat] \cup {Missing}]
    /\ profiles \in [Profiles -> Grants \cup {Missing}]
    /\ holidays \in [Holidays -> {Missing} \cup SUBSET People]
    /\ call \in [Callers -> RosterCall \cup {Resting}]
    /\ asked \in [list : Lists, granted : [Profiles -> SUBSET Permissions]]
    /\ spoilt \subseteq Groups \cup Profiles \cup Holidays

RosterInit ==
    /\ people = People
    /\ groups = [g \in Groups |-> Missing]
    /\ profiles = [p \in Profiles |-> Missing]
    /\ holidays = [h \in Holidays |-> Missing]
    /\ call = [s \in Callers |-> Resting]
    /\ asked = [list |-> [x \in Groups \cup Holidays |-> {}], granted |-> [p \in Profiles |-> {}]]
    /\ spoilt = {}

Busy(row) == {s \in Callers : call[s] # Resting /\ call[s].row = row}
Step(s, at) == call' = [call EXCEPT ![s].at = at]
End(s) == call' = [call EXCEPT ![s] = Resting]

-----------------------------------------------------------------------------
(* Groups: create, update, replaceMembers, remove                          *)

CreateGroup(s, g, list) ==
    /\ call[s] = Resting
    /\ groups[g] = Missing /\ Busy(g) = {}
    /\ groups' = [groups EXCEPT ![g] = [m \in People |-> 0]]
    /\ asked' = [asked EXCEPT !.list[g] = {}]
    /\ call' = IF list = {} THEN call
               ELSE [call EXCEPT ![s] = [at |-> "resolve", row |-> g, list |-> list]]
    /\ spoilt' = spoilt \ {g}
    /\ UNCHANGED groupOnly

UpdateGroup(s, g, list) ==
    /\ call[s] = Resting
    /\ groups[g] # Missing
    /\ call' = [call EXCEPT ![s] = [at |-> "resolve", row |-> g, list |-> list]]
    /\ spoilt' = IF Busy(g) = {} THEN spoilt ELSE spoilt \cup {g}
    /\ UNCHANGED <<groupOnly, groups, asked>>

\* Every user and role of the list is found.
ResolveMembers(s) ==
    /\ call[s].at = "resolve"
    /\ call[s].list \subseteq people
    /\ Step(s, "delete")
    /\ UNCHANGED <<groupOnly, groups, asked, spoilt>>

\* Mutant of DeleteMembers: those that are on the list stay.
DeleteOthers(s) ==
    LET g == call[s].row IN
    /\ call[s].at = "delete"
    /\ groups' = IF groups[g] = Missing THEN groups
                 ELSE [groups EXCEPT ![g] = [m \in People |-> IF m \in call[s].list THEN @[m] ELSE 0]]
    /\ Step(s, "create")
    /\ UNCHANGED <<groupOnly, asked, spoilt>>

DeleteMembers(s) ==
    LET g == call[s].row IN
    /\ call[s].at = "delete"
    /\ groups' = IF groups[g] = Missing THEN groups ELSE [groups EXCEPT ![g] = [m \in People |-> 0]]
    /\ Step(s, "create")
    /\ UNCHANGED <<groupOnly, asked, spoilt>>

\* No constraint keeps a member from being there twice.
CreateMembers(s) ==
    LET g == call[s].row IN
    /\ call[s].at = "create"
    /\ groups[g] # Missing
    /\ groups' = [groups EXCEPT ![g] = [m \in People |-> IF m \in call[s].list THEN @[m] + 1 ELSE @[m]]]
    /\ asked' = [asked EXCEPT !.list[g] = call[s].list]
    /\ End(s)
    /\ UNCHANGED <<groupOnly, spoilt>>

\* The group to transfer to is looked up and otherwise not used.
RemoveGroup(g, to) ==
    /\ g # to
    /\ groups[g] # Missing /\ groups[to] # Missing
    /\ groups' = [groups EXCEPT ![g] = Missing]
    /\ UNCHANGED <<groupOnly, call, asked, spoilt>>

-----------------------------------------------------------------------------
(* Profiles: create, setPermission, remove                                 *)

CreateProfile(s, p, granted) ==
    /\ call[s] = Resting
    /\ profiles[p] = Missing /\ Busy(p) = {}
    /\ profiles' = [profiles EXCEPT ![p] = [x \in Permissions |-> "unset"]]
    /\ call' = [call EXCEPT ![s] = [at |-> "permissions", row |-> p, granted |-> granted]]
    /\ asked' = [asked EXCEPT !.granted[p] = granted]
    /\ spoilt' = spoilt \ {p}
    /\ UNCHANGED profileOnly

\* Mutant of CreatePermissions: rows for what is granted only.
CreateGranted(s) ==
    LET p == call[s].row IN
    /\ call[s].at = "permissions"
    /\ profiles[p] # Missing
    /\ profiles' = [profiles EXCEPT ![p] = [x \in Permissions |->
          IF x \in call[s].granted THEN "granted" ELSE "unset"]]
    /\ End(s)
    /\ UNCHANGED <<profileOnly, asked, spoilt>>

CreatePermissions(s) ==
    LET p == call[s].row IN
    /\ call[s].at = "permissions"
    /\ profiles[p] # Missing
    /\ profiles' = [profiles EXCEPT ![p] = [x \in Permissions |->
          IF x \in call[s].granted THEN "granted" ELSE "denied"]]
    /\ End(s)
    /\ UNCHANGED <<profileOnly, asked, spoilt>>

\* An update: the row of the permission has to be there.
SetPermission(p, x, grant) ==
    /\ profiles[p] # Missing
    /\ profiles[p][x] # "unset"
    /\ profiles' = [profiles EXCEPT ![p][x] = IF grant THEN "granted" ELSE "denied"]
    /\ asked' = [asked EXCEPT !.granted[p] = IF grant THEN @ \cup {x} ELSE @ \ {x}]
    /\ UNCHANGED <<profileOnly, call, spoilt>>

RemoveProfile(p, to) ==
    /\ p # to
    /\ profiles[p] # Missing /\ profiles[to] # Missing
    /\ profiles' = [profiles EXCEPT ![p] = Missing]
    /\ UNCHANGED <<profileOnly, call, asked, spoilt>>

-----------------------------------------------------------------------------
(* Holidays: create                                                        *)

\* The row comes before the check of the users; name and date are unique.
CreateHoliday(s, h, list) ==
    /\ call[s] = Resting
    /\ holidays[h] = Missing
    /\ holidays' = [holidays EXCEPT ![h] = {}]
    /\ call' = IF list = {} THEN call
               ELSE [call EXCEPT ![s] = [at |-> "assign", row |-> h, list |-> list]]
    /\ asked' = [asked EXCEPT !.list[h] = list]
    /\ UNCHANGED <<holidayOnly, spoilt>>

\* Mutant of AssignUsers: users that are not found are left out.
AssignFound(s) ==
    /\ call[s].at = "assign"
    /\ holidays' = [holidays EXCEPT ![call[s].row] = call[s].list \cap people]
    /\ End(s)
    /\ UNCHANGED <<holidayOnly, asked, spoilt>>

AssignUsers(s) ==
    /\ call[s].at = "assign"
    /\ call[s].list \subseteq people
    /\ holidays' = [holidays EXCEPT ![call[s].row] = call[s].list]
    /\ End(s)
    /\ UNCHANGED <<holidayOnly, asked, spoilt>>

-----------------------------------------------------------------------------
\* A user or role is removed; memberships do not refer to it by a foreign key.
RemovePerson(m) ==
    /\ m \in people
    /\ people' = people \ {m}
    /\ UNCHANGED <<groups, profiles, holidays, call, asked, spoilt>>

\* A check or command fails, or the server stops: what is written stays.
CutOff(s) ==
    /\ call[s] # Resting
    /\ spoilt' = spoilt \cup {call[s].row}
    /\ End(s)
    /\ UNCHANGED <<people, groups, profiles, holidays, asked>>

RosterNext ==
    \/ \E s \in Callers :
          \/ \E g \in Groups, list \in SUBSET People : CreateGroup(s, g, list) \/ UpdateGroup(s, g, list)
          \/ ResolveMembers(s) \/ DeleteMembers(s) \/ CreateMembers(s)
          \/ \E p \in Profiles, granted \in SUBSET Permissions : CreateProfile(s, p, granted)
          \/ CreatePermissions(s)
          \/ \E h \in Holidays, list \in SUBSET People : CreateHoliday(s, h, list)
          \/ AssignUsers(s) \/ CutOff(s)
    \/ \E g, to \in Groups : RemoveGroup(g, to)
    \/ \E p, to \in Profiles : RemoveProfile(p, to)
    \/ \E p \in Profiles, x \in Permissions, grant \in BOOLEAN : SetPermission(p, x, grant)
    \/ \E m \in People : RemovePerson(m)

RosterSpec == RosterInit /\ [][RosterNext]_rosterVars

-----------------------------------------------------------------------------
(* Properties.                                                             *)

Settled(row) == Busy(row) = {} /\ row \notin spoilt

\* replaceMembers: between saves that neither overlap nor end early a group has
\* exactly the members of the last list, each once.
GroupHoldsLastList ==
    \A g \in Groups : groups[g] # Missing /\ Settled(g) =>
        groups[g] = [m \in People |-> IF m \in asked.list[g] THEN 1 ELSE 0]

\* ADR-156: a profile whose creation did not end early has a row for every
\* permission, and grants what its creation and the changes since asked for.
PermissionsAreExplicit ==
    \A p \in Profiles : profiles[p] # Missing /\ Settled(p) =>
        profiles[p] = [x \in Permissions |-> IF x \in asked.granted[p] THEN "granted" ELSE "denied"]

\* HolidaysService.create: a holiday whose creation did not end early is
\* assigned to all the users of the request, not to those that could be found.
HolidayHasItsUsers ==
    \A h \in Holidays : holidays[h] # Missing /\ Settled(h) => holidays[h] = asked.list[h]

\* Written one after the other without a transaction, the parts of a row are in
\* the end those that were asked for last, for groups, profiles and holidays
\* whose saves neither overlapped nor ended early.
PartsAreAsAsked == GroupHoldsLastList /\ PermissionsAreExplicit /\ HolidayHasItsUsers
=============================================================================
