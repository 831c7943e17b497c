---------------------------- MODULE UomReferences ----------------------------
(***************************************************************************)
(* The rows that UOM Types and Groups refer to: Categories and Functional  *)
(* Roles (CategoriesService, FunctionalRolesService, TypesService, and     *)
(* GroupsService as far as it refers to them).                             *)
(*                                                                         *)
(* A save looks up what it refers to and writes later; a removal counts    *)
(* the references and soft-deletes later.  Removed rows stay, so that no   *)
(* foreign key ever fails.  Names, and what keeps a Type from being        *)
(* removed (module UomGroups), are left out.                               *)
(***************************************************************************)
EXTENDS Naturals

CONSTANTS
    Categories, FunctionalRoles,
    UomTypes, UomSets,   \* rows of UOMType and of UOMGroup
    Slots,               \* slots for calls in progress
    NoCategory,          \* NULL
    Unsent               \* a field left out of a body, or null in it

VARIABLES
    row,         \* row[x]: "absent", "live" or (soft) "deleted"
    category,    \* category[x]: the Category of the Type or Group x
    assigned,    \* assigned[g]: the Functional Roles that Group g assigns
    slot,        \* slot[s]: the call in progress, or NoCall
    crossed      \* what was removed while a save that refers to it was under
                 \* way; for the properties only

referenceVars == <<row, category, assigned, slot, crossed>>

Targets == Categories \cup FunctionalRoles
Referrers == UomTypes \cup UomSets
RowsOfUom == Targets \cup Referrers

\* They are rows of four tables, and NULL is none of them.
ASSUME ReferencesAssumption ==
    /\ Categories \cap FunctionalRoles = {} /\ Targets \cap Referrers = {}
    /\ NoCategory \notin Targets

-----------------------------------------------------------------------------
NoCall == [op |-> "none"]

SaveCall == [op : {"save"}, of : RowsOfUom, cat : Categories \cup {Unsent},
             roles : (SUBSET FunctionalRoles) \cup {Unsent}, resolved : BOOLEAN]
RemoveCall == [op : {"remove"}, of : RowsOfUom, left : SUBSET {"types", "groups", "assignments"}]

ReferencesTypeOK ==
    /\ row \in [RowsOfUom -> {"absent", "live", "deleted"}]
    /\ category \in [Referrers -> Categories \cup {NoCategory}]
    /\ assigned \in [UomSets -> SUBSET FunctionalRoles]
    /\ slot \in [Slots -> {NoCall} \cup SaveCall \cup RemoveCall]
    /\ crossed \subseteq Targets

\* Functional Roles are there from the first migration.
ReferencesInit ==
    /\ row = [x \in RowsOfUom |-> IF x \in FunctionalRoles THEN "live" ELSE "absent"]
    /\ category = [x \in Referrers |-> NoCategory]
    /\ assigned = [g \in UomSets |-> {}]
    /\ slot = [s \in Slots |-> NoCall]
    /\ crossed = {}

\* What the save in slot s refers to.
RefersTo(s) ==
    IF slot[s].op # "save" THEN {}
    ELSE (IF slot[s].cat = Unsent THEN {} ELSE {slot[s].cat})
            \cup (IF slot[s].roles = Unsent THEN {} ELSE slot[s].roles)

HoldsResolved(s, x) == slot[s].op = "save" /\ slot[s].resolved /\ x \in RefersTo(s)

-----------------------------------------------------------------------------
\* create, update: the name is free and a row to change is there.
BeginReferenceSave(s, x, cat, roles) ==
    /\ slot[s] = NoCall
    /\ row[x] # "deleted"
    /\ row[x] = "absent" => ~\E q \in Slots : slot[q] # NoCall /\ slot[q].of = x
    /\ x \in UomSets /\ row[x] = "absent" => roles # Unsent
    /\ x \in Targets => cat = Unsent
    /\ x \notin UomSets => roles = Unsent
    /\ slot' = [slot EXCEPT ![s] =
          [op |-> "save", of |-> x, cat |-> cat, roles |-> roles, resolved |-> x \in Targets]]
    /\ UNCHANGED <<row, category, assigned, crossed>>

\* resolveCategoryId, resolveGroupWriteRefs: only live rows resolve.
ResolveReferences(s) ==
    /\ slot[s].op = "save" /\ ~slot[s].resolved
    /\ \A x \in RefersTo(s) : row[x] = "live"
    /\ slot' = [slot EXCEPT ![s].resolved = TRUE]
    /\ crossed' = crossed \cup
          {x \in RefersTo(s) : \E q \in Slots : slot[q].op = "remove" /\ slot[q].of = x}
    /\ UNCHANGED <<row, category, assigned>>

\* The row is written; an update goes by the internal id, removed or not.
WriteReferences(s) ==
    LET c == slot[s] IN
    /\ c.op = "save" /\ c.resolved
    /\ row' = [row EXCEPT ![c.of] = IF @ = "absent" THEN "live" ELSE @]
    /\ category' = IF c.cat = Unsent THEN category ELSE [category EXCEPT ![c.of] = c.cat]
    /\ assigned' = IF c.roles = Unsent THEN assigned ELSE [assigned EXCEPT ![c.of] = c.roles]
    /\ slot' = [slot EXCEPT ![s] = NoCall]
    /\ UNCHANGED crossed

-----------------------------------------------------------------------------
\* Mutant of CountsFor: the Groups of a Category are forgotten.
CountsForTypes(x) ==
    IF x \in Categories THEN {"types"} ELSE IF x \in FunctionalRoles THEN {"assignments"} ELSE {}

\* The counts that have to be zero: of a Category, and of a Functional Role.
CountsFor(x) ==
    IF x \in Categories THEN {"types", "groups"}
    ELSE IF x \in FunctionalRoles THEN {"assignments"} ELSE {}

\* A Category counts for live rows only, an assignment even in a removed Group.
References(x, what) ==
    CASE what = "types" -> {t \in UomTypes : row[t] = "live" /\ category[t] = x}
      [] what = "groups" -> {g \in UomSets : row[g] = "live" /\ category[g] = x}
      [] what = "assignments" -> {g \in UomSets : x \in assigned[g]}

BeginReferenceRemoval(s, x) ==
    /\ slot[s] = NoCall
    /\ row[x] = "live"
    /\ slot' = [slot EXCEPT ![s] = [op |-> "remove", of |-> x, left |-> CountsFor(x)]]
    /\ crossed' = IF x \in Targets /\ \E q \in Slots : HoldsResolved(q, x)
                  THEN crossed \cup {x} ELSE crossed
    /\ UNCHANGED <<row, category, assigned>>

\* The two counts of a Category are sent together and answered in any order.
CountReferences(s, what) ==
    /\ slot[s].op = "remove" /\ what \in slot[s].left
    /\ References(slot[s].of, what) = {}
    /\ slot' = [slot EXCEPT ![s].left = @ \ {what}]
    /\ UNCHANGED <<row, category, assigned, crossed>>

SoftDelete(s) ==
    /\ slot[s].op = "remove" /\ slot[s].left = {}
    /\ row' = [row EXCEPT ![slot[s].of] = "deleted"]
    /\ slot' = [slot EXCEPT ![s] = NoCall]
    /\ UNCHANGED <<category, assigned, crossed>>

\* A check or a command fails.
EndWithError(s) ==
    /\ slot[s] # NoCall
    /\ slot' = [slot EXCEPT ![s] = NoCall]
    /\ UNCHANGED <<row, category, assigned, crossed>>

ReferencesNext ==
    \E s \in Slots :
        \/ \E x \in RowsOfUom, cat \in Categories \cup {Unsent},
              roles \in (SUBSET FunctionalRoles) \cup {Unsent} : BeginReferenceSave(s, x, cat, roles)
        \/ ResolveReferences(s) \/ WriteReferences(s)
        \/ \E x \in RowsOfUom : BeginReferenceRemoval(s, x)
        \/ \E what \in {"types", "groups", "assignments"} : CountReferences(s, what)
        \/ SoftDelete(s) \/ EndWithError(s)

ReferencesSpec == ReferencesInit /\ [][ReferencesNext]_referenceVars

-----------------------------------------------------------------------------
\* BR-014: a removed Category is the Category of no live Type or Group, and a
\* removed Functional Role is assigned by no Group, live or removed, unless a
\* save that refers to it was under way when it was removed.
RemovedIsUnused ==
    \A x \in Targets \ crossed : row[x] = "deleted" =>
        /\ \A r \in Referrers : row[r] = "live" => category[r] # x
        /\ \A g \in UomSets : x \notin assigned[g]
=============================================================================
