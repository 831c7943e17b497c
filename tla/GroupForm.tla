------------------------------ MODULE GroupForm ------------------------------
(***************************************************************************)
(* The form in which a UOM Group is made or changed (UomGroupForm,         *)
(* PickingHierarchyList), and what the server checks of the body it sends  *)
(* (CreateGroupDto, GroupsService).                                        *)
(*                                                                         *)
(* A select whose value is the empty string stands for nothing chosen.  A  *)
(* row whose number is empty is sent as 0, like one with 0 typed in, and   *)
(* neither keeps the form from being saved: the server refuses the body.   *)
(* The name and Category are left out, and with them what the server finds *)
(* out about what is stored (a name that is taken, a row that is gone).    *)
(***************************************************************************)
EXTENDS Naturals, Sequences, SequencesExt, Filters

CONSTANTS
    FormTypes,     \* the Types offered
    FormRoles,     \* the Functional Roles offered
    Blank,         \* the empty string
    Untouched,     \* no entry in a record, and no body
    MaxFactor      \* bound on the factors typed

ASSUME FormAssumption ==
    MaxFactor \in Nat /\ Blank \notin FormTypes /\ Untouched \notin FormTypes \cup {Blank}

VARIABLES
    isEdit,             \* the Group is stored
    baseTypeId,         \* a Type or Blank
    roleAssignments,    \* roleAssignments[r]: a Type, Blank, or Untouched
    conversionFactors,  \* conversionFactors[t]: the number in the row of t
    pickingHierarchy,   \* a sequence of Types
    addHierarchyTypeId, \* the Type chosen to be added to it, or Blank
    sent,               \* the body of the save in flight, or Untouched
    screen              \* "form", "list" (of the Groups) or "detail"

assignmentFields == <<baseTypeId, roleAssignments, conversionFactors>>
hierarchyFields == <<pickingHierarchy, addHierarchyTypeId>>
formVars == <<isEdit, assignmentFields, hierarchyFields, sent, screen>>

Factors == 0..MaxFactor
Rows == FormTypes \cup {Blank}

\* A body that handleSave builds: assignments, and factors by their rows.
IsBody(b) ==
    /\ b.base \in FormTypes
    /\ b.roles \in [FormRoles -> FormTypes \cup {Untouched}]
    /\ b.factors \in UNION {[r -> Factors] : r \in SUBSET Rows}
    /\ b.hierarchy \in Seq(FormTypes)

FormTypeOK ==
    /\ isEdit \in BOOLEAN
    /\ baseTypeId \in Rows
    /\ roleAssignments \in [FormRoles -> Rows \cup {Untouched}]
    /\ conversionFactors \in [Rows -> Factors]
    /\ pickingHierarchy \in Seq(FormTypes)
    /\ addHierarchyTypeId \in Rows
    /\ sent # Untouched => IsBody(sent)
    /\ screen \in {"form", "list", "detail"}

\* An empty form, or that of a Group with a role and the factor it needs.
FormInit ==
    /\ \/ /\ isEdit = FALSE
          /\ baseTypeId = Blank
          /\ roleAssignments = [r \in FormRoles |-> Untouched]
          /\ conversionFactors = [t \in Rows |-> 0]
       \/ \E b, t \in FormTypes, r \in FormRoles :
             /\ isEdit = TRUE
             /\ baseTypeId = b
             /\ roleAssignments = [q \in FormRoles |-> IF q = r THEN t ELSE Untouched]
             /\ conversionFactors = [u \in Rows |-> IF u = t /\ t # b THEN MaxFactor ELSE 0]
    /\ pickingHierarchy = <<>> /\ addHierarchyTypeId = Blank
    /\ sent = Untouched /\ screen = "form"

isSubmitting == sent # Untouched
Editable == screen = "form" /\ ~isSubmitting

-----------------------------------------------------------------------------
(* The fields.                                                             *)

ChooseBase(t) ==
    /\ Editable
    /\ baseTypeId' = t
    /\ UNCHANGED <<isEdit, roleAssignments, conversionFactors, hierarchyFields, sent, screen>>

\* "Unassigned" makes an entry with no Type, it does not remove the entry.
AssignRole(r, t) ==
    /\ Editable
    /\ roleAssignments' = [roleAssignments EXCEPT ![r] = t]
    /\ UNCHANGED <<isEdit, baseTypeId, conversionFactors, hierarchyFields, sent, screen>>

\* What the entries hold, except for the Base Type.
reachableNonBaseTypeIds == {roleAssignments[r] : r \in FormRoles} \ {Untouched, baseTypeId}

\* Mutant of TypeFactor: the inputs are not disabled while a save is in flight.
TypeFactorAnyTime(t, n) ==
    /\ screen = "form" /\ t \in reachableNonBaseTypeIds
    /\ conversionFactors' = [conversionFactors EXCEPT ![t] = n]
    /\ UNCHANGED <<isEdit, baseTypeId, roleAssignments, hierarchyFields, sent, screen>>

\* One row for every reachable Type.
TypeFactor(t, n) ==
    /\ Editable /\ t \in reachableNonBaseTypeIds
    /\ conversionFactors' = [conversionFactors EXCEPT ![t] = n]
    /\ UNCHANGED <<isEdit, baseTypeId, roleAssignments, hierarchyFields, sent, screen>>

\* splice out, splice in.
Moved(s, from, to) == InsertAt(RemoveAt(s, from), to, s[from])

\* A row is dropped on another, or moved by a button; handleReorderHierarchy.
ReorderHierarchy(from, to) ==
    /\ Editable
    /\ from # to
    /\ pickingHierarchy' = Moved(pickingHierarchy, from, to)
    /\ UNCHANGED <<isEdit, assignmentFields, addHierarchyTypeId, sent, screen>>

RemoveFromHierarchy(t) ==
    /\ Editable /\ t \in ToSet(pickingHierarchy)
    /\ pickingHierarchy' = Filter(pickingHierarchy, Rows \ {t})
    /\ UNCHANGED <<isEdit, assignmentFields, addHierarchyTypeId, sent, screen>>

\* Mutant of ChooseHierarchyType: the Types that are in it are offered too.
ChooseAnyHierarchyType(t) ==
    /\ screen = "form"
    /\ addHierarchyTypeId' = t
    /\ UNCHANGED <<isEdit, assignmentFields, pickingHierarchy, sent, screen>>

\* The Types that are not in it are offered, during a save as well.
ChooseHierarchyType(t) ==
    /\ screen = "form" /\ t \notin ToSet(pickingHierarchy)
    /\ addHierarchyTypeId' = t
    /\ UNCHANGED <<isEdit, assignmentFields, pickingHierarchy, sent, screen>>

\* Mutant of AddToHierarchy: the button works when nothing is chosen.
AddAnyway ==
    /\ screen = "form"
    /\ pickingHierarchy' = Append(pickingHierarchy, addHierarchyTypeId)
    /\ addHierarchyTypeId' = Blank
    /\ UNCHANGED <<isEdit, assignmentFields, sent, screen>>

\* The button is disabled while nothing is chosen.
AddToHierarchy ==
    /\ screen = "form" /\ addHierarchyTypeId # Blank
    /\ pickingHierarchy' = Append(pickingHierarchy, addHierarchyTypeId)
    /\ addHierarchyTypeId' = Blank
    /\ UNCHANGED <<isEdit, assignmentFields, sent, screen>>

-----------------------------------------------------------------------------
(* What the server checks of a body.                                       *)

\* Every role's Type but the base has a factor (assertCompleteness).
CompleteBody(b) ==
    \A r \in FormRoles : b.roles[r] \notin {Untouched, b.base} => b.roles[r] \in DOMAIN b.factors

\* @IsUUID of the typeId and @IsPositive of unitsPerBase.
IsFactorRow(t, n) == t # Blank /\ n > 0

\* The other ids are checked in the same way, and no Type is in the hierarchy twice
\* (assertPickingHierarchyUniqueness).  No role and no factor can be there twice.
WellFormedBody(b) ==
    /\ b.base # Blank
    /\ \A r \in FormRoles : b.roles[r] # Blank
    /\ \A t \in DOMAIN b.factors : IsFactorRow(t, b.factors[t])
    /\ Blank \notin ToSet(b.hierarchy) /\ IsInjective(b.hierarchy)

PassesChecks(b) == CompleteBody(b) /\ WellFormedBody(b)

-----------------------------------------------------------------------------
(* The calls.                                                              *)

\* Entries with no Type are not sent.
SentRoles ==
    [r \in FormRoles |-> IF roleAssignments[r] = Blank THEN Untouched ELSE roleAssignments[r]]

\* handleSave, once a Base Type is chosen.
Save ==
    /\ Editable
    /\ baseTypeId # Blank
    /\ sent' = [base |-> baseTypeId, roles |-> SentRoles,
                factors |-> [t \in reachableNonBaseTypeIds |-> conversionFactors[t]],
                hierarchy |-> pickingHierarchy]
    /\ UNCHANGED <<isEdit, assignmentFields, hierarchyFields, screen>>

\* The Group is stored, and the page goes to it: for an edit that is the same.
SaveAnswered ==
    /\ isSubmitting /\ PassesChecks(sent)
    /\ sent' = Untouched
    /\ screen' = IF isEdit /\ screen = "form" THEN "form" ELSE "detail"
    /\ UNCHANGED <<isEdit, assignmentFields, hierarchyFields>>

\* A check refuses the body, of these or of what is stored, or the call fails.
SaveRejected ==
    /\ isSubmitting
    /\ sent' = Untouched
    /\ UNCHANGED <<isEdit, assignmentFields, hierarchyFields, screen>>

\* A delete that succeeds, Cancel, or a link; only Cancel waits for a save.
LeaveForm ==
    /\ screen = "form"
    /\ screen' = "list"
    /\ UNCHANGED <<isEdit, assignmentFields, hierarchyFields, sent>>

FormNext ==
    \/ \E t \in FormTypes : ChooseBase(t) \/ ChooseHierarchyType(t) \/ RemoveFromHierarchy(t)
    \/ \E r \in FormRoles, t \in Rows : AssignRole(r, t)
    \/ \E t \in Rows, n \in Factors : TypeFactor(t, n)
    \/ \E from, to \in DOMAIN pickingHierarchy : ReorderHierarchy(from, to)
    \/ AddToHierarchy \/ Save \/ SaveAnswered \/ SaveRejected \/ LeaveForm

FormSpec == FormInit /\ [][FormNext]_formVars

-----------------------------------------------------------------------------
(* Properties.                                                             *)

\* No row of the Conversion Factors is empty or 0, and none is of no Type.
FactorsAreFilledIn == \A t \in reachableNonBaseTypeIds : t # Blank /\ conversionFactors[t] > 0

\* handleSave: whatever the fields went through, the checks of a body in flight
\* refuse it for a row of the Conversion Factors that the form shows as wanting,
\* and for nothing else.
RefusalIsForAFactor == isSubmitting => (PassesChecks(sent) <=> FactorsAreFilledIn)

\* isSubmitting: while a save is in flight the form shows what was sent, but
\* for Types added to the end of the hierarchy in the meantime.
FormShowsSent ==
    isSubmitting =>
        /\ baseTypeId = sent.base
        /\ SentRoles = sent.roles
        /\ \A t \in DOMAIN sent.factors : conversionFactors[t] = sent.factors[t]
        /\ IsPrefix(sent.hierarchy, pickingHierarchy)

\* handleSave: the user sees on the form what is being saved, and whether the
\* checks of the body will let it through: they do unless a row of the Conversion
\* Factors is empty, 0 or of no Type, which the form does not refuse to save.
SentIsShown == RefusalIsForAFactor /\ FormShowsSent

\* UomGroupForm.tsx:78: a row of the Conversion Factors is one "per non-Base
\* Type currently reachable via a Role Assignment", so that each can be given a
\* factor that the server accepts.
FactorRowsAreTypes == reachableNonBaseTypeIds \subseteq FormTypes
=============================================================================
