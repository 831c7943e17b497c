---------------------------- MODULE MCUomScreens ----------------------------
(***************************************************************************)
(* Instances of four modules about Units of Measure that share no state,   *)
(* for one run of TLC: in a behaviour one of them moves.                   *)
(***************************************************************************)
EXTENDS UomReferences, ReferencePages, GroupForm, ImportDialog

CONSTANTS N1, N2
VARIABLE screenOf

\* A row without a name before one that can be imported, a Group twice, and one
\* whose Base Type is not known.
SomeTexts ==
    {<<[name |-> NoName, known |-> TRUE], [name |-> N1, known |-> TRUE]>>,
     <<[name |-> N2, known |-> TRUE], [name |-> N1, known |-> FALSE], [name |-> N2, known |-> TRUE]>>}

MCInit ==
    /\ screenOf \in {"references", "pages", "form", "import"}
    /\ ReferencesInit
    /\ PagesInit /\ (screenOf # "pages" => page = TenantsPage)
    /\ FormInit /\ (screenOf # "form" => ~isEdit)
    /\ ImportInit

MCNext ==
    /\ \/ screenOf = "references" /\ ReferencesNext /\ UNCHANGED <<pageVars, formVars, dialogVars>>
       \/ screenOf = "pages" /\ PagesNext /\ UNCHANGED <<referenceVars, formVars, dialogVars>>
       \/ screenOf = "form" /\ FormNext /\ UNCHANGED <<referenceVars, pageVars, dialogVars>>
       \/ screenOf = "import" /\ ImportNext /\ UNCHANGED <<referenceVars, pageVars, formVars>>
    /\ UNCHANGED screenOf

MCSpec == MCInit /\ [][MCNext]_<<referenceVars, pageVars, formVars, dialogVars, screenOf>>

\* Every variable keeps its type, whatever fails and whenever.
UomScreensTypeOK == ReferencesTypeOK /\ PagesTypeOK /\ FormTypeOK /\ ImportTypeOK

\* Nothing tells the slots, the Categories or the rows of a page apart.
Symmetric ==
    Permutations(Slots) \cup Permutations(Categories)
        \cup Permutations(PageCalls) \cup Permutations(ListRows)
=============================================================================
