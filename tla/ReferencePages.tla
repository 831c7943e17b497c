---------------------------- MODULE ReferencePages ----------------------------
(***************************************************************************)
(* The pages that list rows of the server and change them: Categories,     *)
(* Types, Functional Roles (UomReferenceListPage), Groups, and Tenants.    *)
(*                                                                         *)
(* Every change is followed by a load of what the page shows.  Nothing     *)
(* keeps a call from being sent while another is under way, nor an answer  *)
(* from coming after that of a later call.                                 *)
(***************************************************************************)
EXTENDS Naturals, FiniteSets

CONSTANTS
    ListRows,
    PageCalls,    \* slots for changes, each with its load
    MaxVersion,   \* bound on the changes of a row
    Gone          \* a row that is removed

ASSUME PagesAssumption == MaxVersion \in Nat \ {0} /\ Gone \notin Nat

VARIABLES
    page,         \* one of the pages below
    rows,         \* rows[x]: the version of x that is stored, 0 before it is, or Gone
    options,      \* the version of the other lists that the page loads
    shown,        \* [rows, options]: what the page shows
    going,        \* going[s]: the call in slot s, or NotGoing
    editing,      \* the row in the dialog, "new", or "none"
    isSaving,     \* the dialog that is open has a save under way
    excused,      \* what is shown need not be what is stored: a load failed, or
                  \* something changed during it or since the last
    dismissed     \* a dialog was dismissed during its save; these two are for
                  \* the properties only

pageVars == <<page, rows, options, shown, going, editing, isSaving, excused, dismissed>>

-----------------------------------------------------------------------------
(* What the pages load and offer.                                          *)

CategoriesPage == [loads |-> {"rows"}, offers |-> {"add", "edit", "delete"}]
TypesPage == [loads |-> {"rows", "options"}, offers |-> {"add", "edit", "delete"}]
FunctionalRolesPage == [loads |-> {"rows"}, offers |-> {"add", "edit", "delete"}]
\* Groups are added by an import, and changed on a page of their own.
GroupsPage == [loads |-> {"rows", "options"}, offers |-> {"import", "delete"}]
TenantsPage == [loads |-> {"rows"}, offers |-> {"import"}]

Pages == {CategoriesPage, TypesPage, FunctionalRolesPage, GroupsPage, TenantsPage}

-----------------------------------------------------------------------------
NotGoing == [at |-> "no"]

Versions == 0..MaxVersion \cup {Gone}
Content == [rows : [ListRows -> Versions], options : 0..MaxVersion]

\* `own`: the dialog that sent the save is still open.
Going == [at : {"sent", "load"}, op : {"add", "edit", "delete", "import", "mount"},
          of : ListRows, own : BOOLEAN, left : SUBSET {"rows", "options"}, got : Content]

PagesTypeOK ==
    /\ page \in Pages
    /\ rows \in [ListRows -> Versions] /\ options \in 0..MaxVersion
    /\ shown \in Content
    /\ going \in [PageCalls -> Going \cup {NotGoing}]
    /\ editing \in ListRows \cup {"new", "none"}
    /\ isSaving \in BOOLEAN /\ excused \in BOOLEAN /\ dismissed \in BOOLEAN

NothingShown == [rows |-> [x \in ListRows |-> 0], options |-> 0]

\* The page is mounted, and its first load begins.
PagesInit ==
    /\ page \in Pages
    /\ rows = [x \in ListRows |-> 0] /\ options = 0
    /\ shown = NothingShown
    /\ \E s \in PageCalls, x \in ListRows :
          going = [q \in PageCalls |-> IF q # s THEN NotGoing ELSE
              [at |-> "load", op |-> "mount", of |-> x, own |-> FALSE,
               left |-> page.loads, got |-> NothingShown]]
    /\ editing = "none" /\ isSaving = FALSE
    /\ excused = FALSE /\ dismissed = FALSE

Others(s) == {q \in PageCalls \ {s} : going[q] # NotGoing}
Stored == [rows |-> rows, options |-> IF "options" \in page.loads THEN options ELSE 0]

-----------------------------------------------------------------------------
(* The dialog.                                                             *)

OpenDialogFor(x) ==
    /\ editing = "none"
    /\ \/ x = "new" /\ "add" \in page.offers
       \/ x \in ListRows /\ "edit" \in page.offers /\ shown.rows[x] \notin {0, Gone}
    /\ editing' = x /\ isSaving' = FALSE
    /\ UNCHANGED <<page, rows, options, shown, going, excused, dismissed>>

\* Mutant of CancelDialog: the button works during a save.
CancelAnyTime ==
    /\ editing # "none"
    /\ editing' = "none" /\ isSaving' = FALSE
    /\ going' = [s \in PageCalls |-> IF going[s] = NotGoing THEN NotGoing ELSE [going[s] EXCEPT !.own = FALSE]]
    /\ UNCHANGED <<page, rows, options, shown, excused, dismissed>>

CancelDialog ==
    /\ editing # "none" /\ ~isSaving
    /\ editing' = "none"
    /\ UNCHANGED <<page, rows, options, shown, going, isSaving, excused, dismissed>>

\* Escape and the cross close it during a save as well.
DismissDialog ==
    /\ editing # "none" /\ isSaving
    /\ editing' = "none" /\ isSaving' = FALSE
    /\ dismissed' = TRUE
    /\ going' = [s \in PageCalls |-> IF going[s] = NotGoing THEN NotGoing ELSE [going[s] EXCEPT !.own = FALSE]]
    /\ UNCHANGED <<page, rows, options, shown, excused>>

Send(s, op, x, own) ==
    /\ going[s] = NotGoing
    /\ going' = [going EXCEPT ![s] = [at |-> "sent", op |-> op, of |-> x, own |-> own,
                                      left |-> page.loads, got |-> NothingShown]]

\* onSubmit: the dialog waits for the change and for the load.
SubmitDialog(s, x) ==
    /\ editing # "none" /\ ~isSaving
    /\ IF editing = "new" THEN rows[x] = 0 /\ Send(s, "add", x, TRUE)
                          ELSE x = editing /\ Send(s, "edit", x, TRUE)
    /\ isSaving' = TRUE
    /\ UNCHANGED <<page, rows, options, shown, editing, excused, dismissed>>

\* handleDelete, for any row at any time but under a dialog.
SendDelete(s, x) ==
    /\ "delete" \in page.offers /\ editing = "none"
    /\ shown.rows[x] \notin {0, Gone}
    /\ Send(s, "delete", x, FALSE)
    /\ UNCHANGED <<page, rows, options, shown, editing, isSaving, excused, dismissed>>

\* An import is done, or the form for a tenant is sent.
SendImport(s, x) ==
    /\ "import" \in page.offers /\ rows[x] = 0
    /\ Send(s, "import", x, FALSE)
    /\ UNCHANGED <<page, rows, options, shown, editing, isSaving, excused, dismissed>>

-----------------------------------------------------------------------------
(* The server and its answers.                                             *)

\* The change a call asks for, if the row allows it.
Allowed(op, x) == IF op \in {"add", "import"} THEN rows[x] = 0 ELSE rows[x] \in 1..(MaxVersion - 1)
RowAfter(op, x) == IF op = "delete" THEN Gone ELSE rows[x] + 1

\* Mutant of Applied: after a delete the page is as it was.
AppliedNoReload(s) ==
    LET c == going[s] IN
    /\ c.at = "sent" /\ Allowed(c.op, c.of)
    /\ rows' = [rows EXCEPT ![c.of] = RowAfter(c.op, c.of)]
    /\ going' = [going EXCEPT ![s] = IF c.op = "delete" THEN NotGoing ELSE [c EXCEPT !.at = "load"]]
    /\ excused' = (Others(s) # {})
    /\ UNCHANGED <<page, options, shown, editing, isSaving, dismissed>>

\* The server makes the change, the answer arrives, and the load begins.
Applied(s) ==
    LET c == going[s] IN
    /\ c.at = "sent" /\ Allowed(c.op, c.of)
    /\ rows' = [rows EXCEPT ![c.of] = RowAfter(c.op, c.of)]
    /\ going' = [going EXCEPT ![s].at = "load"]
    /\ excused' = (Others(s) # {})
    /\ UNCHANGED <<page, options, shown, editing, isSaving, dismissed>>

\* The reason is shown, by the dialog if it is still there.
Refused(s) ==
    /\ going[s].at = "sent"
    /\ going' = [going EXCEPT ![s] = NotGoing]
    /\ isSaving' = (isSaving /\ ~going[s].own)
    /\ UNCHANGED <<page, rows, options, shown, editing, excused, dismissed>>

\* The lists of a load are read in any order.
ReadOneList(s, what) ==
    /\ going[s].at = "load" /\ what \in going[s].left
    /\ going' = [going EXCEPT ![s].left = @ \ {what},
                              ![s].got = IF what = "rows" THEN [@ EXCEPT !.rows = rows]
                                                          ELSE [@ EXCEPT !.options = options]]
    /\ UNCHANGED <<page, rows, options, shown, editing, isSaving, excused, dismissed>>

\* After the load of a save the dialog is closed: the one that is open then.
CloseAfter(s) ==
    IF going[s].op \in {"add", "edit"} THEN editing' = "none" /\ isSaving' = FALSE
    ELSE UNCHANGED <<editing, isSaving>>

Loaded(s) ==
    /\ going[s].at = "load" /\ going[s].left = {}
    /\ shown' = going[s].got
    /\ going' = [going EXCEPT ![s] = NotGoing]
    /\ CloseAfter(s)
    /\ UNCHANGED <<page, rows, options, excused, dismissed>>

LoadFails(s) ==
    /\ going[s].at = "load"
    /\ going' = [going EXCEPT ![s] = NotGoing]
    /\ excused' = TRUE
    /\ CloseAfter(s)
    /\ UNCHANGED <<page, rows, options, shown, dismissed>>

\* Somebody else changes a row, or one of the other lists.
ChangedElsewhere(x) ==
    /\ \/ /\ rows[x] \in 0..(MaxVersion - 1)
          /\ rows' = [rows EXCEPT ![x] = @ + 1] /\ UNCHANGED options
       \/ options < MaxVersion /\ options' = options + 1 /\ UNCHANGED rows
    /\ excused' = TRUE
    /\ UNCHANGED <<page, shown, going, editing, isSaving, dismissed>>

PagesNext ==
    \/ \E x \in ListRows \cup {"new"} : OpenDialogFor(x)
    \/ CancelDialog \/ DismissDialog
    \/ \E x \in ListRows : ChangedElsewhere(x)
    \/ \E s \in PageCalls :
          \/ \E x \in ListRows : SubmitDialog(s, x) \/ SendDelete(s, x) \/ SendImport(s, x)
          \/ Applied(s) \/ Refused(s) \/ Loaded(s) \/ LoadFails(s)
          \/ \E what \in {"rows", "options"} : ReadOneList(s, what)

PagesSpec == PagesInit /\ [][PagesNext]_pageVars

-----------------------------------------------------------------------------
(* Properties.                                                             *)

\* onRefresh: when nothing is under way the page shows what is stored, unless
\* its last load failed, or calls overlapped, or somebody else changed it.
ShownIsStored ==
    (\A s \in PageCalls : going[s] = NotGoing) /\ ~excused => shown = Stored

\* onSave: the end of a save closes the dialog that sent it and no other, as
\* long as none was dismissed during its save.
SaveClosesItsDialog ==
    [][\A s \in PageCalls :
          going[s] # NotGoing /\ going'[s] = NotGoing /\ editing # "none" /\ editing' = "none" =>
              going[s].own \/ dismissed]_pageVars
=============================================================================
