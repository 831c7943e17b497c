----------------------------- MODULE ImportDialog -----------------------------
(***************************************************************************)
(* The dialog that imports UOM Groups from a text and exports them as one  *)
(* (UomImportExportDialog), and the import of a list of Groups on the      *)
(* server (ImportExportService).                                           *)
(*                                                                         *)
(* The dialog stays mounted when it is closed, so an answer finds it in    *)
(* whatever state it is by then.  A text is a sequence of rows below its   *)
(* heading; a row has a name and a Base Type, or lacks one.                *)
(***************************************************************************)
EXTENDS Naturals, Sequences, FiniteSets, SequencesExt, Filters

CONSTANTS
    GroupNames,
    NoName,        \* an empty cell
    Texts,         \* the texts a user may choose: sequences of rows
    MaxExports     \* bound on the exports under way

\* `known`: the Base Type is there and the name of one.
TextRow == [name : GroupNames \cup {NoName}, known : BOOLEAN]

ASSUME ImportAssumption ==
    NoName \notin GroupNames /\ Texts \subseteq Seq(TextRow) /\ MaxExports \in Nat

VARIABLES
    stored,        \* the names of the live Groups
    open,          \* the dialog is seen
    mode, step,
    csvText,       \* [from |-> ..., rows |-> ...]; from is "late" if an export
                   \* was answered when the dialog was back in the mode for imports
    mapping,       \* "none", or "full": name and Base Type have columns
    results,       \* the report shown, or NoReport
    importing,     \* the import in progress, or NoImport
    exports,       \* answers of exports that are under way
    reported       \* the import that `results` reports, for the properties only

dialogVars == <<stored, open, mode, step, csvText, mapping, results, importing,
                exports, reported>>

-----------------------------------------------------------------------------
NoImport == [at |-> "none"]
NoReport == <<>>
NoText == [from |-> "nothing", rows |-> <<>>]

Result == [row : TextRow, status : {"imported", "excluded"}]

ImportTypeOK ==
    /\ stored \subseteq GroupNames
    /\ open \in BOOLEAN
    /\ mode \in {"import", "export"} /\ step \in 1..3
    /\ csvText.from \in {"nothing", "user", "export", "late"} /\ csvText.rows \in Seq(TextRow)
    /\ mapping \in {"none", "full"}
    /\ results \in Seq(Result)
    /\ importing = NoImport \/
         /\ importing.at \in {"lists", "server", "answer", "refresh"}
         /\ importing.rows \in Seq(TextRow) /\ importing.done \in Seq({"created", "rejected"})
    /\ exports \in Seq(SUBSET GroupNames)

ImportInit ==
    /\ stored = {} /\ open = FALSE /\ mode = "import" /\ step = 1
    /\ csvText = NoText /\ mapping = "none" /\ results = NoReport
    /\ importing = NoImport /\ exports = <<>>
    /\ reported = NoImport

calls == <<stored, importing, exports>>
report == <<results, reported>>

NoReportShown == results' = NoReport /\ reported' = NoImport
Reset == step' = 1 /\ csvText' = NoText /\ mapping' = "none" /\ NoReportShown

-----------------------------------------------------------------------------
(* The dialog.                                                             *)

OpenDialog ==
    /\ ~open /\ open' = TRUE
    /\ UNCHANGED <<calls, mode, step, csvText, mapping, report>>

\* Whatever is under way goes on.
CloseDialog ==
    /\ open /\ open' = FALSE
    /\ Reset
    /\ UNCHANGED <<calls, mode>>

\* Mutant of SwitchToImport: the text stays.
SwitchKeepingText ==
    /\ open /\ mode' = "import" /\ step' = 1 /\ NoReportShown
    /\ UNCHANGED <<calls, open, csvText, mapping>>

SwitchToImport ==
    /\ open /\ mode' = "import"
    /\ Reset
    /\ UNCHANGED <<calls, open>>

\* The mode changes and the server is asked.
SwitchToExport ==
    /\ open /\ Len(exports) < MaxExports
    /\ mode' = "export"
    /\ exports' = Append(exports, stored)
    /\ UNCHANGED <<stored, importing, reported, open, step, csvText, mapping, results>>

\* A file, the sample, or a text typed in.
ChooseText(rows) ==
    /\ open /\ mode = "import" /\ step = 1
    /\ csvText' = [from |-> "user", rows |-> rows]
    /\ UNCHANGED <<calls, open, mode, step, mapping, report>>

\* There is a row besides the heading.
NextStep ==
    /\ open /\ mode = "import" /\ step = 1 /\ csvText.rows # <<>>
    /\ step' = 2
    /\ UNCHANGED <<calls, open, mode, csvText, mapping, report>>

MapColumns ==
    /\ open /\ mode = "import" /\ step = 2
    /\ mapping' = "full"
    /\ UNCHANGED <<calls, open, mode, step, csvText, report>>

ImportAnother ==
    /\ open /\ mode = "import" /\ step = 3
    /\ Reset
    /\ UNCHANGED <<calls, open, mode>>

\* The text, as it was when the exports were asked for, replaces what is there.
ExportAnswered(i) ==
    /\ i \in DOMAIN exports
    /\ csvText' = [from |-> IF mode = "export" THEN "export" ELSE "late",
                   rows |-> [k \in DOMAIN SetToSeq(exports[i]) |->
                                [name |-> SetToSeq(exports[i])[k], known |-> TRUE]]]
    /\ exports' = RemoveAt(exports, i)
    /\ UNCHANGED <<stored, importing, reported, open, mode, step, mapping, results>>

ExportFails(i) ==
    /\ i \in DOMAIN exports
    /\ exports' = RemoveAt(exports, i)
    /\ UNCHANGED <<stored, importing, reported, open, mode, step, csvText, mapping, results>>

-----------------------------------------------------------------------------
(* processImport and importGroups.                                         *)

\* The rows and the mapping are those of the click.
ProcessImport ==
    /\ open /\ mode = "import" /\ step = 2 /\ importing = NoImport
    /\ importing' = [at |-> "lists", rows |-> csvText.rows, mapped |-> mapping = "full",
                     from |-> csvText.from, done |-> <<>>]
    /\ UNCHANGED <<stored, exports, reported, open, mode, step, csvText, mapping, results>>

CanBeSent(job) == {row \in TextRow : job.mapped /\ row.name # NoName /\ row.known}
Importable(job) == Filter(job.rows, CanBeSent(job))
Excluded(job) == Filter(job.rows, TextRow \ CanBeSent(job))

\* The Types and Categories are there; without a row to send there is no call.
ListsAnswered ==
    /\ importing.at = "lists"
    /\ importing' = [importing EXCEPT !.at = IF Importable(importing) = <<>> THEN "answer" ELSE "server"]
    /\ UNCHANGED <<stored, exports, reported, open, mode, step, csvText, mapping, results>>

\* importGroups: one row after another, as create takes or refuses it.
ImportRow(taken) ==
    LET name == Importable(importing)[Len(importing.done) + 1].name IN
    /\ importing.at = "server" /\ Len(importing.done) < Len(Importable(importing))
    /\ taken => name \notin stored
    /\ stored' = IF taken THEN stored \cup {name} ELSE stored
    /\ importing' = [importing EXCEPT !.done = Append(@, IF taken THEN "created" ELSE "rejected")]
    /\ UNCHANGED <<exports, reported, open, mode, step, csvText, mapping, results>>

ServerDone ==
    /\ importing.at = "server" /\ Len(importing.done) = Len(Importable(importing))
    /\ importing' = [importing EXCEPT !.at = "answer"]
    /\ UNCHANGED <<stored, exports, reported, open, mode, step, csvText, mapping, results>>

Status(answer) == IF answer = "created" THEN "imported" ELSE "excluded"

\* Mutant of FromApi: answers are matched with all the rows of the text.
FromApiByLine(job) ==
    [k \in DOMAIN job.done |-> [row |-> job.rows[k], status |-> Status(job.done[k])]]

\* The k-th answer is about the k-th row that was sent.
FromApi(job) ==
    [k \in DOMAIN job.done |-> [row |-> Importable(job)[k], status |-> Status(job.done[k])]]

\* What was not sent comes first.
ReportOf(job) ==
    [k \in DOMAIN Excluded(job) |-> [row |-> Excluded(job)[k], status |-> "excluded"]]
        \o FromApi(job)

\* The report is shown, in step 3, wherever the dialog is; the list reloads.
ImportAnswered ==
    /\ importing.at = "answer"
    /\ results' = ReportOf(importing)
    /\ step' = 3
    /\ importing' = [importing EXCEPT !.at = "refresh"]
    /\ reported' = importing
    /\ UNCHANGED <<stored, exports, open, mode, csvText, mapping>>

ImportEnds ==
    /\ importing.at = "refresh"
    /\ importing' = NoImport
    /\ UNCHANGED <<stored, exports, reported, open, mode, step, csvText, mapping, results>>

\* A call fails; what the server has created stays.
ImportFails ==
    /\ importing.at \in {"lists", "server", "answer"}
    /\ importing' = NoImport
    /\ UNCHANGED <<stored, exports, reported, open, mode, step, csvText, mapping, results>>

\* Another user removes a Group.
RemoveStored(name) ==
    /\ name \in stored
    /\ stored' = stored \ {name}
    /\ UNCHANGED <<importing, exports, reported, open, mode, step, csvText, mapping, results>>

ImportNext ==
    \/ OpenDialog \/ CloseDialog \/ SwitchToImport \/ SwitchToExport
    \/ NextStep \/ MapColumns \/ ImportAnother
    \/ \E rows \in Texts : ChooseText(rows)
    \/ \E i \in 1..MaxExports : ExportAnswered(i) \/ ExportFails(i)
    \/ ProcessImport \/ ListsAnswered \/ ServerDone \/ ImportAnswered \/ ImportEnds \/ ImportFails
    \/ \E taken \in BOOLEAN : ImportRow(taken)
    \/ \E name \in GroupNames : RemoveStored(name)

ImportSpec == ImportInit /\ [][ImportNext]_dialogVars

-----------------------------------------------------------------------------
(* Properties.                                                             *)

Occurrences(s, e) == Cardinality({k \in DOMAIN s : s[k] = e})

\* FR-011: the report has every row of the text that was imported as often as
\* the text has it, and calls as many of them imported as Groups were created
\* from it.
ReportIsOfText ==
    results # NoReport =>
        /\ \A row \in ToSet(reported.rows) :
              Occurrences([k \in DOMAIN results |-> results[k].row], row)
                = Occurrences(reported.rows, row)
        /\ Len(results) = Len(reported.rows)
        /\ \A k \in DOMAIN Importable(reported) :
              reported.done[k] = "created" =>
                  \E j \in DOMAIN results : results[j] = [row |-> Importable(reported)[k], status |-> "imported"]
        /\ \A j \in DOMAIN results : results[j].status = "imported" => results[j].row.known

\* SwitchToImport: what is imported is a text that the user chose, never one
\* that was exported, unless that export was answered after the dialog had
\* gone back to imports.
ImportedIsChosen == importing # NoImport => importing.from \in {"user", "late"}

\* Whatever is closed, opened and switched while answers are under way, what is
\* imported is a text of the user's, and what is reported is what became of it.
DialogKeepsToItsText == ImportedIsChosen /\ ReportIsOfText
=============================================================================
