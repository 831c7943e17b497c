------------------------------ MODULE UomGroups ------------------------------
(***************************************************************************)
(* A UOM Group (a unit-of-measure set): its Base Type, Role Assignments    *)
(* and Conversion Factors, the history of the factors that the conversion  *)
(* service reads, and the Types it refers to (GroupsService, TypesService, *)
(* ConversionService).                                                     *)
(*                                                                         *)
(* A save first reads and validates, and then writes in one transaction    *)
(* that the update of the Group's own row serialises with other saves.     *)
(* Between the two, other calls run: a call in progress occupies a request *)
(* slot that remembers what it read.  Names, categories and the Picking    *)
(* Hierarchy take no part in what is stated here and are left out.         *)
(***************************************************************************)
EXTENDS Naturals

CONSTANTS
    Types,         \* rows of UOMType
    Roles,         \* rows of UOMFunctionalRole
    Rates,         \* units per base
    None,          \* NULL: no factor, no assignment, no end date
    NotSent,       \* a field left out of a PATCH
    GroupWrites,   \* the request bodies that clients send
    Requests,      \* slots for calls in progress
    MaxDay         \* bound on the date

Days == 0..MaxDay

Assignments == [Roles -> Types \cup {None}]
FactorSets == [Types -> Rates \cup {None}]

\* CreateGroupDto and UpdateGroupDto.  A list that assigns a role or gives a
\* Type's factor twice is rejected before anything is read or written
\* (assertRoleAssignmentUniqueness, assertConversionFactorUniqueness), so a
\* list is a function.
GroupWrite ==
    [base : Types \cup {NotSent}, roles : Assignments \cup {NotSent},
     factors : FactorSets \cup {NotSent}]

ASSUME UomAssumption ==
    /\ MaxDay \in Nat
    /\ None \notin Rates /\ None \notin Types /\ None \notin Days
    /\ NotSent \notin Types /\ NotSent \notin Assignments /\ NotSent \notin FactorSets
    /\ GroupWrites \subseteq GroupWrite

VARIABLES
    day,       \* the date
    stage,     \* the Group: "absent", "live" or (soft) "deleted"
    base,      \* its Base Type
    roles,     \* roles[r]: the Type assigned to role r
    factors,   \* factors[t]: the Conversion Factor of t
    history,   \* history[t]: the rows of UOMTypeFactorHistory for t
    gone,      \* the soft-deleted Types
    req,       \* req[s]: the call in progress in slot s, or Idle
    past,      \* past[d]: the factors when day d ended
    serial     \* so far no two calls overlapped; these two for the properties only

group == <<stage, base, roles, factors, history>>
uomVars == <<day, stage, base, roles, factors, history, gone, req, past, serial>>

-----------------------------------------------------------------------------
Row == [rate : Rates, from : Days, to : Days \cup {None}]

Idle == [op |-> "idle"]

\* The body of a create has every field.
IsWhole(dto) == dto.base # NotSent /\ dto.roles # NotSent /\ dto.factors # NotSent

\* `prior` is the Conversion Factors that update() read.
Call ==
    [op : {"create"}, dto : {dto \in GroupWrites : IsWhole(dto)}]
        \cup [op : {"update"}, dto : GroupWrites, prior : FactorSets]
        \cup [op : {"removeType"}, type : Types]
        \cup [op : {"removeGroup"}]

UomTypeOK ==
    /\ day \in Days
    /\ stage \in {"absent", "live", "deleted"}
    /\ base \in Types \cup {None}
    /\ stage = "live" => base # None
    /\ roles \in Assignments
    /\ factors \in FactorSets
    /\ history \in [Types -> SUBSET Row]
    /\ gone \subseteq Types
    /\ req \in [Requests -> Call \cup {Idle}]
    /\ past \in [Days -> FactorSets]
    /\ serial \in BOOLEAN

NoFactors == [t \in Types |-> None]

UomInit ==
    /\ day = 0
    /\ stage = "absent"
    /\ base = None
    /\ roles = [r \in Roles |-> None]
    /\ factors = NoFactors
    /\ history = [t \in Types |-> {}]
    /\ gone = {}
    /\ req = [s \in Requests |-> Idle]
    /\ past = [d \in Days |-> NoFactors]
    /\ serial = TRUE

Begin(s, call) == req[s] = Idle /\ req' = [req EXCEPT ![s] = call]

Finish(s) == req' = [req EXCEPT ![s] = Idle]

-----------------------------------------------------------------------------
(* Validation.                                                             *)

Sent(field, current) == IF field = NotSent THEN current ELSE field

\* The Types a request body names.
Named(dto) ==
    {t \in Types :
        \/ t = dto.base
        \/ dto.roles # NotSent /\ \E r \in Roles : t = dto.roles[r]
        \/ dto.factors # NotSent /\ dto.factors[t] # None}

\* resolveTypeId: a soft-deleted Type does not resolve.
Resolves(dto) == Named(dto) \cap gone = {}

\* assertCompleteness.
Complete(b, rs, fs) ==
    \A r \in Roles : rs[r] \notin {None, b} => fs[rs[r]] # None

-----------------------------------------------------------------------------
(* The history of a factor.                                                *)

OpenRows(t) == {row \in history[t] : row.to = None}

OpenRow(rate) == [rate |-> rate, from |-> day, to |-> None]

\* Mutant of Closed: every row of the pair is given the new end date.
ClosedAll(t) == {[row EXCEPT !.to = day] : row \in history[t]}

\* Mutant of Closed: the open row is replaced, not closed.
ClosedByDeletion(t) == {row \in history[t] : row.to # None}

\* updateMany({ effectiveTo: null }, { effectiveTo: today }).
Closed(t) ==
    {row \in history[t] : row.to # None}
        \cup {[row EXCEPT !.to = day] : row \in OpenRows(t)}

\* The rows a lookup of t as of day d can return: findFirst among the rows
\* in effect, latest effectiveFrom first, which leaves ties undecided.
InEffect(t, d) ==
    {row \in history[t] : row.from <= d /\ (row.to = None \/ d <= row.to)}

RateAsOf(t, d) ==
    {row.rate : row \in {r \in InEffect(t, d) : \A q \in InEffect(t, d) : q.from <= r.from}}

-----------------------------------------------------------------------------
(* POST /uom/groups                                                        *)

CreateCheck(s, dto) ==
    /\ stage = "absent"
    /\ IsWhole(dto)
    /\ Resolves(dto)
    /\ Complete(dto.base, dto.roles, dto.factors)
    /\ Begin(s, [op |-> "create", dto |-> dto])
    /\ UNCHANGED <<day, group, gone, past>>

\* There is one Group here: a second create would make another one.
CreateSave(s) ==
    /\ req[s].op = "create"
    /\ stage = "absent"
    /\ stage' = "live"
    /\ base' = req[s].dto.base
    /\ roles' = req[s].dto.roles
    /\ factors' = req[s].dto.factors
    /\ history' = [t \in Types |->
          IF factors'[t] = None THEN {} ELSE {OpenRow(factors'[t])}]
    /\ Finish(s)
    /\ UNCHANGED <<day, gone, past>>

-----------------------------------------------------------------------------
(* PATCH /uom/groups/:id                                                   *)

\* Mutant of UpdateCheck: completeness is checked only when roles are sent.
UpdateCheckOfRoles(s, dto) ==
    /\ stage = "live"
    /\ Resolves(dto)
    /\ dto.roles # NotSent =>
          Complete(Sent(dto.base, base), dto.roles, Sent(dto.factors, factors))
    /\ Begin(s, [op |-> "update", dto |-> dto, prior |-> factors])
    /\ UNCHANGED <<day, group, gone, past>>

\* Everything up to the transaction: read the Group, resolve what was sent,
\* check the Group that would result.  isGroupLocked is always false: no
\* module with transactions exists yet.
UpdateCheck(s, dto) ==
    /\ stage = "live"
    /\ Resolves(dto)
    /\ Complete(Sent(dto.base, base), Sent(dto.roles, roles), Sent(dto.factors, factors))
    /\ Begin(s, [op |-> "update", dto |-> dto, prior |-> factors])
    /\ UNCHANGED <<day, group, gone, past>>

\* How the transaction treats a Type: it compares what was sent with what
\* was read, not with what is there now.
Removed(c, t) == c.prior[t] # None /\ c.dto.factors[t] = None
Added(c, t) == c.prior[t] = None /\ c.dto.factors[t] # None
Changed(c, t) ==
    c.prior[t] # None /\ c.dto.factors[t] # None /\ c.dto.factors[t] # c.prior[t]

\* What the database accepts: a new factor only if the pair has neither a
\* factor (@@unique) nor an open history row (the partial unique index), and
\* an update of a row that is there.  A row is updated by its id, but a
\* factor that was deleted is never inserted again, so the Type stands for it.
Accepted(c) ==
    c.dto.factors # NotSent =>
        \A t \in Types :
            /\ Added(c, t) => factors[t] = None /\ OpenRows(t) = {}
            /\ Changed(c, t) => factors[t] # None

FactorsAfter(c) ==
    [t \in Types |-> IF Removed(c, t) \/ Added(c, t) \/ Changed(c, t)
                     THEN c.dto.factors[t] ELSE factors[t]]

\* Mutant of HistoryAfter: a changed rate is not versioned.
HistoryOfAdditions(c) ==
    [t \in Types |->
        IF Added(c, t) THEN history[t] \cup {OpenRow(c.dto.factors[t])} ELSE history[t]]

HistoryAfter(c) ==
    [t \in Types |->
        CASE Added(c, t) -> history[t] \cup {OpenRow(c.dto.factors[t])}
          [] Changed(c, t) -> Closed(t) \cup {OpenRow(c.dto.factors[t])}
          [] OTHER -> history[t]]

\* Mutant of UpdateSave: a Base Type that the PATCH leaves out is written as NULL.
UpdateSaveClearing(s) ==
    LET c == req[s] IN
    /\ c.op = "update"
    /\ Accepted(c)
    /\ base' = Sent(c.dto.base, None)
    /\ roles' = Sent(c.dto.roles, roles)
    /\ factors' = IF c.dto.factors = NotSent THEN factors ELSE FactorsAfter(c)
    /\ history' = IF c.dto.factors = NotSent THEN history ELSE HistoryAfter(c)
    /\ Finish(s)
    /\ UNCHANGED <<day, stage, gone, past>>

\* The transaction; the deletion of the Group does not stop it.
UpdateSave(s) ==
    LET c == req[s] IN
    /\ c.op = "update"
    /\ Accepted(c)
    /\ base' = Sent(c.dto.base, base)
    /\ roles' = Sent(c.dto.roles, roles)
    /\ factors' = IF c.dto.factors = NotSent THEN factors ELSE FactorsAfter(c)
    /\ history' = IF c.dto.factors = NotSent THEN history ELSE HistoryAfter(c)
    /\ Finish(s)
    /\ UNCHANGED <<day, stage, gone, past>>

-----------------------------------------------------------------------------
(* DELETE /uom/groups/:id                                                  *)

RemoveGroupFind(s) ==
    /\ stage = "live"
    /\ Begin(s, [op |-> "removeGroup"])
    /\ UNCHANGED <<day, group, gone, past>>

RemoveGroupSave(s) ==
    /\ req[s].op = "removeGroup"
    /\ stage' = "deleted"
    /\ Finish(s)
    /\ UNCHANGED <<day, base, roles, factors, history, gone, past>>

(* DELETE /uom/types/:id                                                   *)

\* The in-use counts.  Role assignments and factors of a deleted Group count.
InUse(t) ==
    \/ stage = "live" /\ base = t
    \/ \E r \in Roles : roles[r] = t
    \/ factors[t] # None

\* Mutant of RemoveTypeCheck: only role assignments are counted.
RemoveTypeUncounted(s, t) ==
    /\ t \notin gone
    /\ \A r \in Roles : roles[r] # t
    /\ Begin(s, [op |-> "removeType", type |-> t])
    /\ UNCHANGED <<day, group, gone, past>>

RemoveTypeCheck(s, t) ==
    /\ t \notin gone
    /\ ~InUse(t)
    /\ Begin(s, [op |-> "removeType", type |-> t])
    /\ UNCHANGED <<day, group, gone, past>>

RemoveTypeSave(s) ==
    /\ req[s].op = "removeType"
    /\ gone' = gone \cup {req[s].type}
    /\ Finish(s)
    /\ UNCHANGED <<day, group, past>>

\* A rejected transaction rolls back; an error or a restart ends a call.
Abort(s) ==
    /\ req[s] # Idle
    /\ Finish(s)
    /\ UNCHANGED <<day, group, gone, past>>

NextDay ==
    /\ day < MaxDay
    /\ day' = day + 1
    /\ past' = [past EXCEPT ![day] = factors]
    /\ UNCHANGED <<group, gone, req>>

-----------------------------------------------------------------------------
GroupStep(s) ==
    \/ \E dto \in GroupWrites : CreateCheck(s, dto) \/ UpdateCheck(s, dto)
    \/ CreateSave(s)
    \/ UpdateSave(s)
    \/ RemoveGroupFind(s)
    \/ RemoveGroupSave(s)

TypeStep(s) ==
    \/ \E t \in Types : RemoveTypeCheck(s, t)
    \/ RemoveTypeSave(s)

UomStep ==
    \/ \E s \in Requests : GroupStep(s) \/ TypeStep(s) \/ Abort(s)
    \/ NextDay

OneCall == \A s, t \in Requests : req[s] # Idle /\ req[t] # Idle => s = t

UomNext == UomStep /\ serial' = (serial /\ OneCall')

UomSpec == UomInit /\ [][UomNext]_uomVars

-----------------------------------------------------------------------------
(* What holds of every interleaving.                                       *)

\* BR-009: however saves that read the same factors overlap, the factor a
\* Type has now is also the one its history says it has from now on, and the
\* history says so only once.
CurrentRateIsOpenRow ==
    \A t \in Types : factors[t] # None =>
        \E row \in Row : row.rate = factors[t] /\ OpenRows(t) = {row}

\* The rows of a Type's history are a timeline: of any two, one ends no later
\* than the other begins.
Precedes(q, row) == q.to # None /\ q.to <= row.from

HistoryIsTimeline ==
    \A t \in Types : \A q, row \in history[t] :
        q # row => Precedes(q, row) \/ Precedes(row, q)

\* BR-009: the rate that was in force when a past day ended is never lost: a
\* lookup as of that day can still return it.
PastRateIsKept ==
    \A d \in Days, t \in Types :
        d < day /\ past[d][t] # None => past[d][t] \in RateAsOf(t, d)

\* BR-009: although a save computes its changes from a stale read, factors and
\* their history agree: the one open row has the factor there is, the rows form
\* a timeline, and the rates of past days are found in it.
HistoryIsSound == CurrentRateIsOpenRow /\ HistoryIsTimeline /\ PastRateIsKept

-----------------------------------------------------------------------------
(* What holds when calls do not overlap, and not otherwise.                *)

\* BR-019: every role-assigned Type other than the Base Type has a factor.
GroupComplete == stage = "live" => Complete(base, roles, factors)

\* BR-014: a Type that the Group refers to is not deleted.
NoDeletedTypeInUse ==
    \A t \in gone : ~InUse(t)

\* assertCompleteness, and remove of a Type: as long as calls do not overlap, a
\* Group that is saved has a factor for every Type in use (BR-019), and no Type
\* that a live Group uses is removed.
SerialGroupIsUsable == serial => GroupComplete /\ NoDeletedTypeInUse

-----------------------------------------------------------------------------
(* What the documents say and the code does not do.                        *)

\* Nothing but a change in between keeps a save from being accepted: what
\* was validated against the factors that are still there can be written.
ValidatedSaveIsAccepted ==
    \A s \in Requests :
        (req[s].op = "update" /\ req[s].prior = factors) => Accepted(req[s])
=============================================================================
