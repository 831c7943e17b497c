----------------------------- MODULE GroupProofs -----------------------------
(***************************************************************************)
(* The UOM Groups of the service, for every set of Types, Groups, rates,   *)
(* request bodies and overlapping calls, and the screens for users, roles  *)
(* and user groups, for any rows and timers.                               *)
(*   1. The factor history: types, the agreement of factors and history,   *)
(*      the timeline, and the survival of past rates.  Seen from one Type, *)
(*      every call leaves its history alone or closes what is open and     *)
(*      opens one entry (TypeEffect); the argument is about that step, not *)
(*      about the calls.                                                   *)
(*   2. The checks of a call that runs alone: what it found when it checked*)
(*      still holds when it saves.                                         *)
(*   3. The screens: which rows they show, and what the rows copy from     *)
(*      each other.                                                        *)
(*   4. Both together, in the instance that is checked.                    *)
(***************************************************************************)
EXTENDS MCUomGroups, FiniteSetTheorems, SequenceTheorems, TLAPS

\* Rows begin and end in the past, and end no earlier than they begin.
RowsArePast(t) ==
    \A entry \in history[t] :
        entry.from <= day /\ (entry.to # None => entry.from <= entry.to /\ entry.to <= day)

OneOpenRow(t) == \A q, entry \in OpenRows(t) : q = entry

FactorIsOpen(t) ==
    factors[t] # None => \E entry \in OpenRows(t) : entry.rate = factors[t]

Timeline(t) ==
    \A q, entry \in history[t] : q # entry => Precedes(q, entry) \/ Precedes(entry, q)

\* What a later close cannot take away: an entry that outlives the day.
PastIsCovered(t) ==
    \A d \in Days : d < day /\ past[d][t] # None =>
        \E entry \in history[t] :
            /\ entry.rate = past[d][t]
            /\ entry.from <= d
            /\ entry.to # None => d < entry.to

\* Before the Group exists there is no entry to lose.
NothingYet(t) ==
    stage = "absent" =>
        /\ factors[t] = None
        /\ history[t] = {}
        /\ \A d \in Days : past[d][t] = None

TypeInv(t) ==
    /\ RowsArePast(t)
    /\ OneOpenRow(t)
    /\ FactorIsOpen(t)
    /\ Timeline(t)
    /\ PastIsCovered(t)
    /\ NothingYet(t)

\* Only a Group that exists is updated.
UpdatesFollowCreate ==
    \A s \in Requests : req[s].op = "update" => stage # "absent"

UomInv == UomTypeOK /\ UpdatesFollowCreate /\ \A t \in Types : TypeInv(t)

\* The effect of a call on one Type.
Kept(t) == history'[t] = history[t] /\ factors'[t] \in {factors[t], None}
Versioned(t) ==
    \E rate \in Rates :
        factors'[t] = rate /\ history'[t] = Closed(t) \cup {OpenRow(rate)}

TypeEffect(t) == Kept(t) \/ Versioned(t)

-----------------------------------------------------------------------------
(* Types.                                                                  *)

LEMMA RowFacts ==
  ASSUME NEW rate \in Rates, day \in Days
  PROVE  /\ OpenRow(rate) \in Row
         /\ OpenRow(rate).rate = rate
         /\ OpenRow(rate).from = day
         /\ OpenRow(rate).to = None
BY DEF OpenRow, Row

LEMMA ClosedRow ==
  ASSUME NEW entry \in Row, day \in Days
  PROVE  /\ [entry EXCEPT !.to = day] \in Row
         /\ [entry EXCEPT !.to = day].rate = entry.rate
         /\ [entry EXCEPT !.to = day].from = entry.from
         /\ [entry EXCEPT !.to = day].to = day
BY DEF Row

LEMMA ClosedType ==
  ASSUME UomTypeOK, NEW t \in Types
  PROVE  Closed(t) \subseteq Row
<1>1. history[t] \subseteq Row /\ day \in Days
  BY DEF UomTypeOK
<1>2. \A entry \in OpenRows(t) : [entry EXCEPT !.to = day] \in Row
  BY <1>1, ClosedRow DEF OpenRows
<1>3. QED
  BY <1>1, <1>2 DEF Closed

LEMMA CallFields ==
  ASSUME NEW c \in Call \cup {Idle}
  PROVE  /\ c.op = "create" => c.dto \in GroupWrite /\ IsWhole(c.dto)
         /\ c.op = "update" => c.dto \in GroupWrite /\ c.prior \in FactorSets
         /\ c.op = "removeType" => c.type \in Types
<1>1. CASE c = Idle
  BY <1>1 DEF Idle
<1>2. CASE c \in Call
  BY <1>2, UomAssumption DEF Call
<1>3. QED
  BY <1>1, <1>2

LEMMA DtoFields ==
  ASSUME NEW dto \in GroupWrite
  PROVE  /\ dto.base # NotSent => dto.base \in Types
         /\ dto.roles # NotSent => dto.roles \in Assignments
         /\ dto.factors # NotSent => dto.factors \in FactorSets
BY DEF GroupWrite

\* A save versions the factors it adds or changes, and keeps the others.
LEMMA EffectOfUpdate ==
  ASSUME UomTypeOK, NEW s \in Requests, UpdateSave(s)
  PROVE  /\ factors' \in FactorSets
         /\ history' \in [Types -> SUBSET Row]
         /\ \A t \in Types : TypeEffect(t)
<1> DEFINE c == req[s]
<1>1. c.dto \in GroupWrite /\ c.prior \in FactorSets /\ day \in Days
  BY CallFields DEF UpdateSave, UomTypeOK
<1>2. CASE c.dto.factors = NotSent
  BY <1>2 DEF UpdateSave, UomTypeOK, TypeEffect, Kept
<1>3. CASE c.dto.factors # NotSent
  <2>1. c.dto.factors \in FactorSets
    BY <1>1, <1>3, DtoFields
  <2>2. /\ \A t \in Types : c.dto.factors[t] \in Rates \cup {None}
        /\ \A t \in Types : c.prior[t] \in Rates \cup {None}
        /\ \A t \in Types : factors[t] \in Rates \cup {None}
    BY <1>1, <2>1 DEF FactorSets, UomTypeOK
  <2>3. factors' = FactorsAfter(c) /\ history' = HistoryAfter(c) /\ Accepted(c)
    BY <1>3 DEF UpdateSave
  <2>4. factors' \in FactorSets
    BY <2>2, <2>3 DEF FactorsAfter, FactorSets
  <2>5. \A t \in Types : TypeEffect(t) /\ history'[t] \subseteq Row
    <3> SUFFICES ASSUME NEW t \in Types
                 PROVE  TypeEffect(t) /\ history'[t] \subseteq Row
      OBVIOUS
    <3>1. history[t] \subseteq Row
      BY DEF UomTypeOK
    <3>2. CASE Added(c, t)
      <4>1. c.dto.factors[t] \in Rates /\ ~Changed(c, t)
        BY <2>2, <3>2 DEF Added, Changed
      <4>2. OpenRows(t) = {}
        BY <1>3, <2>3, <3>2 DEF Accepted
      <4>3. Closed(t) = history[t]
        BY <4>2 DEF Closed, OpenRows
      <4>4. /\ factors'[t] = c.dto.factors[t]
            /\ history'[t] = history[t] \cup {OpenRow(c.dto.factors[t])}
        BY <2>3, <3>2, <4>1 DEF FactorsAfter, HistoryAfter
      <4>5. history'[t] \subseteq Row
        BY <1>1, <3>1, <4>1, <4>4, RowFacts
      <4>6. QED
        BY <4>1, <4>3, <4>4, <4>5 DEF TypeEffect, Versioned
    <3>3. CASE Changed(c, t)
      <4>1. c.dto.factors[t] \in Rates /\ ~Added(c, t)
        BY <2>2, <3>3 DEF Changed, Added
      <4>2. /\ factors'[t] = c.dto.factors[t]
            /\ history'[t] = Closed(t) \cup {OpenRow(c.dto.factors[t])}
        BY <2>3, <3>3, <4>1 DEF FactorsAfter, HistoryAfter
      <4>3. history'[t] \subseteq Row
        BY <1>1, <4>1, <4>2, RowFacts, ClosedType
      <4>4. QED
        BY <4>1, <4>2, <4>3 DEF TypeEffect, Versioned
    <3>4. CASE ~Added(c, t) /\ ~Changed(c, t)
      <4>1. history'[t] = history[t]
        BY <2>3, <3>4 DEF HistoryAfter
      <4>2. factors'[t] \in {factors[t], None}
        BY <2>3, <3>4 DEF FactorsAfter, Removed
      <4>3. QED
        BY <3>1, <4>1, <4>2 DEF TypeEffect, Kept
    <3>5. QED
      BY <3>2, <3>3, <3>4
  <2>6. history' \in [Types -> SUBSET Row]
    BY <2>3, <2>5 DEF HistoryAfter
  <2>7. QED
    BY <2>4, <2>5, <2>6
<1>4. QED
  BY <1>2, <1>3

LEMMA EffectOfCreate ==
  ASSUME UomInv, NEW s \in Requests, CreateSave(s)
  PROVE  /\ factors' \in FactorSets
         /\ history' \in [Types -> SUBSET Row]
         /\ \A t \in Types : TypeEffect(t)
<1>1. req[s].dto \in GroupWrite /\ IsWhole(req[s].dto) /\ day \in Days
  BY CallFields DEF CreateSave, UomTypeOK, UomInv
<1>2. factors' \in FactorSets
  BY <1>1, DtoFields DEF CreateSave, IsWhole
<1>3. \A t \in Types : TypeEffect(t) /\ history'[t] \subseteq Row
  <2> SUFFICES ASSUME NEW t \in Types
               PROVE  TypeEffect(t) /\ history'[t] \subseteq Row
    OBVIOUS
  <2>1. factors[t] = None /\ history[t] = {}
    BY DEF CreateSave, UomInv, TypeInv, NothingYet
  <2>2. factors'[t] \in Rates \cup {None}
    BY <1>2 DEF FactorSets
  <2>3. history'[t] = IF factors'[t] = None THEN {} ELSE {OpenRow(factors'[t])}
    BY DEF CreateSave
  <2>4. CASE factors'[t] = None
    BY <2>1, <2>3, <2>4 DEF TypeEffect, Kept
  <2>5. CASE factors'[t] # None
    <3>1. Closed(t) = {}
      BY <2>1 DEF Closed, OpenRows
    <3>2. QED
      BY <1>1, <2>2, <2>3, <2>5, <3>1, RowFacts DEF TypeEffect, Versioned
  <2>6. QED
    BY <2>4, <2>5
<1>4. history' \in [Types -> SUBSET Row]
  BY <1>3 DEF CreateSave
<1>5. QED
  BY <1>2, <1>3, <1>4

LEMMA NextType ==
  ASSUME UomInv, UomStep, serial' \in BOOLEAN
  PROVE  UomTypeOK'
<1> USE DEF UomInv
<1>1. ASSUME NEW s \in Requests, NEW c \in Call \cup {Idle}, req' = [req EXCEPT ![s] = c]
      PROVE  req' \in [Requests -> Call \cup {Idle}]
  BY <1>1 DEF UomTypeOK
<1>2. ASSUME NEW s \in Requests, NEW dto \in GroupWrites, CreateCheck(s, dto)
      PROVE  UomTypeOK'
  BY <1>1, <1>2 DEF CreateCheck, Begin, Call, UomTypeOK, group
<1>3. ASSUME NEW s \in Requests, NEW dto \in GroupWrites, UpdateCheck(s, dto)
      PROVE  UomTypeOK'
  BY <1>1, <1>3 DEF UpdateCheck, Begin, Call, UomTypeOK, group
<1>4. ASSUME NEW s \in Requests, CreateSave(s)
      PROVE  UomTypeOK'
  <2>1. factors' \in FactorSets /\ history' \in [Types -> SUBSET Row]
    BY <1>4, EffectOfCreate
  <2>2. base' \in Types /\ roles' \in Assignments
    BY <1>4, CallFields, DtoFields DEF CreateSave, UomTypeOK, IsWhole
  <2>3. QED
    BY <1>1, <1>4, <2>1, <2>2, UomAssumption DEF CreateSave, Finish, UomTypeOK
<1>5. ASSUME NEW s \in Requests, UpdateSave(s)
      PROVE  UomTypeOK'
  <2>1. factors' \in FactorSets /\ history' \in [Types -> SUBSET Row]
    BY <1>5, EffectOfUpdate
  <2>2. base' \in Types \cup {None} /\ roles' \in Assignments
    BY <1>5, CallFields, DtoFields DEF UpdateSave, Sent, UomTypeOK
  <2>3. stage' = "live" => base' # None
    BY <1>5, CallFields, DtoFields, UomAssumption DEF UpdateSave, Sent, UomTypeOK
  <2>4. QED
    BY <1>1, <1>5, <2>1, <2>2, <2>3 DEF UpdateSave, Finish, UomTypeOK
<1>6. ASSUME NEW s \in Requests, RemoveGroupFind(s) \/ RemoveGroupSave(s) \/ Abort(s)
      PROVE  UomTypeOK'
  BY <1>1, <1>6
  DEF RemoveGroupFind, RemoveGroupSave, Abort, Begin, Finish, Call, UomTypeOK, group
<1>7. ASSUME NEW s \in Requests, NEW t \in Types, RemoveTypeCheck(s, t)
      PROVE  UomTypeOK'
  BY <1>1, <1>7 DEF RemoveTypeCheck, Begin, Call, UomTypeOK, group
<1>8. ASSUME NEW s \in Requests, RemoveTypeSave(s)
      PROVE  UomTypeOK'
  BY <1>1, <1>8, CallFields DEF RemoveTypeSave, Finish, UomTypeOK, group
<1>9. CASE NextDay
  BY <1>9, UomAssumption DEF NextDay, UomTypeOK, Days, group
<1>10. QED
  BY <1>2, <1>3, <1>4, <1>5, <1>6, <1>7, <1>8, <1>9 DEF UomStep, GroupStep, TypeStep

LEMMA NextUpdates ==
  ASSUME UomInv, UomStep
  PROVE  UpdatesFollowCreate'
<1> USE DEF UomInv
<1>1. stage' = "absent" => stage = "absent"
  BY DEF UomStep, GroupStep, TypeStep, CreateCheck, CreateSave, UpdateCheck, UpdateSave,
         RemoveGroupFind, RemoveGroupSave, RemoveTypeCheck, RemoveTypeSave, Abort, NextDay, group
<1>2. ASSUME NEW r \in Requests, req'[r].op = "update"
      PROVE  req[r].op = "update" \/ stage # "absent"
  <2>1. CASE req' = req
    BY <1>2, <2>1
  <2>2. ASSUME NEW s \in Requests, Finish(s)
        PROVE  req[r].op = "update"
    BY <1>2, <2>2 DEF Finish, UomTypeOK, Idle
  <2>3. ASSUME NEW s \in Requests, NEW c, Begin(s, c), c.op # "update"
        PROVE  req[r].op = "update"
    BY <1>2, <2>3 DEF Begin, UomTypeOK
  <2>4. ASSUME NEW s \in Requests, NEW dto \in GroupWrites, UpdateCheck(s, dto)
        PROVE  stage # "absent"
    BY <2>4 DEF UpdateCheck
  <2>5. ASSUME NEW s \in Requests,
               \/ RemoveGroupFind(s)
               \/ \E dto \in GroupWrites : CreateCheck(s, dto)
               \/ \E t \in Types : RemoveTypeCheck(s, t)
        PROVE  req[r].op = "update"
    BY <2>3, <2>5 DEF CreateCheck, RemoveGroupFind, RemoveTypeCheck
  <2>6. ASSUME NEW s \in Requests,
               \/ CreateSave(s)
               \/ UpdateSave(s)
               \/ RemoveGroupSave(s)
               \/ RemoveTypeSave(s)
               \/ Abort(s)
        PROVE  req[r].op = "update"
    BY <2>2, <2>6 DEF CreateSave, UpdateSave, RemoveGroupSave, RemoveTypeSave, Abort
  <2>7. CASE NextDay
    BY <2>1, <2>7 DEF NextDay
  <2>8. QED
    BY <2>4, <2>5, <2>6, <2>7 DEF UomStep, GroupStep, TypeStep
<1>3. QED
  BY <1>1, <1>2 DEF UpdatesFollowCreate

-----------------------------------------------------------------------------
(* The history of one Type.                                                *)

\* Every step but the end of a day has an effect on each Type that TypeEffect
\* describes, and none at all on a Group that does not exist afterwards.
LEMMA EffectOfNext ==
  ASSUME UomInv, UomStep, ~NextDay
  PROVE  /\ day' = day /\ past' = past
         /\ \A t \in Types : TypeEffect(t)
         /\ stage' = "absent" => stage = "absent" /\ UNCHANGED <<factors, history>>
<1>1. ASSUME UNCHANGED <<factors, history>> PROVE \A t \in Types : TypeEffect(t)
  BY <1>1 DEF TypeEffect, Kept
<1>2. ASSUME NEW s \in Requests, CreateSave(s)
      PROVE  /\ day' = day /\ past' = past /\ stage' # "absent"
             /\ \A t \in Types : TypeEffect(t)
  BY <1>2, EffectOfCreate DEF CreateSave
<1>3. ASSUME NEW s \in Requests, UpdateSave(s)
      PROVE  /\ day' = day /\ past' = past /\ stage' # "absent"
             /\ \A t \in Types : TypeEffect(t)
  BY <1>3, EffectOfUpdate DEF UpdateSave, UomInv, UpdatesFollowCreate
<1>4. ASSUME NEW s \in Requests,
             \/ \E dto \in GroupWrites : CreateCheck(s, dto) \/ UpdateCheck(s, dto)
             \/ RemoveGroupFind(s)
             \/ RemoveGroupSave(s)
             \/ \E t \in Types : RemoveTypeCheck(s, t)
             \/ RemoveTypeSave(s)
             \/ Abort(s)
      PROVE  /\ day' = day /\ past' = past /\ UNCHANGED <<factors, history>>
             /\ stage' = "absent" => stage = "absent"
  BY <1>4
  DEF CreateCheck, UpdateCheck, RemoveGroupFind, RemoveGroupSave, RemoveTypeCheck,
      RemoveTypeSave, Abort, group
<1>5. QED
  BY <1>1, <1>2, <1>3, <1>4 DEF UomStep, GroupStep, TypeStep

\* The rows of a Type after its factor was versioned.
LEMMA RowsAfterVersioning ==
  ASSUME UomTypeOK, NEW t \in Types, NEW rate \in Rates,
         history'[t] = Closed(t) \cup {OpenRow(rate)},
         NEW entry \in history'[t]
  PROVE  \/ entry = OpenRow(rate)
         \/ entry \in history[t] /\ entry.to # None
         \/ \E q \in OpenRows(t) :
               entry.rate = q.rate /\ entry.from = q.from /\ entry.to = day /\ entry = [q EXCEPT !.to = day]
<1>1. history[t] \subseteq Row /\ day \in Days
  BY DEF UomTypeOK
<1>2. CASE \E q \in OpenRows(t) : entry = [q EXCEPT !.to = day]
  BY <1>1, <1>2, ClosedRow DEF OpenRows
<1>3. QED
  BY <1>2 DEF Closed

LEMMA VersioningStep ==
  ASSUME UomTypeOK, NEW t \in Types, TypeInv(t), Versioned(t),
         day' = day, past' = past, stage' # "absent"
  PROVE  TypeInv(t)'
<1>1. PICK rate \in Rates : factors'[t] = rate /\ history'[t] = Closed(t) \cup {OpenRow(rate)}
  BY DEF Versioned
<1>2. history[t] \subseteq Row /\ day \in Days /\ day \in Nat /\ None \notin Days
  BY UomAssumption DEF UomTypeOK, Days
<1>3. /\ OpenRow(rate).rate = rate /\ OpenRow(rate).from = day /\ OpenRow(rate).to = None
  BY <1>2, RowFacts
<1>4. \A entry \in history'[t] :
         \/ entry = OpenRow(rate)
         \/ entry \in history[t] /\ entry.to # None
         \/ \E q \in OpenRows(t) :
               entry.rate = q.rate /\ entry.from = q.from /\ entry.to = day /\ entry = [q EXCEPT !.to = day]
  BY <1>1, RowsAfterVersioning
<1>5. \A entry \in history[t] : entry.from \in Nat /\ (entry.to # None => entry.to \in Nat)
  BY <1>2 DEF Row, Days
<1>6. \A entry \in history'[t] : entry.to = None => entry = OpenRow(rate)
  BY <1>2, <1>4
<1>7. OpenRow(rate) \in history'[t]
  BY <1>1
<1>8. RowsArePast(t)'
  BY <1>2, <1>3, <1>4, <1>5 DEF TypeInv, RowsArePast, OpenRows
<1>9. OneOpenRow(t)'
  BY <1>6 DEF OneOpenRow, OpenRows
<1>10. FactorIsOpen(t)'
  BY <1>1, <1>3, <1>7 DEF FactorIsOpen, OpenRows
<1>11. Timeline(t)'
  <2> SUFFICES ASSUME NEW q \in history'[t], NEW entry \in history'[t], q # entry
               PROVE  Precedes(q, entry) \/ Precedes(entry, q)
    BY DEF Timeline, Precedes
  <2>1. \A r \in history'[t] : r # OpenRow(rate) => Precedes(r, OpenRow(rate))
    BY <1>2, <1>3, <1>4, <1>5 DEF TypeInv, RowsArePast, Precedes
  <2>2. \A r1, r2 \in history[t] : r1 # r2 => Precedes(r1, r2) \/ Precedes(r2, r1)
    BY DEF TypeInv, Timeline
  <2>3. \A r1, r2 \in OpenRows(t) : r1 = r2
    BY DEF TypeInv, OneOpenRow
  <2>4. ASSUME NEW r1 \in history[t], r1.to # None, NEW r2 \in OpenRows(t)
        PROVE  r1.to <= r2.from
    BY <2>2, <2>4 DEF OpenRows, Precedes
  <2>5. QED
    BY <1>2, <1>4, <2>1, <2>2, <2>3, <2>4 DEF Precedes
<1>12. PastIsCovered(t)'
  <2> SUFFICES ASSUME NEW d \in Days, d < day, past[d][t] # None
               PROVE  \E entry \in history'[t] :
                         entry.rate = past[d][t] /\ entry.from <= d /\ (entry.to # None => d < entry.to)
    BY DEF PastIsCovered
  <2>1. PICK entry \in history[t] :
           entry.rate = past[d][t] /\ entry.from <= d /\ (entry.to # None => d < entry.to)
    BY DEF TypeInv, PastIsCovered
  <2>2. CASE entry.to # None
    BY <1>1, <2>1, <2>2 DEF Closed
  <2>3. CASE entry.to = None
    <3>1. entry \in OpenRows(t) /\ [entry EXCEPT !.to = day] \in history'[t]
      BY <1>1, <2>3 DEF OpenRows, Closed
    <3>2. /\ [entry EXCEPT !.to = day].rate = entry.rate
          /\ [entry EXCEPT !.to = day].from = entry.from
          /\ [entry EXCEPT !.to = day].to = day
      BY <1>2, ClosedRow
    <3>3. QED
      BY <2>1, <3>1, <3>2
  <2>4. QED
    BY <2>2, <2>3
<1>13. QED
  BY <1>8, <1>9, <1>10, <1>11, <1>12 DEF TypeInv, NothingYet

LEMMA KeepingStep ==
  ASSUME NEW t \in Types, TypeInv(t), Kept(t), day' = day, past' = past,
         stage' = "absent" => stage = "absent" /\ UNCHANGED <<factors, history>>
  PROVE  TypeInv(t)'
<1>1. history'[t] = history[t] /\ (factors'[t] # None => factors'[t] = factors[t])
  BY DEF Kept
<1>2. /\ RowsArePast(t)' /\ OneOpenRow(t)' /\ FactorIsOpen(t)'
      /\ Timeline(t)' /\ PastIsCovered(t)'
  BY <1>1
  DEF TypeInv, RowsArePast, OneOpenRow, FactorIsOpen, Timeline, PastIsCovered, OpenRows, Precedes
<1>3. NothingYet(t)'
  BY DEF TypeInv, NothingYet
<1>4. QED
  BY <1>2, <1>3 DEF TypeInv

LEMMA DayStep ==
  ASSUME UomTypeOK, NextDay, NEW t \in Types, TypeInv(t)
  PROVE  TypeInv(t)'
<1>1. /\ day \in Nat /\ MaxDay \in Nat /\ day' = day + 1 /\ day \in Days /\ None \notin Days
      /\ past' = [past EXCEPT ![day] = factors]
      /\ UNCHANGED <<stage, factors, history>>
  BY UomAssumption DEF NextDay, UomTypeOK, Days, group
<1>2. \A entry \in history[t] : entry.from \in Nat /\ (entry.to # None => entry.to \in Nat)
  BY DEF UomTypeOK, Row, Days
<1>3. /\ past'[day] = factors
      /\ \A d \in Days : d # day => past'[d] = past[d]
  BY <1>1 DEF UomTypeOK
<1>4. RowsArePast(t)'
  BY <1>1, <1>2 DEF TypeInv, RowsArePast
<1>5. OneOpenRow(t)' /\ FactorIsOpen(t)' /\ Timeline(t)'
  BY <1>1 DEF TypeInv, OneOpenRow, FactorIsOpen, Timeline, OpenRows, Precedes
<1>6. PastIsCovered(t)'
  <2> SUFFICES ASSUME NEW d \in Days, d < day + 1, past'[d][t] # None
               PROVE  \E entry \in history[t] :
                         entry.rate = past'[d][t] /\ entry.from <= d /\ (entry.to # None => d < entry.to)
    BY <1>1 DEF PastIsCovered
  <2>1. CASE d = day
    <3>1. factors[t] # None
      BY <1>3, <2>1
    <3>2. PICK entry \in OpenRows(t) : entry.rate = factors[t]
      BY <3>1 DEF TypeInv, FactorIsOpen
    <3>3. QED
      BY <1>3, <2>1, <3>2 DEF OpenRows, TypeInv, RowsArePast
  <2>2. CASE d # day
    <3>1. d < day
      BY <1>1, <2>2 DEF Days
    <3>2. QED
      BY <1>3, <2>2, <3>1 DEF TypeInv, PastIsCovered
  <2>3. QED
    BY <2>1, <2>2
<1>7. NothingYet(t)'
  BY <1>1, <1>3 DEF TypeInv, NothingYet
<1>8. QED
  BY <1>4, <1>5, <1>6, <1>7 DEF TypeInv

LEMMA UomInvNext == UomInv /\ [UomNext]_uomVars => UomInv'
<1> SUFFICES ASSUME UomInv, [UomNext]_uomVars PROVE UomInv'
  OBVIOUS
<1>0. serial' \in BOOLEAN
  BY DEF UomNext, uomVars, UomInv, UomTypeOK
<1>1. CASE UomStep /\ ~NextDay
  <2>1. ASSUME NEW t \in Types PROVE TypeInv(t)'
    <3>1. /\ TypeEffect(t) /\ TypeInv(t) /\ UomTypeOK
          /\ day' = day /\ past' = past
          /\ stage' = "absent" => stage = "absent" /\ UNCHANGED <<factors, history>>
      BY <1>1, EffectOfNext DEF UomInv
    <3>2. CASE Kept(t)
      BY <3>1, <3>2, KeepingStep
    <3>3. CASE Versioned(t) /\ stage' # "absent"
      BY <3>1, <3>3, VersioningStep
    <3>4. CASE stage' = "absent"
      BY <3>1, <3>4, KeepingStep DEF Kept
    <3>5. QED
      BY <3>1, <3>2, <3>3, <3>4 DEF TypeEffect
  <2>2. QED
    BY <1>0, <1>1, <2>1, NextType, NextUpdates DEF UomInv
<1>2. CASE NextDay
  <2>1. UomStep
    BY <1>2 DEF UomStep
  <2>2. QED
    BY <1>0, <1>2, <2>1, DayStep, NextType, NextUpdates DEF UomInv
<1>3. CASE UNCHANGED uomVars
  BY <1>3
  DEF uomVars, UomInv, UomTypeOK, UpdatesFollowCreate, TypeInv, RowsArePast, OneOpenRow,
      FactorIsOpen, Timeline, PastIsCovered, NothingYet, OpenRows, Precedes
<1>4. QED
  BY <1>1, <1>2, <1>3 DEF UomNext

LEMMA UomInvInit == UomInit => UomInv
<1> SUFFICES ASSUME UomInit PROVE UomInv
  OBVIOUS
<1>1. UomTypeOK
  BY UomAssumption
  DEF UomInit, UomTypeOK, Days, Assignments, FactorSets, NoFactors
<1>2. UpdatesFollowCreate
  BY DEF UomInit, UpdatesFollowCreate, Idle
<1>3. ASSUME NEW t \in Types PROVE TypeInv(t)
  BY UomAssumption
  DEF UomInit, NoFactors, TypeInv, RowsArePast, OneOpenRow, FactorIsOpen, Timeline,
      PastIsCovered, NothingYet, OpenRows, Days
<1>4. QED
  BY <1>1, <1>2, <1>3 DEF UomInv

-----------------------------------------------------------------------------
(* The properties.                                                         *)

LEMMA Consequences ==
  ASSUME UomInv
  PROVE  UomTypeOK /\ CurrentRateIsOpenRow /\ HistoryIsTimeline /\ PastRateIsKept
<1>1. UomTypeOK
  BY DEF UomInv
<1>2. CurrentRateIsOpenRow
  <2> SUFFICES ASSUME NEW t \in Types, factors[t] # None
               PROVE  \E entry \in Row : entry.rate = factors[t] /\ OpenRows(t) = {entry}
    BY DEF CurrentRateIsOpenRow
  <2>1. PICK entry \in OpenRows(t) : entry.rate = factors[t]
    BY DEF UomInv, TypeInv, FactorIsOpen
  <2>2. OpenRows(t) = {entry} /\ entry \in Row
    BY <1>1, <2>1 DEF UomInv, TypeInv, OneOpenRow, OpenRows, UomTypeOK
  <2>3. QED
    BY <2>1, <2>2
<1>3. HistoryIsTimeline
  BY DEF HistoryIsTimeline, UomInv, TypeInv, Timeline
<1>4. PastRateIsKept
  <2> SUFFICES ASSUME NEW d \in Days, NEW t \in Types, d < day, past[d][t] # None
               PROVE  past[d][t] \in RateAsOf(t, d)
    BY DEF PastRateIsKept
  <2>1. PICK entry \in history[t] :
           entry.rate = past[d][t] /\ entry.from <= d /\ (entry.to # None => d < entry.to)
    BY DEF UomInv, TypeInv, PastIsCovered
  <2>2. /\ d \in Nat
        /\ \A r \in history[t] : /\ r.from \in Nat
                                 /\ r.to # None => r.to \in Nat /\ r.from <= r.to
    BY <1>1 DEF UomTypeOK, Row, Days, UomInv, TypeInv, RowsArePast
  <2>3. entry \in InEffect(t, d)
    BY <2>1, <2>2 DEF InEffect
  <2>4. \A q \in InEffect(t, d) : q.from <= entry.from
    <3> SUFFICES ASSUME NEW q \in InEffect(t, d), q # entry
                 PROVE  q.from <= entry.from
      BY <2>1, <2>2 DEF InEffect
    <3>1. q \in history[t] /\ q.from <= d
      BY DEF InEffect
    <3>2. Precedes(q, entry) \/ Precedes(entry, q)
      BY <2>1, <3>1 DEF UomInv, TypeInv, Timeline
    <3>3. QED
      BY <2>1, <2>2, <3>1, <3>2 DEF Precedes
  <2>5. QED
    BY <2>1, <2>3, <2>4 DEF RateAsOf
<1>5. QED
  BY <1>1, <1>2, <1>3, <1>4

\* Whatever calls overlap, in whatever order their transactions run, the
\* factors of the Group and the history the conversions of the past read
\* stay consistent: one open entry for each current factor, with its rate; rows
\* that follow one another; and the rate in force at the end of each past day
\* among the answers to a lookup as of that day.
THEOREM FactorHistoryIsConsistent == UomSpec => [](UomTypeOK /\ HistoryIsSound)
<1>1. UomInit => UomInv
  BY UomInvInit
<1>2. UomInv /\ [UomNext]_uomVars => UomInv'
  BY UomInvNext
<1>3. UomInv => UomTypeOK /\ HistoryIsSound
  BY Consequences DEF HistoryIsSound
<1>4. QED
  BY <1>1, <1>2, <1>3, PTL DEF UomSpec

-----------------------------------------------------------------------------
(* Calls that do not overlap.                                              *)

\* What a call found before its transaction is still so.
Established(c) ==
    /\ c.op = "create" =>
          Resolves(c.dto) /\ Complete(c.dto.base, c.dto.roles, c.dto.factors)
    /\ c.op = "update" =>
          /\ stage = "live" /\ c.prior = factors /\ Resolves(c.dto)
          /\ Complete(Sent(c.dto.base, base), Sent(c.dto.roles, roles), Sent(c.dto.factors, factors))
    /\ c.op = "removeType" => ~InUse(c.type)

SerialInv ==
    serial => /\ OneCall
              /\ \A s \in Requests : Established(req[s])
              /\ GroupComplete
              /\ NoDeletedTypeInUse

\* A call that begins is the only one.
LEMMA BeginSerial ==
  ASSUME UomInv, SerialInv, serial, OneCall', NEW s \in Requests, NEW call \in Call,
         Begin(s, call), call # Idle, UNCHANGED <<group, gone>>, Established(call)
  PROVE  SerialInv'
<1>1. UNCHANGED <<stage, base, roles, factors, history, gone>>
  BY DEF group
<1>2. req' = [req EXCEPT ![s] = call] /\ req \in [Requests -> Call \cup {Idle}]
  BY DEF Begin, UomInv, UomTypeOK
<1>3. GroupComplete' /\ NoDeletedTypeInUse'
  BY <1>1 DEF SerialInv, GroupComplete, NoDeletedTypeInUse, InUse, Complete
<1>4. ASSUME NEW r \in Requests PROVE Established(req[r])'
  <2>1. CASE r = s
    <3>1. req'[r] = call
      BY <1>2, <2>1
    <3>2. QED
      BY <1>1, <3>1 DEF Established, Resolves, Named, Complete, Sent, InUse
  <2>2. CASE r # s
    <3>1. req'[r] = Idle
      BY <1>2, <2>2 DEF OneCall
    <3>2. req'[r].op = "idle"
      BY <3>1 DEF Idle
    <3>3. QED
      BY <3>2 DEF Established
  <2>3. QED
    BY <2>1, <2>2
<1>5. QED
  BY <1>3, <1>4 DEF SerialInv

\* When the only call has finished, none is in progress.
LEMMA FinishSerial ==
  ASSUME UomInv, SerialInv, serial, NEW s \in Requests, req[s] # Idle, Finish(s),
         GroupComplete', NoDeletedTypeInUse'
  PROVE  SerialInv'
<1>1. req' = [req EXCEPT ![s] = Idle] /\ req \in [Requests -> Call \cup {Idle}]
  BY DEF Finish, UomInv, UomTypeOK
<1>2. \A r \in Requests : req'[r] = Idle
  BY <1>1 DEF SerialInv, OneCall
<1>3. OneCall'
  BY <1>2 DEF OneCall
<1>4. Idle.op = "idle"
  BY DEF Idle
<1>5. \A r \in Requests : Established(req[r])'
  BY <1>2, <1>4 DEF Established
<1>6. QED
  BY <1>3, <1>5 DEF SerialInv

\* A save that nothing came between writes the Group that it validated.
LEMMA UpdateSerial ==
  ASSUME UomInv, SerialInv, serial, NEW s \in Requests, UpdateSave(s)
  PROVE  GroupComplete' /\ NoDeletedTypeInUse'
<1> DEFINE c == req[s]
<1>1. c.dto \in GroupWrite /\ c.prior \in FactorSets /\ factors \in FactorSets
  BY CallFields DEF UpdateSave, UomInv, UomTypeOK
<1>2. /\ c.prior = factors /\ stage = "live" /\ Named(c.dto) \cap gone = {}
      /\ Complete(Sent(c.dto.base, base), Sent(c.dto.roles, roles), Sent(c.dto.factors, factors))
  BY DEF UpdateSave, SerialInv, Established, Resolves
<1>3. /\ base' = Sent(c.dto.base, base) /\ roles' = Sent(c.dto.roles, roles)
      /\ stage' = stage /\ gone' = gone
  BY DEF UpdateSave
<1>4. factors' = Sent(c.dto.factors, factors)
  <2>1. CASE c.dto.factors = NotSent
    BY <2>1 DEF UpdateSave, Sent
  <2>2. CASE c.dto.factors # NotSent
    <3>1. c.dto.factors \in FactorSets /\ factors' = FactorsAfter(c)
      BY <1>1, <2>2, DtoFields DEF UpdateSave
    <3>2. ASSUME NEW t \in Types PROVE FactorsAfter(c)[t] = c.dto.factors[t]
      BY <1>2 DEF FactorsAfter, Removed, Added, Changed
    <3>3. FactorsAfter(c) = [t \in Types |-> c.dto.factors[t]]
      BY <3>2 DEF FactorsAfter
    <3>4. QED
      BY <2>2, <3>1, <3>3 DEF Sent, FactorSets
  <2>3. QED
    BY <2>1, <2>2
<1>5. GroupComplete'
  BY <1>2, <1>3, <1>4 DEF GroupComplete, Complete
<1>6. ASSUME NEW t \in gone, InUse(t)' PROVE FALSE
  <2>1. ~InUse(t) /\ t \in Types
    BY DEF SerialInv, NoDeletedTypeInUse, UomInv, UomTypeOK
  <2>2. t \notin Named(c.dto)
    BY <1>2
  <2>3. ~(stage = "live" /\ base' = t)
    BY <1>2, <1>3, <2>1, <2>2 DEF InUse, Sent, Named
  <2>4. \A r \in Roles : roles'[r] # t
    BY <1>3, <2>1, <2>2 DEF InUse, Sent, Named
  <2>5. factors'[t] = None
    BY <1>4, <2>1, <2>2 DEF InUse, Sent, Named
  <2>6. QED
    BY <1>3, <1>6, <2>3, <2>4, <2>5 DEF InUse
<1>7. QED
  BY <1>3, <1>5, <1>6 DEF NoDeletedTypeInUse

LEMMA CreateSerial ==
  ASSUME UomInv, SerialInv, serial, NEW s \in Requests, CreateSave(s)
  PROVE  GroupComplete' /\ NoDeletedTypeInUse'
<1> DEFINE dto == req[s].dto
<1>1. dto \in GroupWrite /\ IsWhole(dto)
  BY CallFields DEF CreateSave, UomInv, UomTypeOK
<1>2. /\ Named(dto) \cap gone = {} /\ Complete(dto.base, dto.roles, dto.factors)
      /\ base' = dto.base /\ roles' = dto.roles /\ factors' = dto.factors /\ gone' = gone
  BY DEF CreateSave, SerialInv, Established, Resolves
<1>3. ASSUME NEW t \in gone, InUse(t)' PROVE FALSE
  <2>1. t \in Types /\ t \notin Named(dto)
    BY <1>2 DEF UomInv, UomTypeOK
  <2>2. base' # t /\ factors'[t] = None /\ \A r \in Roles : roles'[r] # t
    BY <1>1, <1>2, <2>1 DEF Named, IsWhole
  <2>3. QED
    BY <1>3, <2>2 DEF InUse
<1>4. QED
  BY <1>2, <1>3 DEF GroupComplete, NoDeletedTypeInUse, Complete

LEMMA NextSerial ==
  ASSUME UomInv, SerialInv, UomNext
  PROVE  SerialInv'
<1> SUFFICES ASSUME serial' PROVE SerialInv'
  BY DEF SerialInv
<1>1. serial /\ OneCall' /\ UomStep
  BY DEF UomNext
<1>2. GroupComplete /\ NoDeletedTypeInUse /\ OneCall
  BY <1>1 DEF SerialInv
<1>3. Idle.op = "idle"
  BY DEF Idle
<1>4. ASSUME UNCHANGED <<stage, base, roles, factors, gone>>
      PROVE  GroupComplete' /\ NoDeletedTypeInUse'
  BY <1>2, <1>4 DEF GroupComplete, NoDeletedTypeInUse, InUse, Complete
<1>5. ASSUME NEW s \in Requests, NEW dto \in GroupWrites, CreateCheck(s, dto)
      PROVE  SerialInv'
  <2> DEFINE call == [op |-> "create", dto |-> dto]
  <2>1. call \in Call /\ call # Idle /\ Begin(s, call) /\ UNCHANGED <<group, gone>>
    BY <1>3, <1>5 DEF CreateCheck, Call
  <2>2. Established(call)
    BY <1>5 DEF CreateCheck, Established
  <2>3. QED
    BY <1>1, <2>1, <2>2, BeginSerial
<1>6. ASSUME NEW s \in Requests, NEW dto \in GroupWrites, UpdateCheck(s, dto)
      PROVE  SerialInv'
  <2> DEFINE call == [op |-> "update", dto |-> dto, prior |-> factors]
  <2>1. call \in Call /\ call # Idle /\ Begin(s, call) /\ UNCHANGED <<group, gone>>
    BY <1>3, <1>6 DEF UpdateCheck, Call, UomInv, UomTypeOK
  <2>2. Established(call)
    BY <1>6 DEF UpdateCheck, Established
  <2>3. QED
    BY <1>1, <2>1, <2>2, BeginSerial
<1>7. ASSUME NEW s \in Requests, RemoveGroupFind(s) PROVE SerialInv'
  <2> DEFINE call == [op |-> "removeGroup"]
  <2>1. call \in Call /\ call # Idle /\ Begin(s, call) /\ UNCHANGED <<group, gone>>
    BY <1>3, <1>7 DEF RemoveGroupFind, Call
  <2>2. Established(call)
    BY DEF Established
  <2>3. QED
    BY <1>1, <2>1, <2>2, BeginSerial
<1>8. ASSUME NEW s \in Requests, NEW t \in Types, RemoveTypeCheck(s, t) PROVE SerialInv'
  <2> DEFINE call == [op |-> "removeType", type |-> t]
  <2>1. call \in Call /\ call # Idle /\ Begin(s, call) /\ UNCHANGED <<group, gone>>
    BY <1>3, <1>8 DEF RemoveTypeCheck, Call
  <2>2. Established(call)
    BY <1>8 DEF RemoveTypeCheck, Established
  <2>3. QED
    BY <1>1, <2>1, <2>2, BeginSerial
<1>9. ASSUME NEW s \in Requests, CreateSave(s) PROVE SerialInv'
  BY <1>1, <1>3, <1>9, CreateSerial, FinishSerial DEF CreateSave
<1>10. ASSUME NEW s \in Requests, UpdateSave(s) PROVE SerialInv'
  BY <1>1, <1>3, <1>10, UpdateSerial, FinishSerial DEF UpdateSave
<1>11. ASSUME NEW s \in Requests, RemoveGroupSave(s) PROVE SerialInv'
  <2>1. /\ req[s] # Idle /\ Finish(s) /\ stage' = "deleted"
        /\ UNCHANGED <<base, roles, factors, gone>>
    BY <1>3, <1>11 DEF RemoveGroupSave
  <2>2. GroupComplete' /\ NoDeletedTypeInUse'
    BY <1>2, <2>1 DEF GroupComplete, NoDeletedTypeInUse, InUse
  <2>3. QED
    BY <1>1, <2>1, <2>2, FinishSerial
<1>12. ASSUME NEW s \in Requests, RemoveTypeSave(s) PROVE SerialInv'
  <2>1. /\ req[s] # Idle /\ Finish(s) /\ gone' = gone \cup {req[s].type}
        /\ UNCHANGED <<stage, base, roles, factors>>
    BY <1>3, <1>12 DEF RemoveTypeSave, group
  <2>2. ~InUse(req[s].type)
    BY <1>1, <1>12 DEF RemoveTypeSave, SerialInv, Established
  <2>3. GroupComplete' /\ NoDeletedTypeInUse'
    BY <1>2, <2>1, <2>2 DEF GroupComplete, NoDeletedTypeInUse, InUse, Complete
  <2>4. QED
    BY <1>1, <2>1, <2>3, FinishSerial
<1>13. ASSUME NEW s \in Requests, Abort(s) PROVE SerialInv'
  BY <1>1, <1>4, <1>13, FinishSerial DEF Abort, group
<1>14. CASE NextDay
  <2>1. UNCHANGED <<stage, base, roles, factors, gone, req>>
    BY <1>14 DEF NextDay, group
  <2>2. \A s \in Requests : Established(req[s])'
    BY <1>1, <2>1 DEF SerialInv, Established, Resolves, Named, Complete, Sent, InUse
  <2>3. QED
    BY <1>1, <1>4, <2>1, <2>2 DEF SerialInv
<1>15. QED
  BY <1>1, <1>5, <1>6, <1>7, <1>8, <1>9, <1>10, <1>11, <1>12, <1>13, <1>14
  DEF UomStep, GroupStep, TypeStep

\* Groups and Types: as long as calls do not overlap, a live Group has a factor
\* for every Type that it assigns (BR-019), and no Type that it uses is removed
\* (BR-014), for any Types, Roles, rates and bodies.
THEOREM SerialGroupIsAlwaysUsable == UomSpec => []SerialGroupIsUsable
<1>1. UomInit => UomInv /\ SerialInv
  <2> SUFFICES ASSUME UomInit PROVE SerialInv
    BY UomInvInit
  <2>1. \A s \in Requests : req[s] = Idle /\ req[s].op = "idle"
    BY DEF UomInit, Idle
  <2>2. OneCall /\ \A s \in Requests : Established(req[s])
    BY <2>1 DEF OneCall, Established
  <2>3. GroupComplete /\ NoDeletedTypeInUse
    BY DEF UomInit, GroupComplete, NoDeletedTypeInUse
  <2>4. QED
    BY <2>2, <2>3 DEF SerialInv
<1>2. UomInv /\ SerialInv /\ [UomNext]_uomVars => UomInv' /\ SerialInv'
  <2> SUFFICES ASSUME UomInv, SerialInv, [UomNext]_uomVars PROVE SerialInv'
    BY UomInvNext
  <2>1. CASE UomNext
    BY <2>1, NextSerial
  <2>2. CASE UNCHANGED uomVars
    BY <2>2
    DEF uomVars, SerialInv, OneCall, Established, Resolves, Named, Complete, Sent, InUse,
        GroupComplete, NoDeletedTypeInUse
  <2>3. QED
    BY <2>1, <2>2
<1>3. SerialInv => SerialGroupIsUsable
  BY DEF SerialInv, SerialGroupIsUsable
<1>4. QED
  BY <1>1, <1>2, <1>3, PTL DEF UomSpec

-----------------------------------------------------------------------------
(* The screens.                                                            *)

\* A page shows rows that are there, and a dialog or a timer belongs to its page.
PageFits ==
    /\ listed # TheRows => listed \subseteq Present
    /\ dialog.kind = "role" => at = "roles"
    /\ dialog.kind = "group" => at = "groups"
    /\ dialog.kind = "delete" => dialog.of \in Present
    /\ \A i \in DOMAIN saves : saves[i].here =>
          /\ saves[i].kind = "role" => at = "roles"
          /\ saves[i].kind = "group" => at = "groups"
          /\ saves[i].kind = "user" => at = "form"

\* While no form is left that is being saved, one timer runs at most, its dialog
\* is open, and the roles are those that the dialog opened with.
TimersFit ==
    "left" \notin excuses =>
        /\ Len(saves) <= 1
        /\ \A i \in DOMAIN saves :
              /\ saves[i].here
              /\ saves[i].kind # "user" => dialog.kind = saves[i].kind /\ dialog.sent
              /\ saves[i].kind = "role" => saves[i].parent \in RolesThere \cup {TopLevel}
              /\ saves[i].kind = "group" => RolesThere \subseteq saves[i].known
        /\ dialog.kind = "group" => RolesThere \subseteq dialog.known

\* Every set of roles that holds the parents of its members has a root.
EveryLineHasRoot ==
    excuses \cap {"left", "below"} = {} =>
        \A S \in SUBSET RolesThere :
            S # {} /\ UpwardClosed(S) => \E q \in S : roleRows[q].parent = TopLevel

ScreensInv ==
    /\ ScreensTypeOK /\ PageFits /\ TimersFit
    /\ EveryLineHasRoot /\ TwoFactorFollowsRole /\ MembersAreTyped

(* Sequences of timers.                                                    *)

LEMMA EndedTimers ==
  ASSUME saves \in Seq(Saves), NEW i \in DOMAIN saves
  PROVE  /\ Ended(i) \in Seq(Saves) /\ Len(Ended(i)) = Len(saves) - 1
         /\ \A j \in DOMAIN Ended(i) : \E k \in DOMAIN saves : Ended(i)[j] = saves[k]
<1>1. Len(saves) \in Nat /\ DOMAIN saves = 1..Len(saves) /\ \A k \in 1..Len(saves) : saves[k] \in Saves
  OBVIOUS
<1>2. i \in 1..Len(saves) /\ i - 1 \in Int /\ i + 1 \in Int
  BY <1>1
<1> DEFINE a == SubSeq(saves, 1, i - 1)
           b == SubSeq(saves, i + 1, Len(saves))
<1>3. /\ a \in Seq(Saves) /\ Len(a) = i - 1
      /\ \A j \in 1..(i - 1) : a[j] = saves[j]
  BY <1>1, <1>2, SubSeqProperties
<1>4. /\ b \in Seq(Saves) /\ Len(b) = Len(saves) - i
      /\ \A j \in 1..(Len(saves) - i) : b[j] = saves[i + j]
  <2>1. \A k \in (i + 1)..Len(saves) : saves[k] \in Saves
    BY <1>1, <1>2
  <2>2. /\ b \in Seq(Saves)
        /\ Len(b) = IF i + 1 <= Len(saves) THEN Len(saves) - (i + 1) + 1 ELSE 0
        /\ \A j \in 1..(Len(saves) - (i + 1) + 1) : b[j] = saves[(i + 1) + j - 1]
    BY <1>1, <1>2, <2>1, SubSeqProperties
  <2>3. \A j \in 1..(Len(saves) - i) : (i + 1) + j - 1 = i + j /\ j \in 1..(Len(saves) - (i + 1) + 1)
    BY <1>1, <1>2
  <2>4. QED
    BY <1>1, <1>2, <2>2, <2>3
<1> HIDE DEF a, b
<1>5. Ended(i) = a \o b
  BY DEF Ended, a, b
<1>6. /\ a \o b \in Seq(Saves) /\ Len(a \o b) = Len(a) + Len(b)
      /\ \A j \in 1..(Len(a) + Len(b)) : (a \o b)[j] = IF j <= Len(a) THEN a[j] ELSE b[j - Len(a)]
  BY <1>3, <1>4, ConcatProperties
<1>7. PICK e \in Seq(Saves) : e = a \o b
  BY <1>6
<1> DEFINE n == Len(saves)
<1>8. /\ n \in Nat /\ i \in Nat /\ 1 <= i /\ i <= n /\ Len(e) = n - 1 /\ DOMAIN e = 1..(n - 1)
      /\ \A j \in 1..(n - 1) : e[j] = IF j <= i - 1 THEN a[j] ELSE b[j - (i - 1)]
  <2>1. /\ n \in Nat /\ i \in Nat /\ 1 <= i /\ i <= n
    BY <1>1, <1>2
  <2>2. Len(a) + Len(b) = n - 1
    BY <1>3, <1>4, <2>1
  <2>3. Len(e) = n - 1 /\ \A j \in 1..(n - 1) : e[j] = IF j <= i - 1 THEN a[j] ELSE b[j - (i - 1)]
    BY <1>3, <1>6, <1>7, <2>2
  <2>4. QED
    BY <2>1, <2>3
<1> HIDE DEF n
<1>11. DOMAIN saves = 1..n /\ \A j \in 1..(i - 1) : a[j] = saves[j]
  BY <1>1, <1>3 DEF n
<1>12. \A j \in 1..(n - i) : b[j] = saves[i + j]
  BY <1>4 DEF n
<1>9. ASSUME NEW j \in DOMAIN e PROVE \E k \in DOMAIN saves : e[j] = saves[k]
  <2>1. CASE j <= i - 1
    <3>1. j \in 1..(i - 1) /\ j \in DOMAIN saves /\ e[j] = a[j]
      BY <1>8, <1>11, <2>1
    <3>2. QED
      BY <1>11, <3>1
  <2>2. CASE ~(j <= i - 1)
    <3>1. e[j] = b[j - (i - 1)] /\ j - (i - 1) \in 1..(n - i) /\ j + 1 \in DOMAIN saves
      BY <1>8, <1>11, <2>2
    <3>2. i + (j - (i - 1)) = j + 1
      BY <1>8
    <3>3. e[j] = saves[j + 1]
      BY <1>12, <3>1, <3>2
    <3>4. QED
      BY <3>1, <3>3
  <2>3. QED
    BY <2>1, <2>2
<1>10. QED
  BY <1>5, <1>7, <1>8, <1>9 DEF n

LEMMA LeftTimers ==
  ASSUME NEW s \in Seq(Saves), NEW t, t = [j \in DOMAIN s |-> [s[j] EXCEPT !.here = FALSE]]
  PROVE  /\ t \in Seq(Saves) /\ Len(t) = Len(s) /\ DOMAIN t = DOMAIN s
         /\ \A j \in DOMAIN t : t[j].here = FALSE
<1>1. Len(s) \in Nat /\ DOMAIN s = 1..Len(s) /\ \A k \in 1..Len(s) : s[k] \in Saves
  OBVIOUS
<1>2. ASSUME NEW c \in Saves PROVE [c EXCEPT !.here = FALSE] \in Saves /\ [c EXCEPT !.here = FALSE].here = FALSE
  BY DEF Saves
<1>3. t \in [1..Len(s) -> Saves] /\ \A j \in 1..Len(s) : t[j].here = FALSE
  BY <1>1, <1>2
<1>4. t \in Seq(Saves)
  BY <1>1, <1>3, SeqDef
<1>5. Len(t) = Len(s)
  BY <1>1, <1>3, <1>4
<1>6. QED
  BY <1>1, <1>3, <1>4, <1>5

(* The types.                                                              *)

LEMMA DialogFields ==
  ASSUME NEW d \in Dialogs
  PROVE  /\ d.kind \in {"none", "delete", "role", "group"}
         /\ d.kind = "none" => d = NoDialog
         /\ d.kind = "delete" => d.of \in ScreenRoles \cup ScreenUsers \cup ScreenGroups
         /\ d.kind \in {"role", "group"} =>
              /\ d.of \in ScreenRoles \cup ScreenGroups \cup {New}
              /\ d.known \in SUBSET ScreenRoles /\ d.sent \in BOOLEAN
              /\ d = [kind |-> d.kind, of |-> d.of, known |-> d.known, sent |-> d.sent]
BY DEF Dialogs, PickerOf, NoDialog

LEMMA PresentType ==
  ASSUME ScreensTypeOK
  PROVE  /\ RolesThere \subseteq ScreenRoles /\ UsersThere \subseteq ScreenUsers
         /\ GroupsThere \subseteq ScreenGroups
         /\ Present \subseteq ScreenRoles \cup ScreenUsers \cup ScreenGroups
         /\ Shown \in SUBSET (ScreenRoles \cup ScreenUsers \cup ScreenGroups)
<1>1. RolesThere \subseteq ScreenRoles /\ UsersThere \subseteq ScreenUsers /\ GroupsThere \subseteq ScreenGroups
  BY DEF RolesThere, UsersThere, GroupsThere
<1>2. Present = RolesThere \/ Present = GroupsThere \/ Present = UsersThere
  BY DEF Present
<1>3. Shown = Present \/ (listed # TheRows /\ Shown = listed)
  BY DEF Shown
<1>4. listed # TheRows => listed \in SUBSET (ScreenRoles \cup ScreenUsers \cup ScreenGroups)
  BY Zenon DEF ScreensTypeOK
<1>5. Present \in SUBSET (ScreenRoles \cup ScreenUsers \cup ScreenGroups)
  BY <1>1, <1>2
<1>6. Shown \in SUBSET (ScreenRoles \cup ScreenUsers \cup ScreenGroups)
  BY <1>3, <1>4, <1>5
<1>7. QED
  BY <1>1, <1>5, <1>6

LEMMA ShownIsPresent ==
  ASSUME PageFits
  PROVE  Shown \subseteq Present /\ RowsWithButtons \subseteq Present
BY DEF PageFits, Shown, RowsWithButtons, Present, Tree

LEMMA InitScreens == ScreensInit => ScreensInv
<1> SUFFICES ASSUME ScreensInit PROVE ScreensInv
  OBVIOUS
<1> USE ScreensAssumption, RowAssumption
<1>1. RolesThere = SeededRoles
  <2>1. [parent |-> TopLevel, twoFactor |-> FALSE] \in RoleRow
    BY DEF RoleRow
  <2>2. QED
    BY <2>1 DEF ScreensInit, RolesThere
<1>2. ScreensTypeOK
  <2>1. Cardinality(ScreenUsers) \in Nat /\ Cardinality(ScreenUsers) # 0
    BY FS_EmptySet, FS_CardinalityType
  <2>2. roleRows \in [ScreenRoles -> RoleRow \cup {Missing, Gone}]
    BY DEF ScreensInit, RoleRow
  <2>3. userRows \in [ScreenUsers -> UserRow \cup {Gone}] /\ \A u \in ScreenUsers : userRows[u].role \in SeededRoles
    BY DEF ScreensInit, UserRow
  <2>4. groupRows \in [ScreenGroups -> {Missing, Gone} \cup SUBSET Member]
    <3>1. {[id |-> r, typed |-> TRUE] : r \in SeededRoles} \in SUBSET Member
      <4>1. SeededRoles \subseteq ScreenRoles
        OBVIOUS
      <4>2. \A r \in SeededRoles : [id |-> r, typed |-> TRUE] \in Member
        BY <4>1 DEF Member
      <4>3. QED
        BY <4>2, Zenon
    <3>2. QED
      BY <3>1 DEF ScreensInit
  <2>5. /\ at \in Screens /\ listed = TheRows /\ dialog \in Dialogs
        /\ saves = <<>> /\ saves \in Seq(Saves) /\ excuses = {} /\ pageNumber = 1
    BY DEF ScreensInit, Screens, Dialogs
  <2>6. Len(saves) <= MaxSaves
    <3>1. Len(<<>>) = 0
      OBVIOUS
    <3>2. 0 <= MaxSaves
      OBVIOUS
    <3>3. QED
      BY <2>5, <3>1, <3>2, Zenon
  <2>7. QED
    <3>1. \A u \in UsersThere : userRows[u].role \in RolesThere
      BY <1>1, <2>3 DEF UsersThere
    <3>2. pageNumber \in 1..Cardinality(ScreenUsers)
      BY <2>1, <2>5
    <3>3. listed \in {TheRows} \cup SUBSET (ScreenRoles \cup ScreenUsers \cup ScreenGroups)
      BY <2>5, Zenon
    <3>4. QED
      BY <2>2, <2>3, <2>4, <2>5, <2>6, <3>1, <3>2, <3>3, Zenon DEF ScreensTypeOK
<1>3. PageFits /\ TimersFit
  BY <1>1 DEF ScreensInit, PageFits, TimersFit, NoDialog
<1>4. EveryLineHasRoot
  BY <1>1 DEF ScreensInit, EveryLineHasRoot
<1>5. TwoFactorFollowsRole
  <2>1. ASSUME NEW u \in UsersThere
        PROVE  userRows[u].twoFactor = FALSE /\ userRows[u].role \in SeededRoles
    BY DEF ScreensInit, UsersThere
  <2>2. \A r \in SeededRoles : roleRows[r].twoFactor = FALSE
    BY DEF ScreensInit
  <2>3. QED
    BY <2>1, <2>2 DEF TwoFactorFollowsRole
<1>6. MembersAreTyped
  <2>1. ASSUME NEW g \in GroupsThere, NEW m \in groupRows[g] PROVE m.typed
    <3>1. groupRows[g] = {[id |-> r, typed |-> TRUE] : r \in SeededRoles}
      BY DEF ScreensInit, GroupsThere
    <3>2. QED
      BY <3>1
  <2>2. QED
    BY <2>1 DEF MembersAreTyped
<1>7. QED
  BY <1>2, <1>3, <1>4, <1>5, <1>6 DEF ScreensInv

(* What a step leaves alone.                                               *)

LEMMA SameStore ==
  ASSUME UNCHANGED rows
  PROVE  /\ RolesThere' = RolesThere /\ UsersThere' = UsersThere /\ GroupsThere' = GroupsThere
         /\ at' = at => Present' = Present
BY DEF rows, RolesThere, UsersThere, GroupsThere, Present

\* What the properties say of roles, users and groups is kept with the rows.
LEMMA StoredStays ==
  ASSUME ScreensInv, UNCHANGED rows, excuses \subseteq excuses'
  PROVE  (EveryLineHasRoot /\ TwoFactorFollowsRole /\ MembersAreTyped)'
<1> USE DEF ScreensInv, rows
<1>1. RolesThere' = RolesThere /\ UsersThere' = UsersThere /\ GroupsThere' = GroupsThere
  BY SameStore
<1>2. EveryLineHasRoot'
  <2>1. excuses' \cap {"left", "below"} = {} => excuses \cap {"left", "below"} = {}
    OBVIOUS
  <2>2. \A S : UpwardClosed(S)' <=> UpwardClosed(S)
    BY <1>1 DEF UpwardClosed
  <2>3. QED
    BY <1>1, <2>1, <2>2 DEF EveryLineHasRoot
<1>3. TwoFactorFollowsRole'
  BY <1>1 DEF TwoFactorFollowsRole
<1>4. MembersAreTyped'
  BY <1>1 DEF MembersAreTyped
<1>5. QED
  BY <1>2, <1>3, <1>4

\* Where nothing is being saved by the dialog of the page, no timer runs.
LEMMA NothingSaved ==
  ASSUME ScreensTypeOK, PageFits, TimersFit, "left" \notin excuses, ~Going,
         \A i \in DOMAIN saves : saves[i].kind = "user" /\ saves[i].here => at # "form"
  PROVE  Len(saves) = 0 /\ DOMAIN saves = {}
<1>1. Len(saves) \in Nat /\ DOMAIN saves = 1..Len(saves) /\ \A k \in 1..Len(saves) : saves[k] \in Saves
  BY DEF ScreensTypeOK
<1>2. \A i \in DOMAIN saves : FALSE
  <2>1. ASSUME NEW i \in DOMAIN saves PROVE FALSE
    <3>1. saves[i].kind \in {"role", "group", "user"} /\ saves[i].here
      BY <1>1 DEF Saves, TimersFit
    <3>2. CASE saves[i].kind = "user"
      BY <3>1, <3>2 DEF PageFits
    <3>3. CASE saves[i].kind # "user"
      BY <3>1, <3>3 DEF TimersFit, Going
    <3>4. QED
      BY <3>2, <3>3
  <2>2. QED
    BY <2>1
<1>3. QED
  BY <1>1, <1>2

LEMMA StartedTimer ==
  ASSUME saves \in Seq(Saves), NEW s \in Saves, StartTimer(s)
  PROVE  /\ saves' \in Seq(Saves) /\ Len(saves') = Len(saves) + 1 /\ Len(saves') <= MaxSaves
         /\ \A i \in DOMAIN saves' : saves'[i] = s \/ (i \in DOMAIN saves /\ saves'[i] = saves[i])
<1>1. Len(saves) \in Nat /\ saves' = Append(saves, s) /\ Len(saves) < MaxSaves
  BY DEF StartTimer
<1>2. /\ saves' \in Seq(Saves) /\ Len(saves') = Len(saves) + 1
      /\ saves'[Len(saves) + 1] = s /\ \A i \in 1..Len(saves) : saves'[i] = saves[i]
  BY <1>1, AppendProperties
<1>3. DOMAIN saves' = 1..(Len(saves) + 1) /\ DOMAIN saves = 1..Len(saves)
  BY <1>2
<1>4. Len(saves') <= MaxSaves
  BY <1>1, <1>2, ScreensAssumption
<1>5. ASSUME NEW i \in DOMAIN saves' PROVE saves'[i] = s \/ (i \in DOMAIN saves /\ saves'[i] = saves[i])
  <2>1. i \in 1..(Len(saves) + 1)
    BY <1>3
  <2>2. i = Len(saves) + 1 \/ i \in 1..Len(saves)
    BY <1>1, <2>1
  <2>3. QED
    BY <1>2, <1>3, <2>2
<1>6. QED
  BY <1>2, <1>4, <1>5

-----------------------------------------------------------------------------
(* Pages and forms: the rows stay.                                         *)

\* A step that keeps the rows keeps the invariant when its page fits.
LEMMA RowsStay ==
  ASSUME ScreensInv, UNCHANGED rows, excuses \subseteq excuses',
         at' \in Screens, dialog' \in Dialogs, pageNumber' \in 1..Cardinality(ScreenUsers),
         listed' \in {TheRows} \cup SUBSET (ScreenRoles \cup ScreenUsers \cup ScreenGroups),
         saves' \in Seq(Saves), Len(saves') <= MaxSaves, excuses' \subseteq {"left", "below"} \cup ScreenUsers,
         PageFits', TimersFit'
  PROVE  ScreensInv'
<1>1. RolesThere' = RolesThere /\ UsersThere' = UsersThere
  BY SameStore
<1>2. ScreensTypeOK'
  BY <1>1 DEF ScreensInv, ScreensTypeOK, rows
<1>3. QED
  BY <1>2, StoredStays DEF ScreensInv

LEMMA NavigateStep == ASSUME ScreensInv, NEW p \in Screens, Navigate(p) PROVE ScreensInv'
<1> USE DEF Navigate
<1>1. saves \in Seq(Saves) /\ Len(saves) <= MaxSaves /\ excuses \subseteq {"left", "below"} \cup ScreenUsers
  BY DEF ScreensInv, ScreensTypeOK
<1>2. PICK t \in Seq(Saves) : t = saves' /\ Len(t) = Len(saves) /\ DOMAIN t = DOMAIN saves /\ \A j \in DOMAIN t : t[j].here = FALSE
  <2>1. PICK t : t = [i \in DOMAIN saves |-> [saves[i] EXCEPT !.here = FALSE]]
    OBVIOUS
  <2>2. t \in Seq(Saves) /\ Len(t) = Len(saves) /\ DOMAIN t = DOMAIN saves /\ \A j \in DOMAIN t : t[j].here = FALSE
    BY <1>1, <2>1, LeftTimers
  <2>3. QED
    BY <2>1, <2>2
<1>3. PageFits'
  BY <1>2 DEF PageFits, NoDialog
<1>4. TimersFit'
  <2>1. CASE saves = <<>>
    <3>1. Len(t) = 0 /\ DOMAIN t = {}
      BY <1>1, <1>2, <2>1
    <3>2. QED
      BY <1>2, <3>1 DEF TimersFit, NoDialog
  <2>2. CASE saves # <<>>
    BY <2>2 DEF TimersFit
  <2>3. QED
    BY <2>1, <2>2
<1>5. dialog' \in Dialogs /\ pageNumber' \in 1..Cardinality(ScreenUsers)
  <2>1. Cardinality(ScreenUsers) \in Nat /\ Cardinality(ScreenUsers) # 0
    BY ScreensAssumption, FS_EmptySet, FS_CardinalityType
  <2>2. QED
    BY <2>1 DEF Dialogs
<1>6. listed' \in {TheRows} \cup SUBSET (ScreenRoles \cup ScreenUsers \cup ScreenGroups)
  BY Zenon
<1>7. QED
  BY <1>1, <1>2, <1>3, <1>4, <1>5, <1>6, RowsStay

LEMMA OpenFormStep == ASSUME ScreensInv, OpenForm PROVE ScreensInv'
<1> USE DEF OpenForm
<1>1. ScreensTypeOK /\ PageFits /\ TimersFit
  BY DEF ScreensInv
<1>2. PICK x \in RowsWithButtons \cup {New} :
        dialog' = IF at = "roles" THEN FormOf("role", x, {}) ELSE FormOf("group", x, RolesThere)
  OBVIOUS
<1>3. x \in ScreenRoles \cup ScreenGroups \cup {New}
  BY <1>1, PresentType, ShownIsPresent DEF Present
<1>4. /\ dialog'.kind = (IF at = "roles" THEN "role" ELSE "group")
      /\ dialog'.known = (IF at = "roles" THEN {} ELSE RolesThere)
  BY <1>2 DEF FormOf
<1>5. dialog' \in Dialogs
  <2>1. RolesThere \in SUBSET ScreenRoles /\ {} \in SUBSET ScreenRoles
    BY DEF RolesThere
  <2>2. QED
    BY <1>2, <1>3, <2>1 DEF Dialogs, FormOf
<1>6. RolesThere' = RolesThere /\ Present' = Present
  BY SameStore
<1>7. PageFits'
  BY <1>1, <1>4, <1>6 DEF PageFits
<1>8. TimersFit'
  <2>1. SUFFICES ASSUME "left" \notin excuses' PROVE TimersFit'
    BY DEF TimersFit
  <2>2. Len(saves) = 0 /\ DOMAIN saves = {}
    BY <1>1, <2>1, NothingSaved DEF Going, NoDialog
  <2>3. QED
    BY <1>4, <1>6, <2>2 DEF TimersFit
<1>9. QED
  BY <1>1, <1>5, <1>7, <1>8, RowsStay DEF ScreensTypeOK

\* A dialog that is closed leaves only what it was saving behind.
LEMMA CloseDialogStep ==
  ASSUME ScreensInv, dialog' = NoDialog, excuses' = excuses \cup (IF Going THEN {"left"} ELSE {}),
         UNCHANGED <<rows, at, listed, pageNumber, saves>>
  PROVE  ScreensInv'
<1>1. ScreensTypeOK /\ PageFits /\ TimersFit
  BY DEF ScreensInv
<1>2. RolesThere' = RolesThere /\ Present' = Present
  BY SameStore
<1>3. PageFits'
  BY <1>1, <1>2 DEF PageFits, NoDialog
<1>4. TimersFit'
  <2>1. SUFFICES ASSUME "left" \notin excuses' PROVE TimersFit'
    BY DEF TimersFit
  <2>2. ~Going /\ "left" \notin excuses
    BY <2>1
  <2>3. \A i \in DOMAIN saves : saves[i].kind = "user"
    <3>1. \A i \in DOMAIN saves : saves[i].kind \in {"role", "group", "user"}
      <4>1. \A i \in DOMAIN saves : saves[i] \in Saves
        BY <1>1 DEF ScreensTypeOK
      <4>2. QED
        BY <4>1 DEF Saves
    <3>2. QED
      BY <1>1, <2>2, <3>1 DEF TimersFit, Going
  <2>4. QED
    BY <1>1, <1>2, <2>2, <2>3 DEF TimersFit, NoDialog
<1>5. dialog' \in Dialogs
  BY DEF Dialogs
<1>6. QED
  BY <1>1, <1>3, <1>4, <1>5, RowsStay DEF ScreensTypeOK

\* A form that is sent starts a timer of its own.
LEMMA FormSent ==
  ASSUME ScreensInv, NEW s \in Saves, StartTimer(s), s.here, ~dialog.sent,
         dialog.kind \in {"role", "group"}, s.kind = dialog.kind,
         dialog' = [dialog EXCEPT !.sent = TRUE],
         s.kind = "role" => s.parent \in RolesThere \cup {TopLevel},
         s.kind = "group" => dialog.known \subseteq s.known,
         UNCHANGED <<rows, at, listed, pageNumber, excuses>>
  PROVE  ScreensInv'
<1>1. ScreensTypeOK /\ PageFits /\ TimersFit
  BY DEF ScreensInv
<1>2. RolesThere' = RolesThere /\ Present' = Present
  BY SameStore
<1>3. /\ saves' \in Seq(Saves) /\ Len(saves') = Len(saves) + 1 /\ Len(saves') <= MaxSaves
      /\ \A i \in DOMAIN saves' : saves'[i] = s \/ (i \in DOMAIN saves /\ saves'[i] = saves[i])
  BY <1>1, StartedTimer DEF ScreensTypeOK
<1>4. /\ dialog' \in Dialogs /\ dialog'.kind = dialog.kind /\ dialog'.known = dialog.known
      /\ dialog'.of = dialog.of /\ dialog'.sent
  <2>1. /\ dialog = [kind |-> dialog.kind, of |-> dialog.of, known |-> dialog.known, sent |-> dialog.sent]
        /\ dialog.of \in ScreenRoles \cup ScreenGroups \cup {New} /\ dialog.known \in SUBSET ScreenRoles
    BY <1>1, DialogFields DEF ScreensTypeOK
  <2>2. dialog' = [kind |-> dialog.kind, of |-> dialog.of, known |-> dialog.known, sent |-> TRUE]
    BY <2>1
  <2>3. QED
    BY <2>1, <2>2 DEF Dialogs
<1>5. at = (IF dialog.kind = "role" THEN "roles" ELSE "groups")
  BY <1>1 DEF PageFits
<1>6. PageFits'
  <2>1. ASSUME NEW i \in DOMAIN saves', saves'[i].here
        PROVE  /\ saves'[i].kind = "role" => at = "roles"
               /\ saves'[i].kind = "group" => at = "groups"
               /\ saves'[i].kind = "user" => at = "form"
    <3>1. CASE saves'[i] = s
      BY <1>5, <3>1
    <3>2. CASE i \in DOMAIN saves /\ saves'[i] = saves[i]
      BY <1>1, <2>1, <3>2 DEF PageFits
    <3>3. QED
      BY <1>3, <3>1, <3>2
  <2>2. QED
    BY <1>1, <1>2, <1>4, <2>1 DEF PageFits
<1>7. TimersFit'
  <2>1. SUFFICES ASSUME "left" \notin excuses' PROVE TimersFit'
    BY DEF TimersFit
  <2>2. Len(saves) = 0 /\ DOMAIN saves = {}
    BY <1>1, <1>5, <2>1, NothingSaved DEF Going
  <2>3. Len(saves') <= 1 /\ \A i \in DOMAIN saves' : saves'[i] = s
    BY <1>3, <2>2
  <2>4. dialog.kind = "group" => RolesThere \subseteq dialog.known
    BY <1>1, <2>1 DEF TimersFit
  <2>5. QED
    BY <1>2, <1>4, <2>3, <2>4 DEF TimersFit
<1>8. QED
  BY <1>1, <1>3, <1>4, <1>6, <1>7, RowsStay DEF ScreensTypeOK

LEMMA SubmitRoleStep ==
  ASSUME ScreensInv, NEW parent \in ScreenRoles \cup {TopLevel}, SubmitRole(parent) PROVE ScreensInv'
<1> USE DEF SubmitRole
<1> DEFINE s == SaveOf("role", dialog.of, parent, {}, {})
<1>1. ScreensTypeOK /\ PageFits
  BY DEF ScreensInv
<1>2. dialog.of \in ScreenRoles \cup ScreenGroups \cup {New}
  BY <1>1, DialogFields DEF ScreensTypeOK
<1>4. s \in Saves /\ s.here /\ s.kind = "role" /\ s.parent = parent
  BY <1>2 DEF Saves, SaveOf
<1>5. parent \in RolesThere \cup {TopLevel}
  BY <1>1, ShownIsPresent DEF PageFits, Present
<1>6. StartTimer(s)
  OBVIOUS
<1> HIDE DEF s
<1>7. QED
  BY <1>4, <1>5, <1>6, FormSent

LEMMA SubmitGroupStep ==
  ASSUME ScreensInv, NEW R \in SUBSET ScreenRoles, SubmitGroup(R) PROVE ScreensInv'
<1> USE DEF SubmitGroup
<1> DEFINE s == SaveOf("group", dialog.of, TopLevel, dialog.known \cup R, R)
<1>1. ScreensTypeOK
  BY DEF ScreensInv
<1>2. dialog.of \in ScreenRoles \cup ScreenGroups \cup {New} /\ dialog.known \in SUBSET ScreenRoles
  BY <1>1, DialogFields DEF ScreensTypeOK
<1>4. s \in Saves /\ s.here /\ s.kind = "group" /\ s.known = dialog.known \cup R
  BY <1>2 DEF Saves, SaveOf
<1>5. StartTimer(s)
  OBVIOUS
<1> HIDE DEF s
<1>6. QED
  BY <1>4, <1>5, FormSent

LEMMA SubmitUserStep == ASSUME ScreensInv, SubmitUser PROVE ScreensInv'
<1> USE DEF SubmitUser
<1>1. ScreensTypeOK /\ PageFits /\ TimersFit
  BY DEF ScreensInv
<1>2. RolesThere' = RolesThere /\ Present' = Present
  BY SameStore
<1> DEFINE s == SaveOf("user", New, TopLevel, {}, {})
<1>3. s \in Saves /\ s.here /\ s.kind = "user" /\ StartTimer(s)
  BY DEF SaveOf, Saves
<1> HIDE DEF s
<1>4. /\ saves' \in Seq(Saves) /\ Len(saves') = Len(saves) + 1 /\ Len(saves') <= MaxSaves
      /\ \A i \in DOMAIN saves' : saves'[i] = s \/ (i \in DOMAIN saves /\ saves'[i] = saves[i])
  BY <1>1, <1>3, StartedTimer DEF ScreensTypeOK
<1>5. PageFits'
  <2>1. ASSUME NEW i \in DOMAIN saves', saves'[i].here
        PROVE  /\ saves'[i].kind = "role" => at = "roles"
               /\ saves'[i].kind = "group" => at = "groups"
               /\ saves'[i].kind = "user" => at = "form"
    <3>1. CASE saves'[i] = s
      BY <1>3, <3>1
    <3>2. CASE i \in DOMAIN saves /\ saves'[i] = saves[i]
      BY <1>1, <2>1, <3>2 DEF PageFits
    <3>3. QED
      BY <1>4, <3>1, <3>2
  <2>2. QED
    BY <1>1, <1>2, <2>1 DEF PageFits
<1>6. TimersFit'
  <2>1. SUFFICES ASSUME "left" \notin excuses' PROVE TimersFit'
    BY DEF TimersFit
  <2>2. ~Going
    BY <1>1 DEF Going, PageFits
  <2>3. Len(saves) = 0 /\ DOMAIN saves = {}
    BY <1>1, <2>1, <2>2, NothingSaved
  <2>4. Len(saves') <= 1 /\ \A i \in DOMAIN saves' : saves'[i] = s
    BY <1>4, <2>3
  <2>5. dialog.kind = "group" => RolesThere \subseteq dialog.known
    BY <1>1, <2>1 DEF TimersFit
  <2>6. QED
    BY <1>2, <1>3, <2>4, <2>5 DEF TimersFit
<1>7. QED
  BY <1>1, <1>4, <1>5, <1>6, RowsStay DEF ScreensTypeOK

LEMMA OpenPickerStep == ASSUME ScreensInv, OpenPicker PROVE ScreensInv'
<1> USE DEF OpenPicker
<1>1. ScreensTypeOK /\ PageFits /\ TimersFit
  BY DEF ScreensInv
<1>2. RolesThere' = RolesThere /\ Present' = Present
  BY SameStore
<1>3. PICK x \in RowsWithButtons : dialog' = PickerOf(x)
  OBVIOUS
<1>4. x \in Present /\ x \in ScreenRoles \cup ScreenUsers \cup ScreenGroups
  BY <1>1, PresentType, ShownIsPresent
<1>5. dialog' \in Dialogs /\ dialog'.kind = "delete" /\ dialog'.of = x
  BY <1>3, <1>4 DEF Dialogs, PickerOf
<1>6. PageFits'
  BY <1>1, <1>2, <1>4, <1>5 DEF PageFits
<1>7. TimersFit'
  <2>1. SUFFICES ASSUME "left" \notin excuses' PROVE TimersFit'
    BY DEF TimersFit
  <2>2. Len(saves) = 0 /\ DOMAIN saves = {}
    BY <1>1, <2>1, NothingSaved DEF Going, NoDialog
  <2>3. QED
    BY <1>2, <1>5, <2>2 DEF TimersFit
<1>8. QED
  BY <1>1, <1>5, <1>6, <1>7, RowsStay DEF ScreensTypeOK

(* The pages of the user list.                                             *)

LEMMA DivBounds ==
  ASSUME NEW a \in Nat, NEW p \in Nat \ {0}
  PROVE  /\ a \div p \in Nat /\ a = p * (a \div p) + (a % p) /\ (a % p) \in 0..(p-1)
OBVIOUS

\* As many pages as the rows fill: the last has at least one.
LEMMA PagesOf ==
  ASSUME NEW n \in Nat \ {0}, NEW p \in Nat \ {0}, NEW q, q = (n + p - 1) \div p
  PROVE  q \in 1..n /\ p * (q - 1) < n
<1>1. n + p - 1 \in Nat
  OBVIOUS
<1>2. /\ q \in Nat /\ n + p - 1 = p * q + ((n + p - 1) % p)
      /\ ((n + p - 1) % p) \in 0..(p - 1)
  BY <1>1, DivBounds
<1>9. PICK m \in Int : m = (n + p - 1) % p
  BY <1>2
<1>3. n + p - 1 = p * q + m /\ 0 <= m /\ m <= p - 1 /\ q \in Nat
  BY <1>2, <1>9
<1>4. p * (q - 1) = p * q - p /\ p * q \in Nat
  BY <1>3
<1>5. p * (q - 1) < n
  BY <1>3, <1>4
<1>6. q # 0
  <2>1. p * 0 = 0
    OBVIOUS
  <2>2. QED
    BY <1>3, <2>1
<1>7. q <= n
  <2>1. SUFFICES ASSUME n <= q - 1 PROVE FALSE
    BY <1>3
  <2>2. PICK d \in Nat : d = q - 1
    BY <1>3, <1>6
  <2>3. p * d >= 1 * d
    OBVIOUS
  <2>4. QED
    BY <1>5, <2>1, <2>2, <2>3
<1>8. QED
  BY <1>3, <1>5, <1>6, <1>7

LEMMA PagesType ==
  ASSUME ScreensTypeOK, PageFits, at = "users"
  PROVE  /\ TotalPages \in 1..Cardinality(ScreenUsers)
         /\ Shown # {} => PageSize * (TotalPages - 1) < Cardinality(Shown)
<1>1. Cardinality(ScreenUsers) \in Nat /\ Cardinality(ScreenUsers) # 0
  BY ScreensAssumption, FS_EmptySet, FS_CardinalityType
<1>2. Shown \subseteq ScreenUsers
  BY ShownIsPresent, PresentType DEF Present
<1>3. /\ IsFiniteSet(Shown) /\ Cardinality(Shown) \in Nat /\ Cardinality(Shown) <= Cardinality(ScreenUsers)
      /\ Cardinality(Shown) = 0 <=> Shown = {}
  BY <1>2, ScreensAssumption, FS_Subset, FS_CardinalityType, FS_EmptySet
<1>4. PICK n \in Nat : n = Cardinality(Shown)
  BY <1>3
<1>5. TotalPages = IF n = 0 THEN 1 ELSE (n + PageSize - 1) \div PageSize
  BY <1>4 DEF TotalPages
<1>6. CASE n = 0
  BY <1>1, <1>3, <1>4, <1>5, <1>6
<1>7. CASE n # 0
  <2>1. TotalPages \in 1..n /\ PageSize * (TotalPages - 1) < n
    BY <1>5, <1>7, PagesOf, ScreensAssumption
  <2>2. QED
    BY <1>1, <1>3, <1>4, <2>1
<1>8. QED
  BY <1>6, <1>7

LEMMA TurnPageStep == ASSUME ScreensInv, TurnPage PROVE ScreensInv'
<1> USE DEF TurnPage
<1>1. ScreensTypeOK /\ PageFits /\ TimersFit
  BY DEF ScreensInv
<1>2. RolesThere' = RolesThere /\ Present' = Present
  BY SameStore
<1>3. Cardinality(ScreenUsers) \in Nat /\ TotalPages \in 1..Cardinality(ScreenUsers)
  BY <1>1, PagesType, ScreensAssumption, FS_CardinalityType
<1>4. pageNumber \in 1..Cardinality(ScreenUsers)
  BY <1>1 DEF ScreensTypeOK
<1>5. pageNumber' \in 1..Cardinality(ScreenUsers)
  BY <1>3, <1>4 DEF CurrentPage
<1>6. PageFits' /\ TimersFit'
  BY <1>1, <1>2 DEF PageFits, TimersFit
<1>7. QED
  BY <1>1, <1>5, <1>6, RowsStay DEF ScreensTypeOK

\* The page that is shown has rows, whatever number was reached.
LEMMA ScreensShowRows == ScreensInv => RowsAreShown
<1> SUFFICES ASSUME ScreensInv PROVE RowsAreShown
  OBVIOUS
<1>1. ScreensTypeOK /\ PageFits /\ EveryLineHasRoot
  BY DEF ScreensInv
<1>2. AllRolesAreShown
  BY <1>1 DEF EveryLineHasRoot, AllRolesAreShown, InTree, Lines
<1>3. PageHasRows
  <2>1. SUFFICES ASSUME at = "users", Shown # {} PROVE PageSize * (CurrentPage - 1) < Cardinality(Shown)
    BY DEF PageHasRows
  <2>2. /\ TotalPages \in 1..Cardinality(ScreenUsers) /\ PageSize * (TotalPages - 1) < Cardinality(Shown)
        /\ pageNumber \in 1..Cardinality(ScreenUsers)
    BY <1>1, <2>1, PagesType DEF ScreensTypeOK
  <2>3. Cardinality(Shown) \in Nat
    <3>1. Shown \subseteq ScreenUsers
      BY <1>1, <2>1, ShownIsPresent, PresentType DEF Present
    <3>2. QED
      BY <3>1, ScreensAssumption, FS_Subset, FS_CardinalityType
  <2>4. PICK a \in Nat, b \in Nat, z \in Nat :
          a = CurrentPage - 1 /\ b = TotalPages - 1 /\ a <= b /\ z = PageSize
    BY <2>2, ScreensAssumption DEF CurrentPage
  <2>5. z * a <= z * b
    BY <2>4
  <2>6. z * a \in Nat /\ z * b \in Nat
    OBVIOUS
  <2>7. QED
    BY <2>2, <2>3, <2>4, <2>5, <2>6
<1>4. QED
  BY <1>2, <1>3 DEF RowsAreShown

-----------------------------------------------------------------------------
(* The tree of roles.                                                      *)

LEMMA RowsThere ==
  ASSUME ScreensTypeOK
  PROVE  /\ \A q \in RolesThere : roleRows[q] \in RoleRow
         /\ \A u \in UsersThere : userRows[u] \in UserRow /\ userRows[u].role \in RolesThere
         /\ \A q \in RoleRow : q \notin {Missing, Gone}
         /\ \A u \in UserRow : u # Gone
BY RowAssumption DEF ScreensTypeOK, RolesThere, UsersThere

\* What a step that edits rows of the tree leaves alone.
LEMMA TreeEdited ==
  ASSUME ScreensInv, at = "roles", dialog = NoDialog, RolesThere' = RolesThere, listed' = RolesThere,
         "left" \in excuses' <=> "left" \in excuses,
         UNCHANGED <<groupRows, at, dialog, pageNumber, saves>>
  PROVE  PageFits' /\ TimersFit' /\ MembersAreTyped'
<1>1. PageFits'
  BY DEF ScreensInv, PageFits, Present, NoDialog
<1>2. TimersFit'
  BY DEF ScreensInv, TimersFit, NoDialog
<1>3. MembersAreTyped'
  BY DEF ScreensInv, MembersAreTyped, GroupsThere
<1>4. QED
  BY <1>1, <1>2, <1>3

\* A role that is hung below a role that is not below it: a line that keeps to
\* the new parents and one of the new parent's without the role have a root.
LEMMA ReparentStep ==
  ASSUME ScreensInv, at = "roles", dialog = NoDialog, NEW r \in Tree, NEW t \in Tree \cup {TopLevel}, Reparent(r, t)
  PROVE  ScreensInv'
<1>1. ScreensTypeOK
  BY DEF ScreensInv
<1>2. r \in RolesThere /\ r \in ScreenRoles /\ t \in ScreenRoles \cup {TopLevel} /\ roleRows[r] \in RoleRow
  BY <1>1, RowsThere DEF Tree, RolesThere
<1>3. \/ roleRows' = roleRows
      \/ /\ ~RefusesCycle(r, t)
         /\ roleRows' \in [ScreenRoles -> RoleRow \cup {Missing, Gone}]
         /\ roleRows'[r] \in RoleRow /\ roleRows'[r].parent = t /\ roleRows'[r].twoFactor = roleRows[r].twoFactor
         /\ \A q \in ScreenRoles \ {r} : roleRows'[q] = roleRows[q]
  <2>1. CASE RefusesCycle(r, t)
    BY <2>1 DEF Reparent
  <2>2. CASE ~RefusesCycle(r, t)
    <3>1. roleRows' = [roleRows EXCEPT ![r] = [roleRows[r] EXCEPT !.parent = t]]
      BY <2>2 DEF Reparent
    <3>2. PICK row \in RoleRow :
            row = [roleRows[r] EXCEPT !.parent = t] /\ row.parent = t /\ row.twoFactor = roleRows[r].twoFactor
      <4>1. \A x \in RoleRow : LET y == [x EXCEPT !.parent = t] IN
              y \in RoleRow /\ y.parent = t /\ y.twoFactor = x.twoFactor
        BY <1>2 DEF RoleRow
      <4>2. QED
        BY <1>2, <4>1
    <3>3. roleRows' = [roleRows EXCEPT ![r] = row]
      BY <3>1, <3>2
    <3>4. QED
      BY <1>1, <1>2, <2>2, <3>2, <3>3 DEF ScreensTypeOK
  <2>3. QED
    BY <2>1, <2>2
<1>4. RolesThere' = RolesThere /\ UsersThere' = UsersThere
  BY <1>1, <1>2, <1>3, RowsThere DEF RolesThere, UsersThere, Reparent
<1>5. ScreensTypeOK'
  <2>1. listed' \in {TheRows} \cup SUBSET (ScreenRoles \cup ScreenUsers \cup ScreenGroups)
    <3>1. RolesThere \in SUBSET (ScreenRoles \cup ScreenUsers \cup ScreenGroups)
      BY DEF RolesThere
    <3>2. QED
      BY <3>1, Zenon DEF Reparent
  <2>2. roleRows' \in [ScreenRoles -> RoleRow \cup {Missing, Gone}]
    BY <1>1, <1>3 DEF ScreensTypeOK
  <2>3. QED
    BY <1>1, <1>4, <2>1, <2>2 DEF ScreensTypeOK, Reparent
<1>6. PageFits' /\ TimersFit' /\ MembersAreTyped'
  BY <1>4, TreeEdited DEF Reparent
<1>7. TwoFactorFollowsRole'
  BY <1>1, <1>3, <1>4, RowsThere DEF ScreensInv, TwoFactorFollowsRole, Reparent, RolesThere
<1>8. EveryLineHasRoot'
  <2>1. SUFFICES ASSUME excuses \cap {"left", "below"} = {}, NEW S \in SUBSET RolesThere, S # {}, UpwardClosed(S)'
                 PROVE  \E q \in S : roleRows'[q].parent = TopLevel
    BY <1>4 DEF EveryLineHasRoot, Reparent
  <2>2. \A Z \in SUBSET RolesThere :
          Z # {} /\ UpwardClosed(Z) => \E q \in Z : roleRows[q].parent = TopLevel
    BY <2>1 DEF ScreensInv, EveryLineHasRoot
  <2>3. \A q \in S : roleRows'[q].parent \in RolesThere => roleRows'[q].parent \in S
    BY <1>4, <2>1 DEF UpwardClosed
  <2>4. CASE roleRows' = roleRows
    BY <2>1, <2>2, <2>3, <2>4 DEF UpwardClosed
  <2>5. CASE roleRows' # roleRows /\ r \notin S
    <3>1. \A q \in S : roleRows'[q].parent = roleRows[q].parent
      BY <1>3, <2>5 DEF RolesThere
    <3>2. UpwardClosed(S)
      BY <2>3, <3>1 DEF UpwardClosed
    <3>3. QED
      BY <2>1, <2>2, <3>1, <3>2
  <2>6. CASE roleRows' # roleRows /\ r \in S
    <3>1. CASE t = TopLevel
      BY <1>3, <2>6, <3>1
    <3>2. CASE t # TopLevel
      <4>1. t \in RolesThere /\ t \in S
        BY <1>3, <2>3, <2>6, <3>2 DEF Tree
      <4>2. PICK L \in Lines(t) : r \notin L
        BY <1>3, <2>6, <4>1 DEF RefusesCycle, IsBelow
      <4>3. L \subseteq RolesThere /\ t \in L /\ UpwardClosed(L)
        BY <4>2 DEF Lines
      <4>4. \A q \in S \cap L : roleRows'[q].parent = roleRows[q].parent
        BY <1>3, <2>6, <4>2 DEF RolesThere
      <4>5. UpwardClosed(S \cap L)
        BY <2>3, <4>3, <4>4 DEF UpwardClosed
      <4>6. \E q \in S \cap L : roleRows[q].parent = TopLevel
        BY <2>2, <4>1, <4>3, <4>5
      <4>7. QED
        BY <4>4, <4>6
    <3>3. QED
      BY <3>1, <3>2
  <2>7. QED
    BY <2>4, <2>5, <2>6
<1>9. QED
  BY <1>5, <1>6, <1>7, <1>8 DEF ScreensInv

LEMMA SetTwoFactorStep ==
  ASSUME ScreensInv, at = "roles", dialog = NoDialog, NEW r \in Tree, NEW b \in BOOLEAN, SetTwoFactor(r, b)
  PROVE  ScreensInv'
<1>1. ScreensTypeOK
  BY DEF ScreensInv
<1>2. r \in RolesThere /\ r \in ScreenRoles /\ roleRows[r] \in RoleRow
  BY <1>1, RowsThere DEF Tree, RolesThere
<1>3. /\ roleRows' \in [ScreenRoles -> RoleRow \cup {Missing, Gone}]
      /\ roleRows'[r] \in RoleRow /\ roleRows'[r].parent = roleRows[r].parent /\ roleRows'[r].twoFactor = b
      /\ \A q \in ScreenRoles \ {r} : roleRows'[q] = roleRows[q]
  <2>1. roleRows' = [roleRows EXCEPT ![r] = [roleRows[r] EXCEPT !.twoFactor = b]]
    BY DEF SetTwoFactor
  <2>2. PICK row \in RoleRow :
          row = [roleRows[r] EXCEPT !.twoFactor = b] /\ row.parent = roleRows[r].parent /\ row.twoFactor = b
    <3>1. \A x \in RoleRow : LET y == [x EXCEPT !.twoFactor = b] IN
            y \in RoleRow /\ y.parent = x.parent /\ y.twoFactor = b
      BY DEF RoleRow
    <3>2. QED
      BY <1>2, <3>1
  <2>3. roleRows' = [roleRows EXCEPT ![r] = row]
    BY <2>1, <2>2
  <2>4. QED
    BY <1>1, <1>2, <2>2, <2>3 DEF ScreensTypeOK
<1>4. RolesThere' = RolesThere
  BY <1>1, <1>2, <1>3, RowsThere DEF RolesThere
<1>5. /\ DOMAIN userRows' = ScreenUsers
      /\ \A u \in ScreenUsers : u \notin UsersThere => userRows'[u] = Gone
      /\ \A u \in UsersThere : /\ userRows'[u] \in UserRow /\ userRows'[u].role = userRows[u].role
                               /\ userRows'[u].twoFactor = IF userRows[u].role = r THEN b ELSE userRows[u].twoFactor
  <2>1. userRows' = [u \in ScreenUsers |->
          IF u \in UsersThere /\ userRows[u].role = r
          THEN [userRows[u] EXCEPT !.twoFactor = b] ELSE userRows[u]]
    BY DEF SetTwoFactor
  <2>2. \A x \in UserRow : LET y == [x EXCEPT !.twoFactor = b] IN
          y \in UserRow /\ y.role = x.role /\ y.twoFactor = b
    BY DEF UserRow
  <2>3. \A u \in UsersThere : u \in ScreenUsers /\ userRows[u] \in UserRow
    BY <1>1, RowsThere DEF UsersThere
  <2>4. \A u \in ScreenUsers : u \notin UsersThere => userRows[u] = Gone
    BY DEF UsersThere
  <2>5. QED
    BY <2>1, <2>2, <2>3, <2>4
<1>6. UsersThere' = UsersThere
  BY <1>1, <1>5, RowsThere DEF UsersThere
<1>7. ScreensTypeOK'
  <2>1. listed' \in {TheRows} \cup SUBSET (ScreenRoles \cup ScreenUsers \cup ScreenGroups)
    <3>1. RolesThere \in SUBSET (ScreenRoles \cup ScreenUsers \cup ScreenGroups)
      BY DEF RolesThere
    <3>2. QED
      BY <3>1, Zenon DEF SetTwoFactor
  <2>2. userRows' \in [ScreenUsers -> UserRow \cup {Gone}]
    BY <1>5 DEF SetTwoFactor, UsersThere
  <2>3. \A u \in UsersThere' : userRows'[u].role \in RolesThere'
    BY <1>1, <1>4, <1>5, <1>6, RowsThere
  <2>4. QED
    BY <1>1, <1>3, <2>1, <2>2, <2>3 DEF ScreensTypeOK, SetTwoFactor
<1>8. \A x \in {"left", "below"} : x \in excuses' <=> x \in excuses
  BY ScreensAssumption DEF SetTwoFactor, UsersThere
<1>9. PageFits' /\ TimersFit' /\ MembersAreTyped'
  BY <1>4, <1>8, TreeEdited DEF SetTwoFactor
<1>10. TwoFactorFollowsRole'
  <2>1. SUFFICES ASSUME NEW u \in UsersThere, u \notin excuses'
                 PROVE  userRows'[u].twoFactor = roleRows'[userRows'[u].role].twoFactor
    BY <1>6 DEF TwoFactorFollowsRole
  <2>2. CASE userRows[u].role = r
    BY <1>3, <1>5, <2>2
  <2>3. CASE userRows[u].role # r
    <3>1. u \notin excuses
      BY <2>1, <2>3 DEF SetTwoFactor
    <3>2. userRows[u].role \in ScreenRoles \ {r}
      BY <1>1, <2>3, RowsThere DEF RolesThere
    <3>3. QED
      BY <1>3, <1>5, <2>3, <3>1, <3>2 DEF ScreensInv, TwoFactorFollowsRole
  <2>4. QED
    BY <2>2, <2>3
<1>11. EveryLineHasRoot'
  <2>1. \A q \in RolesThere : roleRows'[q].parent = roleRows[q].parent
    BY <1>3 DEF RolesThere
  <2>2. \A S \in SUBSET RolesThere : UpwardClosed(S)' => UpwardClosed(S)
    BY <1>4, <2>1 DEF UpwardClosed
  <2>3. QED
    BY <1>4, <1>8, <2>1, <2>2 DEF ScreensInv, EveryLineHasRoot
<1>12. QED
  BY <1>7, <1>9, <1>10, <1>11 DEF ScreensInv

LEMMA UseTreeStep == ASSUME ScreensInv, UseTree PROVE ScreensInv'
BY ReparentStep, SetTwoFactorStep DEF UseTree

\* The users that are changed take the flag of their new role.
LEMMA MassUpdateStep ==
  ASSUME ScreensInv, NEW S \in SUBSET ScreenUsers, NEW r \in ScreenRoles, MassUpdate(S, r) PROVE ScreensInv'
<1> USE DEF MassUpdate
<1>1. ScreensTypeOK
  BY DEF ScreensInv
<1>2. RolesThere' = RolesThere /\ GroupsThere' = GroupsThere
  BY DEF RolesThere, GroupsThere
<1>3. /\ userRows' \in [ScreenUsers -> UserRow \cup {Gone}]
      /\ \A u \in S : userRows'[u].role = r /\ userRows'[u].twoFactor = roleRows[r].twoFactor /\ userRows'[u] \in UserRow
      /\ \A u \in ScreenUsers \ S : userRows'[u] = userRows[u]
  <2>1. roleRows[r] \in RoleRow
    BY <1>1, RowsThere
  <2>2. PICK row \in UserRow : row = [role |-> r, twoFactor |-> roleRows[r].twoFactor]
                               /\ row.role = r /\ row.twoFactor = roleRows[r].twoFactor
    BY <2>1 DEF RoleRow, UserRow
  <2>3. userRows' = [u \in ScreenUsers |-> IF u \in S THEN row ELSE userRows[u]]
    BY <2>2
  <2>4. QED
    BY <1>1, <2>2, <2>3 DEF ScreensTypeOK
<1>4. UsersThere' = UsersThere
  BY <1>1, <1>3, RowsThere DEF UsersThere
<1>5. Present' = Present
  BY <1>2, <1>4 DEF Present
<1>6. ScreensTypeOK'
  <2>1. \A u \in UsersThere' : userRows'[u].role \in RolesThere'
    BY <1>1, <1>2, <1>3, <1>4, RowsThere DEF UsersThere
  <2>2. QED
    BY <1>1, <1>3, <2>1 DEF ScreensTypeOK
<1>7. \A x \in {"left", "below"} : x \in excuses' <=> x \in excuses
  BY ScreensAssumption
<1>8. PageFits' /\ TimersFit' /\ MembersAreTyped'
  BY <1>2, <1>5, <1>7 DEF ScreensInv, PageFits, TimersFit, MembersAreTyped
<1>9. TwoFactorFollowsRole'
  <2>1. SUFFICES ASSUME NEW u \in UsersThere, u \notin excuses'
                 PROVE  userRows'[u].twoFactor = roleRows[userRows'[u].role].twoFactor
    BY <1>4 DEF TwoFactorFollowsRole
  <2>2. CASE u \in S
    BY <1>3, <2>2
  <2>3. CASE u \notin S
    BY <1>3, <2>1, <2>3 DEF ScreensInv, TwoFactorFollowsRole, UsersThere
  <2>4. QED
    BY <2>2, <2>3
<1>10. EveryLineHasRoot'
  <2>1. \A Z : UpwardClosed(Z)' <=> UpwardClosed(Z)
    BY <1>2 DEF UpwardClosed
  <2>2. QED
    BY <1>2, <1>7, <2>1 DEF ScreensInv, EveryLineHasRoot
<1>11. QED
  BY <1>6, <1>8, <1>9, <1>10 DEF ScreensInv

-----------------------------------------------------------------------------
(* The timers.                                                             *)

\* While no form is left that is being saved, the timer that ends is the last.
LEMMA TimersAfter ==
  ASSUME ScreensInv, NEW i \in DOMAIN saves
  PROVE  /\ saves[i] \in Saves /\ Ended(i) \in Seq(Saves) /\ Len(Ended(i)) = Len(saves) - 1
         /\ Len(Ended(i)) <= MaxSaves
         /\ \A j \in DOMAIN Ended(i) : \E k \in DOMAIN saves : Ended(i)[j] = saves[k]
         /\ Len(saves) <= 1 => Len(Ended(i)) = 0 /\ DOMAIN Ended(i) = {}
         /\ "left" \notin excuses => Len(saves) <= 1
<1>1. saves \in Seq(Saves) /\ Len(saves) <= MaxSaves
  BY DEF ScreensInv, ScreensTypeOK
<1>2. Len(saves) \in Nat /\ Len(saves) >= 1 /\ saves[i] \in Saves
  BY <1>1
<1>3. PICK e \in Seq(Saves) : e = Ended(i) /\ Len(e) = Len(saves) - 1
  BY <1>1, EndedTimers
<1>4. Len(e) <= MaxSaves
  BY <1>1, <1>2, <1>3, ScreensAssumption
<1>5. Len(saves) <= 1 => Len(e) = 0 /\ DOMAIN e = {}
  BY <1>2, <1>3
<1>6. QED
  BY <1>1, <1>2, <1>3, <1>4, <1>5, EndedTimers DEF ScreensInv, TimersFit

\* A form that is saved refreshes its page and closes its dialog, if it is there.
LEMMA SavedFits ==
  ASSUME ScreensInv, NEW i \in DOMAIN saves, saves[i].kind \in {"role", "group"},
         NEW present \in SUBSET (ScreenRoles \cup ScreenUsers \cup ScreenGroups),
         saves[i].here => present = Present', Present \subseteq Present',
         SavedOn(saves[i], present), saves' = Ended(i), UNCHANGED <<at, excuses>>
  PROVE  /\ PageFits' /\ TimersFit' /\ dialog' \in Dialogs
         /\ saves' \in Seq(Saves) /\ Len(saves') <= MaxSaves
         /\ listed' \in {TheRows} \cup SUBSET (ScreenRoles \cup ScreenUsers \cup ScreenGroups)
<1>1. ScreensTypeOK /\ PageFits /\ TimersFit
  BY DEF ScreensInv
<1>2. /\ saves' \in Seq(Saves) /\ Len(saves') <= MaxSaves
      /\ \A j \in DOMAIN saves' : \E k \in DOMAIN saves : saves'[j] = saves[k]
      /\ "left" \notin excuses => Len(saves') = 0 /\ DOMAIN saves' = {}
  BY TimersAfter
<1>3. /\ listed' = IF saves[i].here THEN present ELSE listed
      /\ dialog' = IF saves[i].here /\ dialog.kind = saves[i].kind THEN NoDialog ELSE dialog
  BY DEF SavedOn
<1>4. dialog' \in Dialogs
  BY <1>1, <1>3 DEF ScreensTypeOK, Dialogs
<1>5. listed' \in {TheRows} \cup SUBSET (ScreenRoles \cup ScreenUsers \cup ScreenGroups)
  <2>1. CASE saves[i].here
    BY <1>3, <2>1, Zenon
  <2>2. CASE ~saves[i].here
    BY <1>1, <1>3, <2>2 DEF ScreensTypeOK
  <2>3. QED
    BY <2>1, <2>2
<1>6. PageFits'
  <2>1. listed' # TheRows => listed' \subseteq Present'
    BY <1>1, <1>3 DEF PageFits
  <2>2. /\ dialog'.kind = "role" => at = "roles"
        /\ dialog'.kind = "group" => at = "groups"
        /\ dialog'.kind = "delete" => dialog'.of \in Present'
    BY <1>1, <1>3 DEF PageFits, NoDialog
  <2>3. \A j \in DOMAIN saves' : saves'[j].here =>
          /\ saves'[j].kind = "role" => at = "roles"
          /\ saves'[j].kind = "group" => at = "groups"
          /\ saves'[j].kind = "user" => at = "form"
    BY <1>1, <1>2 DEF PageFits
  <2>4. QED
    BY <2>1, <2>2, <2>3 DEF PageFits
<1>7. TimersFit'
  <2>1. SUFFICES ASSUME "left" \notin excuses PROVE TimersFit'
    BY DEF TimersFit
  <2>2. saves[i].here /\ dialog.kind = saves[i].kind
    BY <1>1, <2>1 DEF TimersFit
  <2>3. dialog' = NoDialog
    BY <1>3, <2>2
  <2>4. QED
    BY <1>2, <2>1, <2>3 DEF TimersFit, NoDialog
<1>8. QED
  BY <1>2, <1>4, <1>5, <1>6, <1>7

\* A role that is created hangs from a root or a role that is there, and has no
\* children: a line without it has a root, and so has one that is the role only.
LEMMA RoleSavedStep == ASSUME ScreensInv, NEW i \in DOMAIN saves, RoleSaved(i) PROVE ScreensInv'
<1> USE DEF RoleSaved
<1>1. ScreensTypeOK /\ PageFits /\ TimersFit
  BY DEF ScreensInv
<1>2. saves[i] \in Saves /\ saves[i].kind = "role"
  BY TimersAfter
<1>3. PICK N \in SUBSET ScreenRoles :
        /\ N \cap RolesThere = {} /\ \A x, y \in N : x = y
        /\ roleRows' \in [ScreenRoles -> RoleRow \cup {Missing, Gone}]
        /\ \A q \in N : roleRows'[q] \in RoleRow /\ roleRows'[q].parent = saves[i].parent
        /\ \A q \in ScreenRoles \ N : roleRows'[q] = roleRows[q]
  <2>1. CASE saves[i].of = New
    <3>1. PICK r \in ScreenRoles : roleRows[r] = Missing /\
               roleRows' = [roleRows EXCEPT ![r] = [parent |-> saves[i].parent, twoFactor |-> FALSE]]
      BY <2>1
    <3>2. PICK row \in RoleRow : row = [parent |-> saves[i].parent, twoFactor |-> FALSE] /\ row.parent = saves[i].parent
      <4>1. [parent |-> saves[i].parent, twoFactor |-> FALSE] \in RoleRow
        BY <1>2 DEF Saves, RoleRow
      <4>2. QED
        BY <4>1
    <3>3. roleRows' = [roleRows EXCEPT ![r] = row]
      BY <3>1, <3>2
    <3>4. r \notin RolesThere
      BY <3>1 DEF RolesThere
    <3>5. WITNESS {r} \in SUBSET ScreenRoles
    <3>6. QED
      BY <1>1, <3>2, <3>3, <3>4 DEF ScreensTypeOK
  <2>2. CASE saves[i].of # New
    <3>1. roleRows' = roleRows
      BY <2>2
    <3>2. WITNESS {} \in SUBSET ScreenRoles
    <3>3. QED
      BY <1>1, <3>1 DEF ScreensTypeOK
  <2>3. QED
    BY <2>1, <2>2
<1>4. RolesThere' = RolesThere \cup N /\ UsersThere' = UsersThere /\ GroupsThere' = GroupsThere
  <2>1. \A q \in RolesThere \cup N : roleRows'[q] \notin {Missing, Gone} /\ q \in ScreenRoles
    BY <1>1, <1>3, RowsThere DEF RolesThere
  <2>2. \A q \in ScreenRoles : roleRows'[q] \notin {Missing, Gone} => q \in RolesThere \cup N
    BY <1>3 DEF RolesThere
  <2>3. QED
    BY <2>1, <2>2 DEF RolesThere, UsersThere, GroupsThere
<1>5. Present \subseteq Present' /\ (saves[i].here => RolesThere' = Present')
  BY <1>1, <1>2, <1>4 DEF Present, PageFits
<1>6. RolesThere' = {r \in ScreenRoles : roleRows'[r] \notin {Missing, Gone}}
  BY DEF RolesThere
<1>7. /\ PageFits' /\ TimersFit' /\ dialog' \in Dialogs
      /\ saves' \in Seq(Saves) /\ Len(saves') <= MaxSaves
      /\ listed' \in {TheRows} \cup SUBSET (ScreenRoles \cup ScreenUsers \cup ScreenGroups)
  <2>1. PICK P \in SUBSET (ScreenRoles \cup ScreenUsers \cup ScreenGroups) : P = RolesThere'
    BY <1>6
  <2>2. SavedOn(saves[i], P)
    BY <1>6, <2>1
  <2>3. QED
    BY <1>2, <1>5, <2>1, <2>2, SavedFits
<1>8. ScreensTypeOK'
  <2>1. \A u \in UsersThere' : userRows'[u].role \in RolesThere'
    BY <1>1, <1>4, RowsThere
  <2>2. QED
    BY <1>1, <1>3, <1>7, <2>1 DEF ScreensTypeOK
<1>9. MembersAreTyped'
  BY <1>4 DEF ScreensInv, MembersAreTyped
<1>10. TwoFactorFollowsRole'
  <2>1. \A q \in RolesThere : roleRows'[q] = roleRows[q]
    BY <1>3 DEF RolesThere
  <2>2. QED
    BY <1>1, <1>4, <2>1, RowsThere DEF ScreensInv, TwoFactorFollowsRole
<1>11. EveryLineHasRoot'
  <2>1. SUFFICES ASSUME excuses \cap {"left", "below"} = {}, NEW S \in SUBSET (RolesThere \cup N), S # {}, UpwardClosed(S)'
                 PROVE  \E q \in S : roleRows'[q].parent = TopLevel
    BY <1>4 DEF EveryLineHasRoot
  <2>2. \A Z \in SUBSET RolesThere :
          Z # {} /\ UpwardClosed(Z) => \E q \in Z : roleRows[q].parent = TopLevel
    BY <2>1 DEF ScreensInv, EveryLineHasRoot
  <2>3. \A q \in S : roleRows'[q].parent \in RolesThere => roleRows'[q].parent \in S
    BY <1>4, <2>1 DEF UpwardClosed
  <2>4. \A q \in RolesThere : roleRows'[q] = roleRows[q] /\ q \notin N
    BY <1>3 DEF RolesThere
  <2>5. CASE S \ N # {}
    <3>1. S \ N \in SUBSET RolesThere /\ UpwardClosed(S \ N)
      BY <2>1, <2>3, <2>4 DEF UpwardClosed
    <3>2. QED
      BY <2>2, <2>4, <2>5, <3>1
  <2>6. CASE S \ N = {}
    <3>1. PICK q \in S : q \in N
      BY <2>1, <2>6
    <3>2. saves[i].parent \in RolesThere \cup {TopLevel}
      BY <1>1, <1>2, <2>1 DEF TimersFit
    <3>3. roleRows'[q].parent = saves[i].parent
      BY <1>3, <3>1
    <3>4. QED
      BY <2>3, <2>4, <2>6, <3>1, <3>2, <3>3
  <2>7. QED
    BY <2>5, <2>6
<1>12. QED
  BY <1>7, <1>8, <1>9, <1>10, <1>11 DEF ScreensInv

\* The form knows the roles that are there: the members that it adds are typed.
LEMMA GroupSavedStep == ASSUME ScreensInv, NEW i \in DOMAIN saves, GroupSaved(i) PROVE ScreensInv'
<1> USE DEF GroupSaved
<1>1. ScreensTypeOK /\ PageFits /\ TimersFit
  BY DEF ScreensInv
<1>2. saves[i] \in Saves /\ saves[i].kind = "group"
  BY TimersAfter
<1>3. /\ MembersOf(saves[i]) \in SUBSET Member
      /\ "left" \notin excuses => \A m \in MembersOf(saves[i]) : m.typed
  <2>1. PICK R \in SUBSET RolesThere : R = {q \in RolesThere : q \in saves[i].known => q \in saves[i].chosen}
    OBVIOUS
  <2>2. PICK M : M = MembersOf(saves[i]) /\ M = {[id |-> r, typed |-> r \in saves[i].known] : r \in R}
    BY <2>1 DEF MembersOf
  <2>3. \A m \in M : \E r \in R : m = [id |-> r, typed |-> r \in saves[i].known]
    BY <2>2, Zenon
  <2>4. \A m \in M : m \in Member
    <3>1. ASSUME NEW r \in R, NEW b \in BOOLEAN PROVE [id |-> r, typed |-> b] \in Member
      BY <2>1 DEF Member, RolesThere
    <3>2. \A r \in R : (r \in saves[i].known) \in BOOLEAN
      OBVIOUS
    <3>3. QED
      BY <2>3, <3>1, <3>2, Zenon
  <2>5. ASSUME "left" \notin excuses, NEW m \in M PROVE m.typed
    <3>1. RolesThere \subseteq saves[i].known
      BY <1>1, <1>2, <2>5 DEF TimersFit
    <3>2. PICK r \in R : m = [id |-> r, typed |-> r \in saves[i].known]
      BY <2>3, <2>5
    <3>3. m.typed <=> r \in saves[i].known
      BY <3>2, Zenon
    <3>4. QED
      BY <2>1, <3>1, <3>2, <3>3
  <2>6. QED
    BY <2>2, <2>4, <2>5
<1>4. /\ groupRows' \in [ScreenGroups -> {Missing, Gone} \cup SUBSET Member]
      /\ \A g \in ScreenGroups : groupRows'[g] = groupRows[g] \/ groupRows'[g] = MembersOf(saves[i])
  <2>1. CASE saves[i].of = New
    <3>1. PICK g \in ScreenGroups : groupRows[g] = Missing /\ groupRows' = [groupRows EXCEPT ![g] = MembersOf(saves[i])]
      BY <2>1
    <3>2. \A h \in ScreenGroups : groupRows'[h] = IF h = g THEN MembersOf(saves[i]) ELSE groupRows[h]
      BY <1>1, <3>1 DEF ScreensTypeOK
    <3>3. groupRows' \in [ScreenGroups -> {Missing, Gone} \cup SUBSET Member]
      BY <1>1, <1>3, <3>1 DEF ScreensTypeOK
    <3>4. groupRows[g] \in {Missing, Gone} \cup SUBSET Member
      BY <1>1 DEF ScreensTypeOK
    <3>5. QED
      BY <3>1, <3>2, <3>3
  <2>2. CASE saves[i].of # New
    <3>1. groupRows' = [groupRows EXCEPT ![saves[i].of] =
            IF groupRows[saves[i].of] = Gone THEN groupRows[saves[i].of] ELSE MembersOf(saves[i])]
      BY <2>2
    <3>2. \A h \in ScreenGroups : groupRows'[h] =
            IF h = saves[i].of /\ groupRows[h] # Gone THEN MembersOf(saves[i]) ELSE groupRows[h]
      BY <1>1, <3>1 DEF ScreensTypeOK
    <3>3. DOMAIN groupRows' = ScreenGroups /\ groupRows' = [h \in ScreenGroups |-> groupRows'[h]]
      BY <1>1, <3>1 DEF ScreensTypeOK
    <3>4. \A h \in ScreenGroups : groupRows'[h] \in {Missing, Gone} \cup SUBSET Member
      BY <1>1, <1>3, <3>2 DEF ScreensTypeOK
    <3>5. groupRows' \in [ScreenGroups -> {Missing, Gone} \cup SUBSET Member]
      BY <3>3, <3>4
    <3>6. QED
      BY <3>2, <3>5
  <2>3. QED
    BY <2>1, <2>2
<1>5. RolesThere' = RolesThere /\ UsersThere' = UsersThere /\ GroupsThere \subseteq GroupsThere'
  <2>1. MembersOf(saves[i]) \notin {Missing, Gone}
    BY <1>3, RowAssumption
  <2>2. QED
    BY <1>4, <2>1 DEF RolesThere, UsersThere, GroupsThere
<1>6. Present \subseteq Present' /\ (saves[i].here => GroupsThere' = Present')
  BY <1>1, <1>2, <1>5 DEF Present, PageFits
<1>7. GroupsThere' = {g \in ScreenGroups : groupRows'[g] \notin {Missing, Gone}}
  BY DEF GroupsThere
<1>8. /\ PageFits' /\ TimersFit' /\ dialog' \in Dialogs
      /\ saves' \in Seq(Saves) /\ Len(saves') <= MaxSaves
      /\ listed' \in {TheRows} \cup SUBSET (ScreenRoles \cup ScreenUsers \cup ScreenGroups)
  <2>1. PICK P \in SUBSET (ScreenRoles \cup ScreenUsers \cup ScreenGroups) : P = GroupsThere'
    BY <1>7
  <2>2. SavedOn(saves[i], P)
    BY <1>7, <2>1
  <2>3. QED
    BY <1>2, <1>6, <2>1, <2>2, SavedFits
<1>9. ScreensTypeOK'
  BY <1>1, <1>4, <1>5, <1>8 DEF ScreensTypeOK
<1>10. MembersAreTyped'
  <2>1. SUFFICES ASSUME "left" \notin excuses, NEW g \in GroupsThere', NEW m \in groupRows'[g] PROVE m.typed
    BY DEF MembersAreTyped
  <2>2. g \in ScreenGroups
    BY DEF GroupsThere
  <2>3. CASE groupRows'[g] = groupRows[g]
    BY <2>1, <2>2, <2>3 DEF ScreensInv, MembersAreTyped, GroupsThere
  <2>4. CASE groupRows'[g] = MembersOf(saves[i])
    BY <1>3, <2>1, <2>4
  <2>5. QED
    BY <1>4, <2>2, <2>3, <2>4
<1>11. TwoFactorFollowsRole'
  BY <1>5 DEF ScreensInv, TwoFactorFollowsRole
<1>12. EveryLineHasRoot'
  <2>1. \A Z : UpwardClosed(Z)' <=> UpwardClosed(Z)
    BY <1>5 DEF UpwardClosed
  <2>2. QED
    BY <1>5, <2>1 DEF ScreensInv, EveryLineHasRoot
<1>13. QED
  BY <1>8, <1>9, <1>10, <1>11, <1>12 DEF ScreensInv

LEMMA UserSavedStep == ASSUME ScreensInv, NEW i \in DOMAIN saves, UserSaved(i) PROVE ScreensInv'
<1> USE DEF UserSaved
<1>1. ScreensTypeOK /\ PageFits /\ TimersFit
  BY DEF ScreensInv
<1>2. PICK e \in Seq(Saves) : e = Ended(i) /\ Len(e) <= MaxSaves /\ (Len(saves) <= 1 => Len(e) = 0 /\ DOMAIN e = {})
  BY TimersAfter
<1>3. PICK t \in Seq(Saves) : t = saves' /\ Len(t) = Len(e) /\ DOMAIN t = DOMAIN e /\ \A j \in DOMAIN t : t[j].here = FALSE
  <2>1. PICK t : t = saves' /\ t = [j \in DOMAIN e |-> [e[j] EXCEPT !.here = FALSE]]
    BY <1>2
  <2>2. t \in Seq(Saves) /\ Len(t) = Len(e) /\ DOMAIN t = DOMAIN e /\ \A j \in DOMAIN t : t[j].here = FALSE
    BY <1>2, <2>1, LeftTimers
  <2>3. QED
    BY <2>1, <2>2
<1>4. PageFits'
  BY <1>3 DEF PageFits, NoDialog
<1>5. TimersFit'
  <2>1. SUFFICES ASSUME "left" \notin excuses' PROVE TimersFit'
    BY DEF TimersFit
  <2>2. Len(saves) <= 1
    BY <1>1, <2>1 DEF TimersFit
  <2>3. QED
    BY <1>2, <1>3, <2>2 DEF TimersFit, NoDialog
<1>6. dialog' \in Dialogs /\ at' \in Screens /\ pageNumber' \in 1..Cardinality(ScreenUsers)
  <2>1. Cardinality(ScreenUsers) \in Nat /\ Cardinality(ScreenUsers) # 0
    BY ScreensAssumption, FS_EmptySet, FS_CardinalityType
  <2>2. QED
    BY <2>1 DEF Dialogs, Screens
<1>7. listed' \in {TheRows} \cup SUBSET (ScreenRoles \cup ScreenUsers \cup ScreenGroups)
  BY Zenon
<1>8. QED
  BY <1>1, <1>2, <1>3, <1>4, <1>5, <1>6, <1>7, RowsStay DEF ScreensTypeOK

-----------------------------------------------------------------------------
(* Deletion.                                                               *)

\* A page on which a row is deleted saves nothing, if no form was left.
LEMMA PickerIsAlone ==
  ASSUME ScreensInv, dialog.kind = "delete", at # "form", "left" \notin excuses
  PROVE  Len(saves) = 0 /\ DOMAIN saves = {}
BY NothingSaved DEF ScreensInv, Going

LEMMA ConfirmUserStep == ASSUME ScreensInv, NEW t, ConfirmUser(t) PROVE ScreensInv'
<1> USE DEF ConfirmUser, IsConfirmed
<1>1. ScreensTypeOK /\ PageFits /\ TimersFit
  BY DEF ScreensInv
<1> DEFINE d == dialog.of
<1>2. Present = UsersThere /\ d \in UsersThere /\ d \in ScreenUsers
  BY <1>1 DEF PageFits, Present, UsersThere
<1> HIDE DEF d
<1>3. userRows' = [userRows EXCEPT ![d] = Gone] /\ excuses' = excuses \ {d} /\ dialog' = NoDialog
  BY DEF d
<1>4. /\ userRows' \in [ScreenUsers -> UserRow \cup {Gone}]
      /\ \A u \in ScreenUsers : userRows'[u] = IF u = d THEN Gone ELSE userRows[u]
  BY <1>1, <1>2, <1>3 DEF ScreensTypeOK
<1>5. RolesThere' = RolesThere /\ GroupsThere' = GroupsThere /\ UsersThere' = UsersThere \ {d}
  BY <1>4 DEF RolesThere, GroupsThere, UsersThere
<1>6. Present' = UsersThere'
  BY DEF Present
<1>7. listed' = TheRows \/ listed' = Shown \ {d}
  BY DEF d
<1>8. Shown \ {d} \subseteq UsersThere'
  BY <1>1, <1>2, <1>5, ShownIsPresent
<1>9. ScreensTypeOK'
  <2>1. listed' \in {TheRows} \cup SUBSET (ScreenRoles \cup ScreenUsers \cup ScreenGroups)
    <3>1. Shown \ {d} \in SUBSET (ScreenRoles \cup ScreenUsers \cup ScreenGroups)
      BY <1>1, PresentType
    <3>2. QED
      BY <1>7, <3>1, Zenon
  <2>2. \A u \in UsersThere' : userRows'[u].role \in RolesThere'
    BY <1>1, <1>4, <1>5 DEF ScreensTypeOK, UsersThere
  <2>3. dialog' \in Dialogs /\ at' \in Screens
    BY DEF Dialogs, Screens
  <2>4. QED
    BY <1>1, <1>3, <1>4, <2>1, <2>2, <2>3 DEF ScreensTypeOK
<1>10. PageFits'
  <2>1. listed' # TheRows => listed' \subseteq Present'
    BY <1>6, <1>7, <1>8
  <2>2. \A i \in DOMAIN saves : ~saves[i].here
    <3>1. ASSUME NEW i \in DOMAIN saves, saves[i].here PROVE FALSE
      <4>1. saves[i] \in Saves
        BY <1>1 DEF ScreensTypeOK
      <4>2. saves[i].kind \in {"role", "group", "user"}
        BY <4>1 DEF Saves
      <4>3. QED
        BY <1>1, <3>1, <4>2 DEF PageFits
    <3>2. QED
      BY <3>1
  <2>3. QED
    BY <2>1, <2>2 DEF PageFits, NoDialog
<1>11. TimersFit'
  <2>1. SUFFICES ASSUME "left" \notin excuses' PROVE TimersFit'
    BY DEF TimersFit
  <2>2. "left" \notin excuses
    BY <1>2, <1>3, <2>1, ScreensAssumption
  <2>3. Len(saves) = 0 /\ DOMAIN saves = {}
    BY <2>2, PickerIsAlone
  <2>4. QED
    BY <2>3 DEF TimersFit, NoDialog
<1>12. TwoFactorFollowsRole' /\ MembersAreTyped'
  <2>1. TwoFactorFollowsRole'
    BY <1>3, <1>4, <1>5 DEF ScreensInv, TwoFactorFollowsRole, UsersThere
  <2>2. MembersAreTyped'
    BY <1>2, <1>3, <1>5, ScreensAssumption DEF ScreensInv, MembersAreTyped
  <2>3. QED
    BY <2>1, <2>2
<1>13. EveryLineHasRoot'
  <2>1. \A x \in {"left", "below"} : x \in excuses' <=> x \in excuses
    BY <1>2, <1>3, ScreensAssumption
  <2>2. \A Z : UpwardClosed(Z)' <=> UpwardClosed(Z)
    BY <1>5 DEF UpwardClosed
  <2>3. QED
    BY <1>5, <2>1, <2>2 DEF ScreensInv, EveryLineHasRoot
<1>14. QED
  BY <1>9, <1>10, <1>11, <1>12, <1>13 DEF ScreensInv

\* A role is removed in favour of one that is not below it: a line that keeps to
\* the new parents and one of the target's without the role have a root.
LEMMA ConfirmRoleStep == ASSUME ScreensInv, NEW t, ConfirmRole(t) PROVE ScreensInv'
<1>1. ScreensTypeOK /\ PageFits /\ TimersFit
  BY DEF ScreensInv
<1>2. PICK r : r = dialog.of
  OBVIOUS
<1>3. /\ r \in RolesThere /\ r \in ScreenRoles /\ t \in RolesThere \ {r} /\ t \in ScreenRoles
      /\ Present' = RolesThere'
  BY <1>1, <1>2, ShownIsPresent DEF PageFits, Present, RolesThere, ConfirmRole, IsConfirmed
<1>4. /\ userRows' = [u \in ScreenUsers |->
            IF u \in UsersThere /\ userRows[u].role = r THEN [userRows[u] EXCEPT !.role = t] ELSE userRows[u]]
      /\ roleRows' = [q \in ScreenRoles |->
            CASE q = r -> Gone
              [] q \in RolesThere \ {r} /\ roleRows[q].parent = r -> [roleRows[q] EXCEPT !.parent = t]
              [] OTHER -> roleRows[q]]
      /\ listed' = RolesThere \ {r}
      /\ dialog.kind = "delete" /\ at = "roles" /\ dialog' = NoDialog
      /\ groupRows' = groupRows /\ at' = at /\ pageNumber' = pageNumber /\ saves' = saves
      /\ excuses' = (excuses \cup {u \in UsersThere : userRows[u].role = r})
                            \cup (IF IsBelow(t, r) THEN {"below"} ELSE {})
  BY <1>2 DEF ConfirmRole, IsConfirmed
<1>5. /\ DOMAIN roleRows' = ScreenRoles /\ roleRows'[r] = Gone
      /\ \A q \in ScreenRoles : q \notin RolesThere => roleRows'[q] = roleRows[q]
      /\ \A q \in RolesThere \ {r} :
            /\ roleRows'[q] \in RoleRow /\ roleRows'[q].twoFactor = roleRows[q].twoFactor
            /\ roleRows'[q].parent = IF roleRows[q].parent = r THEN t ELSE roleRows[q].parent
  <2>1. \A x \in RoleRow : LET y == [x EXCEPT !.parent = t] IN
          y \in RoleRow /\ y.parent = t /\ y.twoFactor = x.twoFactor
    BY <1>3 DEF RoleRow
  <2>2. \A q \in RolesThere \ {r} : roleRows[q] \in RoleRow /\ q \in ScreenRoles
    BY <1>1, RowsThere DEF RolesThere
  <2>3. DOMAIN roleRows' = ScreenRoles /\ roleRows'[r] = Gone
    BY <1>3, <1>4
  <2>4. \A q \in ScreenRoles : q \notin RolesThere => roleRows'[q] = roleRows[q]
    BY <1>3, <1>4
  <2>5. \A q \in RolesThere \ {r} :
          roleRows'[q] = IF roleRows[q].parent = r THEN [roleRows[q] EXCEPT !.parent = t] ELSE roleRows[q]
    BY <1>4, <2>2
  <2>6. ASSUME NEW q \in RolesThere \ {r}
        PROVE  /\ roleRows'[q] \in RoleRow /\ roleRows'[q].twoFactor = roleRows[q].twoFactor
               /\ roleRows'[q].parent = IF roleRows[q].parent = r THEN t ELSE roleRows[q].parent
    <3>1. roleRows[q] \in RoleRow
      BY <2>2
    <3>2. CASE roleRows[q].parent = r
      BY <2>1, <2>5, <3>1, <3>2
    <3>3. CASE roleRows[q].parent # r
      BY <2>5, <3>1, <3>3
    <3>4. QED
      BY <3>2, <3>3
  <2>7. QED
    BY <2>3, <2>4, <2>6
<1>6. /\ DOMAIN userRows' = ScreenUsers
      /\ \A u \in ScreenUsers : u \notin UsersThere => userRows'[u] = Gone
      /\ \A u \in UsersThere : /\ userRows'[u] \in UserRow /\ userRows'[u].twoFactor = userRows[u].twoFactor
                               /\ userRows'[u].role = IF userRows[u].role = r THEN t ELSE userRows[u].role
  <2>1. \A x \in UserRow : LET y == [x EXCEPT !.role = t] IN
          y \in UserRow /\ y.role = t /\ y.twoFactor = x.twoFactor
    BY <1>3 DEF UserRow
  <2>2. \A u \in UsersThere : u \in ScreenUsers /\ userRows[u] \in UserRow
    BY <1>1, RowsThere DEF UsersThere
  <2>3. \A u \in ScreenUsers : u \notin UsersThere => userRows[u] = Gone
    BY DEF UsersThere
  <2>4. DOMAIN userRows' = ScreenUsers /\ \A u \in ScreenUsers : u \notin UsersThere => userRows'[u] = Gone
    BY <1>4, <2>3
  <2>5. \A u \in UsersThere :
          userRows'[u] = IF userRows[u].role = r THEN [userRows[u] EXCEPT !.role = t] ELSE userRows[u]
    BY <1>4, <2>2
  <2>6. ASSUME NEW u \in UsersThere
        PROVE  /\ userRows'[u] \in UserRow /\ userRows'[u].twoFactor = userRows[u].twoFactor
               /\ userRows'[u].role = IF userRows[u].role = r THEN t ELSE userRows[u].role
    <3>1. userRows[u] \in UserRow
      BY <2>2
    <3>2. CASE userRows[u].role = r
      BY <2>1, <2>5, <3>1, <3>2
    <3>3. CASE userRows[u].role # r
      BY <2>5, <3>1, <3>3
    <3>4. QED
      BY <3>2, <3>3
  <2>7. QED
    BY <2>4, <2>6
<1>7. RolesThere' = RolesThere \ {r} /\ UsersThere' = UsersThere /\ GroupsThere' = GroupsThere
  <2>1. RolesThere' = RolesThere \ {r}
    BY <1>1, <1>5, RowsThere DEF RolesThere
  <2>2. UsersThere' = UsersThere
    BY <1>1, <1>6, RowsThere DEF UsersThere
  <2>3. QED
    BY <1>4, <2>1, <2>2 DEF GroupsThere
<1>8. ScreensTypeOK'
  <2>1. listed' \in {TheRows} \cup SUBSET (ScreenRoles \cup ScreenUsers \cup ScreenGroups)
    <3>1. RolesThere \ {r} \in SUBSET (ScreenRoles \cup ScreenUsers \cup ScreenGroups)
      BY DEF RolesThere
    <3>2. QED
      BY <1>4, <3>1, Zenon
  <2>2. \A u \in UsersThere' : userRows'[u].role \in RolesThere'
    <3>1. SUFFICES ASSUME NEW u \in UsersThere PROVE userRows'[u].role \in RolesThere \ {r}
      BY <1>7
    <3>2. userRows[u].role \in RolesThere
      BY <1>1, RowsThere
    <3>3. QED
      BY <1>3, <1>6, <3>2
  <2>3. userRows' \in [ScreenUsers -> UserRow \cup {Gone}]
    <3>1. userRows' = [u \in ScreenUsers |-> userRows'[u]]
      BY <1>4
    <3>2. \A u \in ScreenUsers : userRows'[u] \in UserRow \cup {Gone}
      BY <1>6
    <3>3. QED
      BY <3>1, <3>2
  <2>4. roleRows' \in [ScreenRoles -> RoleRow \cup {Missing, Gone}]
    <3>1. roleRows' = [q \in ScreenRoles |-> roleRows'[q]]
      BY <1>4
    <3>2. \A q \in ScreenRoles : roleRows'[q] \in RoleRow \cup {Missing, Gone}
      BY <1>5 DEF RolesThere
    <3>3. QED
      BY <3>1, <3>2
  <2>5. dialog' \in Dialogs /\ excuses' \subseteq {"left", "below"} \cup ScreenUsers
    BY <1>1, <1>4 DEF Dialogs, ScreensTypeOK, UsersThere
  <2>6. QED
    BY <1>1, <1>4, <2>1, <2>2, <2>3, <2>4, <2>5 DEF ScreensTypeOK
<1>9. PageFits'
  BY <1>1, <1>3, <1>4, <1>7 DEF PageFits, NoDialog
<1>10. "left" \in excuses' <=> "left" \in excuses
  BY <1>4, ScreensAssumption DEF UsersThere
<1>11. TimersFit'
  <2>1. SUFFICES ASSUME "left" \notin excuses' PROVE TimersFit'
    BY DEF TimersFit
  <2>2. Len(saves) = 0 /\ DOMAIN saves = {}
    BY <1>4, <1>10, <2>1, PickerIsAlone
  <2>3. QED
    BY <1>4, <2>2 DEF TimersFit, NoDialog
<1>12. MembersAreTyped'
  BY <1>4, <1>7, <1>10 DEF ScreensInv, MembersAreTyped
<1>13. TwoFactorFollowsRole'
  <2>1. SUFFICES ASSUME NEW u \in UsersThere, u \notin excuses'
                 PROVE  userRows'[u].twoFactor = roleRows'[userRows'[u].role].twoFactor
    BY <1>7 DEF TwoFactorFollowsRole
  <2>2. u \notin excuses /\ userRows[u].role \in RolesThere \ {r}
    BY <1>1, <1>4, <2>1, RowsThere
  <2>3. userRows'[u].role = userRows[u].role /\ userRows'[u].twoFactor = userRows[u].twoFactor
    BY <1>6, <2>2
  <2>4. userRows[u].twoFactor = roleRows[userRows[u].role].twoFactor
    BY <2>2 DEF ScreensInv, TwoFactorFollowsRole
  <2>5. roleRows'[userRows[u].role].twoFactor = roleRows[userRows[u].role].twoFactor
    BY <1>5, <2>2
  <2>6. QED
    BY <2>3, <2>4, <2>5
<1>14. EveryLineHasRoot'
  <2>1. SUFFICES ASSUME excuses' \cap {"left", "below"} = {}, NEW S \in SUBSET (RolesThere \ {r}), S # {}, UpwardClosed(S)'
                 PROVE  \E q \in S : roleRows'[q].parent = TopLevel
    BY <1>7 DEF EveryLineHasRoot
  <2>2. excuses \cap {"left", "below"} = {} /\ ~IsBelow(t, r)
    BY <1>4, <2>1
  <2>3. \A Z \in SUBSET RolesThere :
          Z # {} /\ UpwardClosed(Z) => \E q \in Z : roleRows[q].parent = TopLevel
    BY <2>2 DEF ScreensInv, EveryLineHasRoot
  <2>4. \A q \in S : roleRows'[q].parent \in RolesThere \ {r} => roleRows'[q].parent \in S
    BY <1>7, <2>1 DEF UpwardClosed
  <2>5. CASE \A q \in S : roleRows[q].parent # r
    <3>1. \A q \in S : roleRows'[q].parent = roleRows[q].parent
      BY <1>5, <2>5
    <3>2. UpwardClosed(S)
      BY <2>4, <2>5, <3>1 DEF UpwardClosed
    <3>3. QED
      BY <2>1, <2>3, <3>1, <3>2
  <2>6. CASE \E q \in S : roleRows[q].parent = r
    <3>1. t \in S
      <4>1. PICK q \in S : roleRows[q].parent = r
        BY <2>6
      <4>2. roleRows'[q].parent = t
        BY <1>5, <2>1, <4>1
      <4>3. QED
        BY <1>3, <2>4, <4>2
    <3>2. PICK L \in Lines(t) : r \notin L
      BY <1>3, <2>2 DEF IsBelow
    <3>3. L \subseteq RolesThere /\ t \in L /\ UpwardClosed(L)
      BY <3>2 DEF Lines
    <3>4. \A q \in S \cap L : roleRows[q].parent # r /\ roleRows'[q].parent = roleRows[q].parent
      BY <1>3, <1>5, <3>2, <3>3 DEF UpwardClosed
    <3>5. UpwardClosed(S \cap L)
      BY <2>4, <3>3, <3>4 DEF UpwardClosed
    <3>6. \E q \in S \cap L : roleRows[q].parent = TopLevel
      BY <2>3, <3>1, <3>3, <3>5
    <3>7. QED
      BY <3>4, <3>6
  <2>7. QED
    BY <2>5, <2>6
<1>15. QED
  BY <1>8, <1>9, <1>11, <1>12, <1>13, <1>14 DEF ScreensInv

LEMMA ConfirmGroupStep == ASSUME ScreensInv, NEW t, ConfirmGroup(t) PROVE ScreensInv'
<1> USE DEF ConfirmGroup, IsConfirmed
<1>1. ScreensTypeOK /\ PageFits /\ TimersFit
  BY DEF ScreensInv
<1>2. PICK d : d = dialog.of /\ d \in GroupsThere /\ d \in ScreenGroups
  BY <1>1 DEF PageFits, Present, GroupsThere
<1>3. groupRows' = [groupRows EXCEPT ![d] = Gone] /\ listed' = GroupsThere \ {d}
  BY <1>2
<1>4. /\ groupRows' \in [ScreenGroups -> {Missing, Gone} \cup SUBSET Member]
      /\ \A g \in ScreenGroups : groupRows'[g] = IF g = d THEN Gone ELSE groupRows[g]
  BY <1>1, <1>2, <1>3 DEF ScreensTypeOK
<1>5. RolesThere' = RolesThere /\ UsersThere' = UsersThere /\ GroupsThere' = GroupsThere \ {d}
  BY <1>4 DEF RolesThere, GroupsThere, UsersThere
<1>6. Present' = GroupsThere'
  BY DEF Present
<1>7. ScreensTypeOK'
  <2>1. listed' \in {TheRows} \cup SUBSET (ScreenRoles \cup ScreenUsers \cup ScreenGroups)
    <3>1. GroupsThere \ {d} \in SUBSET (ScreenRoles \cup ScreenUsers \cup ScreenGroups)
      BY DEF GroupsThere
    <3>2. QED
      BY <1>3, <3>1, Zenon
  <2>2. dialog' \in Dialogs
    BY DEF Dialogs
  <2>3. QED
    BY <1>1, <1>4, <1>5, <2>1, <2>2 DEF ScreensTypeOK
<1>8. PageFits'
  BY <1>1, <1>3, <1>5, <1>6 DEF PageFits, NoDialog
<1>9. TimersFit'
  <2>1. SUFFICES ASSUME "left" \notin excuses PROVE TimersFit'
    BY DEF TimersFit
  <2>2. Len(saves) = 0 /\ DOMAIN saves = {}
    BY <2>1, PickerIsAlone
  <2>3. QED
    BY <2>2 DEF TimersFit, NoDialog
<1>10. MembersAreTyped' /\ TwoFactorFollowsRole'
  BY <1>4, <1>5 DEF ScreensInv, MembersAreTyped, TwoFactorFollowsRole, GroupsThere
<1>11. EveryLineHasRoot'
  <2>1. \A Z : UpwardClosed(Z)' <=> UpwardClosed(Z)
    BY <1>5 DEF UpwardClosed
  <2>2. QED
    BY <1>5, <2>1 DEF ScreensInv, EveryLineHasRoot
<1>12. QED
  BY <1>7, <1>8, <1>9, <1>10, <1>11 DEF ScreensInv

-----------------------------------------------------------------------------
LEMMA NextScreens == ScreensInv /\ [ScreensNext]_screenVars => ScreensInv'
<1> SUFFICES ASSUME ScreensInv, [ScreensNext]_screenVars PROVE ScreensInv'
  OBVIOUS
<1>1. CASE UseTree
  BY <1>1, UseTreeStep
<1>2. CASE OpenForm \/ OpenPicker
  BY <1>2, OpenFormStep, OpenPickerStep
<1>3. CASE DismissForm
  BY <1>3, CloseDialogStep DEF DismissForm
<1>4. CASE ClosePicker
  <2>1. ~Going
    BY <1>4 DEF ClosePicker, Going
  <2>2. QED
    BY <1>4, <2>1, CloseDialogStep DEF ClosePicker
<1>5. CASE SubmitUser \/ TurnPage
  BY <1>5, SubmitUserStep, TurnPageStep
<1>6. CASE \E S \in SUBSET ScreenUsers, r \in ScreenRoles : MassUpdate(S, r)
  BY <1>6, MassUpdateStep
<1>7. CASE \E p \in Screens : Navigate(p)
  BY <1>7, NavigateStep
<1>8. CASE \E p \in ScreenRoles \cup {TopLevel} : SubmitRole(p)
  BY <1>8, SubmitRoleStep
<1>9. CASE \E R \in SUBSET ScreenRoles : SubmitGroup(R)
  BY <1>9, SubmitGroupStep
<1>10. CASE \E i \in DOMAIN saves : RoleSaved(i) \/ GroupSaved(i) \/ UserSaved(i)
  BY <1>10, RoleSavedStep, GroupSavedStep, UserSavedStep
<1>11. CASE \E x \in Shown : ConfirmUser(x) \/ ConfirmRole(x) \/ ConfirmGroup(x)
  BY <1>11, ConfirmUserStep, ConfirmRoleStep, ConfirmGroupStep
<1>12. CASE UNCHANGED screenVars
  BY <1>12 DEF screenVars, ScreensInv, ScreensTypeOK, PageFits, TimersFit, EveryLineHasRoot,
     TwoFactorFollowsRole, MembersAreTyped, RolesThere, UsersThere, GroupsThere, Present, UpwardClosed
<1>13. QED
  BY <1>1, <1>2, <1>3, <1>4, <1>5, <1>6, <1>7, <1>8, <1>9, <1>10, <1>11, <1>12 DEF ScreensNext

LEMMA ScreensInvariant == ScreensSpec => []ScreensInv
BY InitScreens, NextScreens, PTL DEF ScreensSpec

\* RoleTree, removeRole, UsersListPage: whatever is dragged, created, removed and
\* turned, for any roles, users and page size, every role is in the tree that is
\* shown, but after a removal in favour of a role below or a form left while it
\* is saved, and the user list shows a page with rows when there are any.
THEOREM RowsAreAlwaysShown == ScreensSpec => []RowsAreShown
BY ScreensShowRows, ScreensInvariant, PTL

\* users.ts, GroupFormDialog: for any roles, users, groups and number of timers,
\* the copies of the two-factor flag are those of the roles until a removal
\* carries a user over, and the members of groups have the type they were chosen
\* with, but after a form is left while it is saved.
THEOREM RowsAlwaysAgree == ScreensSpec => [](ScreensTypeOK /\ RowsAgree)
<1>1. ScreensInv => ScreensTypeOK /\ RowsAgree
  BY DEF ScreensInv, RowsAgree
<1>2. QED
  BY <1>1, ScreensInvariant, PTL

-----------------------------------------------------------------------------
(* The service and the screens together.                                   *)

\* They share no state: a behaviour of the instance that is checked is one of
\* each, so that what is proved of a part holds there too.
LEMMA PartsAreApart == MCSpec => UomSpec /\ ScreensSpec
<1>1. MCInit => UomInit /\ ScreensInit
  BY DEF MCInit
<1>2. [MCNext]_<<uomVars, screenVars, part>> => [UomNext]_uomVars /\ [ScreensNext]_screenVars
  BY DEF MCNext
<1>. QED
  BY <1>1, <1>2, PTL DEF MCSpec, UomSpec, ScreensSpec

\* Every variable of the two keeps its type, whatever is called and clicked, for any
\* Types, rates, calls, rows and timers.
THEOREM GroupsAndScreensTyping == MCSpec => []GroupsAndScreensTypeOK
<1>1. UomSpec => []UomTypeOK
  BY FactorHistoryIsConsistent, PTL
<1>2. ScreensSpec => []ScreensTypeOK
  BY RowsAlwaysAgree, PTL
<1>3. UomTypeOK /\ ScreensTypeOK => GroupsAndScreensTypeOK
  BY DEF GroupsAndScreensTypeOK
<1>. QED
  BY <1>1, <1>2, <1>3, PartsAreApart, PTL
=============================================================================
