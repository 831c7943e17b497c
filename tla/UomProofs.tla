------------------------------ MODULE UomProofs ------------------------------
(***************************************************************************)
(* What Units of Measure refer to, and their pages, for any rows, calls    *)
(* and texts.                                                              *)
(*   1. The rows that name each other: what a removal leaves behind.       *)
(*   2. A page that lists rows: what it shows when its loads are over.     *)
(*   3. Filter: what it returns, by induction on the length of a sequence. *)
(*   4. The form for a Group: what a save sends.                           *)
(*   5. The dialog for imports: what its report says.                      *)
(***************************************************************************)
EXTENDS MCUomScreens, FiniteSetTheorems, SequenceTheorems, FunctionTheorems, TLAPS

-----------------------------------------------------------------------------
(* What Types and Groups refer to (UomReferences).                         *)

Removing(s, x) == slot[s].op = "remove" /\ slot[s].of = x

\* What a save holds is live and not being removed, what a removal has counted
\* is still zero, unless the two crossed; a row that was never written refers
\* to no Category.
ReferenceInv(x) ==
    /\ \A s \in Slots : HoldsResolved(s, x) =>
          row[x] = "live" /\ \A q \in Slots : ~Removing(q, x)
    /\ \A q \in Slots : Removing(q, x) =>
          \A what \in CountsFor(x) \ slot[q].left : References(x, what) = {}
    /\ row[x] = "deleted" => \A what \in CountsFor(x) : References(x, what) = {}

ReferencesInv ==
    /\ ReferencesTypeOK
    /\ \A r \in Referrers : row[r] = "absent" => category[r] = NoCategory
    /\ \A x \in Targets \ crossed : ReferenceInv(x)

LEMMA SlotCall ==
  ASSUME ReferencesTypeOK, NEW s \in Slots
  PROVE  /\ slot[s].op = "save" =>
              /\ slot[s] \in SaveCall /\ slot[s].of \in RowsOfUom
              /\ slot[s].cat \in Categories \cup {Unsent}
              /\ slot[s].roles \in (SUBSET FunctionalRoles) \cup {Unsent}
         /\ slot[s].op = "remove" => slot[s] \in RemoveCall /\ slot[s].of \in RowsOfUom
         /\ slot[s].op \notin {"save", "remove"} => slot[s] = NoCall
BY DEF ReferencesTypeOK, NoCall, SaveCall, RemoveCall

LEMMA Referred ==
  ASSUME NEW s, NEW y
  PROVE  /\ y \in RefersTo(s) <=>
              /\ slot[s].op = "save"
              /\ \/ slot[s].cat # Unsent /\ y = slot[s].cat
                 \/ slot[s].roles # Unsent /\ y \in slot[s].roles
         /\ (y \in RefersTo(s))' <=>
              /\ slot'[s].op = "save"
              /\ \/ slot'[s].cat # Unsent /\ y = slot'[s].cat
                 \/ slot'[s].roles # Unsent /\ y \in slot'[s].roles
<1>1. slot[s].cat = Unsent \/ slot[s].cat # Unsent
  OBVIOUS
<1>2. QED
  BY <1>1 DEF RefersTo

\* A step that neither writes a row nor resolves or begins a call, and may count.
LEMMA ReferenceFrame ==
  ASSUME ReferencesInv, UNCHANGED <<row, category, assigned>>,
         slot' \in [Slots -> {NoCall} \cup SaveCall \cup RemoveCall],
         crossed' \subseteq Targets, crossed \subseteq crossed',
         \A x \in Targets \ crossed' : \A s \in Slots :
            /\ HoldsResolved(s, x)' =>
                  /\ row[x] = "live"
                  /\ \A q \in Slots : ~Removing(q, x)'
            /\ Removing(s, x)' => \A what \in CountsFor(x) \ slot'[s].left : References(x, what) = {}
  PROVE  ReferencesInv'
<1>1. ReferencesTypeOK' /\ \A r \in Referrers : row'[r] = "absent" => category'[r] = NoCategory
  BY DEF ReferencesInv, ReferencesTypeOK
<1>2. \A x, what : References(x, what)' = References(x, what)
  BY DEF References
<1>3. ASSUME NEW x \in Targets \ crossed' PROVE ReferenceInv(x)'
  <2>1. ReferenceInv(x)
    BY DEF ReferencesInv
  <2>2. QED
    BY <1>2, <2>1 DEF ReferenceInv
<1>4. QED
  BY <1>1, <1>3 DEF ReferencesInv

LEMMA ReferencesInvInit == ReferencesInit => ReferencesInv
<1> SUFFICES ASSUME ReferencesInit PROVE ReferencesInv
  OBVIOUS
<1>1. ReferencesTypeOK
  BY DEF ReferencesInit, ReferencesTypeOK
<1>2. \A s \in Slots : slot[s].op = "none"
  BY DEF ReferencesInit, NoCall
<1>3. \A x \in Targets : row[x] # "deleted"
  BY DEF ReferencesInit, RowsOfUom
<1>4. \A x \in Targets : ReferenceInv(x)
  BY <1>2, <1>3 DEF ReferenceInv, HoldsResolved, Removing
<1>5. QED
  BY <1>1, <1>4 DEF ReferencesInit, ReferencesInv

LEMMA CountsAreNamed ==
  ASSUME NEW x
  PROVE  /\ CountsFor(x) \subseteq {"types", "groups", "assignments"}
         /\ References(x, "types") = {t \in UomTypes : row[t] = "live" /\ category[t] = x}
         /\ References(x, "groups") = {g \in UomSets : row[g] = "live" /\ category[g] = x}
         /\ References(x, "assignments") = {g \in UomSets : x \in assigned[g]}
BY DEF CountsFor, References

LEMMA BeginSaveReferences ==
  ASSUME ReferencesInv, NEW s \in Slots, NEW x \in RowsOfUom,
         NEW cat \in Categories \cup {Unsent},
         NEW held \in (SUBSET FunctionalRoles) \cup {Unsent}, BeginReferenceSave(s, x, cat, held)
  PROVE  ReferencesInv'
<1> DEFINE call == [op |-> "save", of |-> x, cat |-> cat, roles |-> held, resolved |-> x \in Targets]
<1>1. /\ ReferencesTypeOK /\ slot[s] = NoCall /\ slot' = [slot EXCEPT ![s] = call]
      /\ UNCHANGED <<row, category, assigned, crossed>>
      /\ x \in Targets => cat = Unsent
      /\ x \notin UomSets => held = Unsent
  BY DEF ReferencesInv, BeginReferenceSave
<1>2. call \in SaveCall
  BY DEF SaveCall
<1>3. slot' \in [Slots -> {NoCall} \cup SaveCall \cup RemoveCall]
  BY <1>1, <1>2 DEF ReferencesTypeOK
<1>4. /\ \A q \in Slots \ {s} : slot'[q] = slot[q]
      /\ slot'[s] = call
  BY <1>1 DEF ReferencesTypeOK
<1>5. \A y \in Targets : ~HoldsResolved(s, y)'
  <2> SUFFICES ASSUME NEW y \in Targets, (y \in RefersTo(s))', slot'[s].resolved
               PROVE  FALSE
    BY DEF HoldsResolved
  <2>1. x \in Targets
    <3>1. PICK c : c = call
      OBVIOUS
    <3>2. c = [op |-> "save", of |-> x, cat |-> cat, roles |-> held, resolved |-> x \in Targets]
      BY <3>1
    <3> HIDE DEF call
    <3>3. slot'[s] = c
      BY <1>4, <3>1
    <3>4. c.resolved
      BY <3>3
    <3>5. QED
      BY <3>2, <3>4
  <2>2. cat = Unsent /\ held = Unsent
    BY <1>1, <2>1, ReferencesAssumption DEF Referrers
  <2>3. QED
    BY <1>4, <2>2, Referred
<1>6. \A y \in Targets \ crossed, q \in Slots :
         /\ HoldsResolved(q, y)' => HoldsResolved(q, y)
         /\ Removing(q, y)' => Removing(q, y) /\ slot'[q] = slot[q]
  BY <1>4, <1>5 DEF HoldsResolved, RefersTo, Removing
<1>7. \A y \in Targets \ crossed : ReferenceInv(y)
  BY DEF ReferencesInv
<1>8. QED
  BY <1>1, <1>3, <1>6, <1>7, ReferenceFrame DEF ReferenceInv, ReferencesTypeOK

LEMMA ResolveKeepsReferences ==
  ASSUME ReferencesInv, NEW s \in Slots, ResolveReferences(s)
  PROVE  ReferencesInv'
<1>1. /\ ReferencesTypeOK /\ slot[s].op = "save" /\ slot' = [slot EXCEPT ![s].resolved = TRUE]
      /\ \A y \in RefersTo(s) : row[y] = "live"
      /\ crossed' = crossed \cup {y \in RefersTo(s) : \E q \in Slots : Removing(q, y)}
      /\ UNCHANGED <<row, category, assigned>>
  BY DEF ReferencesInv, ResolveReferences, Removing
<1>2. slot[s] \in SaveCall
  BY <1>1, SlotCall
<1> DEFINE call == [slot[s] EXCEPT !.resolved = TRUE]
<1>3. /\ call \in SaveCall /\ call.op = "save"
      /\ call.cat = slot[s].cat /\ call.roles = slot[s].roles
  BY <1>1, <1>2 DEF SaveCall
<1>4. slot' = [slot EXCEPT ![s] = call]
  BY <1>1
<1> HIDE DEF call
<1>5. /\ slot' \in [Slots -> {NoCall} \cup SaveCall \cup RemoveCall]
      /\ \A q \in Slots \ {s} : slot'[q] = slot[q]
      /\ slot'[s] = call
  BY <1>1, <1>3, <1>4 DEF ReferencesTypeOK
<1>6. RefersTo(s) \subseteq Targets
  <2>1. /\ slot[s].cat \in Categories \cup {Unsent}
        /\ slot[s].roles \in (SUBSET FunctionalRoles) \cup {Unsent}
    BY <1>1, SlotCall
  <2>2. ASSUME NEW y \in RefersTo(s)
        PROVE  \/ slot[s].cat # Unsent /\ y = slot[s].cat
               \/ slot[s].roles # Unsent /\ y \in slot[s].roles
    BY <2>2, Referred
  <2>3. ASSUME NEW y \in RefersTo(s) PROVE y \in Targets
    BY <2>1, <2>2, <2>3 DEF Targets
  <2>4. QED
    BY <2>3
<1>7. crossed' \subseteq Targets /\ crossed \subseteq crossed'
  BY <1>1, <1>6 DEF ReferencesTypeOK
<1>8. \A y \in Targets, q \in Slots :
         /\ HoldsResolved(q, y)' => HoldsResolved(q, y) \/ (q = s /\ y \in RefersTo(s))
         /\ Removing(q, y)' => Removing(q, y) /\ slot'[q] = slot[q]
  <2> SUFFICES ASSUME NEW y \in Targets, NEW q \in Slots
               PROVE  /\ HoldsResolved(q, y)' => HoldsResolved(q, y) \/ (q = s /\ y \in RefersTo(s))
                      /\ Removing(q, y)' => Removing(q, y) /\ slot'[q] = slot[q]
    OBVIOUS
  <2>1. (y \in RefersTo(q))' => y \in RefersTo(q)
    <3>1. slot'[q].op = slot[q].op /\ slot'[q].cat = slot[q].cat /\ slot'[q].roles = slot[q].roles
      BY <1>1, <1>3, <1>5
    <3>2. QED
      BY <3>1, Referred
  <2>2. q # s => slot'[q] = slot[q]
    BY <1>5
  <2>3. Removing(s, y)' => FALSE
    BY <1>3, <1>5 DEF Removing
  <2>4. Removing(q, y)' => Removing(q, y) /\ slot'[q] = slot[q]
    BY <2>2, <2>3 DEF Removing
  <2>5. q # s => (HoldsResolved(q, y)' => HoldsResolved(q, y))
    BY <2>1, <2>2 DEF HoldsResolved
  <2>6. q = s => (HoldsResolved(q, y)' => y \in RefersTo(s))
    BY <2>1 DEF HoldsResolved
  <2>7. QED
    BY <2>4, <2>5, <2>6
<1>9. \A y \in Targets \ crossed : ReferenceInv(y)
  BY DEF ReferencesInv
<1>10. \A y \in Targets \ crossed' : y \in RefersTo(s) => \A q \in Slots : ~Removing(q, y)
  BY <1>1
<1>11. \A y \in Targets \ crossed' : \A q \in Slots :
          /\ HoldsResolved(q, y)' => row[y] = "live" /\ \A r \in Slots : ~Removing(r, y)'
          /\ Removing(q, y)' =>
                \A what \in CountsFor(y) \ slot'[q].left : References(y, what) = {}
  BY <1>1, <1>7, <1>8, <1>9, <1>10 DEF ReferenceInv
<1>12. QED
  BY <1>1, <1>5, <1>7, <1>11, ReferenceFrame

LEMMA BeginRemovalReferences ==
  ASSUME ReferencesInv, NEW s \in Slots, NEW x \in RowsOfUom, BeginReferenceRemoval(s, x)
  PROVE  ReferencesInv'
<1> DEFINE call == [op |-> "remove", of |-> x, left |-> CountsFor(x)]
<1>1. /\ ReferencesTypeOK /\ slot[s] = NoCall /\ slot' = [slot EXCEPT ![s] = call]
      /\ crossed' = IF x \in Targets /\ \E q \in Slots : HoldsResolved(q, x)
                    THEN crossed \cup {x} ELSE crossed
      /\ UNCHANGED <<row, category, assigned>>
  BY DEF ReferencesInv, BeginReferenceRemoval
<1>2. call \in RemoveCall /\ call.op = "remove" /\ call.of = x /\ call.left = CountsFor(x)
  BY CountsAreNamed DEF RemoveCall
<1> HIDE DEF call
<1>3. /\ slot' \in [Slots -> {NoCall} \cup SaveCall \cup RemoveCall]
      /\ \A q \in Slots \ {s} : slot'[q] = slot[q]
      /\ slot'[s] = call
  BY <1>1, <1>2 DEF ReferencesTypeOK
<1>4. crossed' \subseteq Targets /\ crossed \subseteq crossed'
  BY <1>1 DEF ReferencesTypeOK
<1>5. \A y \in Targets, q \in Slots :
         /\ HoldsResolved(q, y)' => HoldsResolved(q, y)
         /\ Removing(q, y)' => \/ Removing(q, y) /\ slot'[q] = slot[q]
                               \/ y = x /\ slot'[q].left = CountsFor(x)
  BY <1>2, <1>3 DEF HoldsResolved, RefersTo, Removing
<1>6. \A y \in Targets \ crossed : ReferenceInv(y)
  BY DEF ReferencesInv
<1>7. x \in Targets \ crossed' => \A q \in Slots : ~HoldsResolved(q, x)
  BY <1>1
<1>8. \A y \in Targets \ crossed' : \A q \in Slots :
          /\ HoldsResolved(q, y)' => row[y] = "live" /\ \A r \in Slots : ~Removing(r, y)'
          /\ Removing(q, y)' =>
                \A what \in CountsFor(y) \ slot'[q].left : References(y, what) = {}
  BY <1>4, <1>5, <1>6, <1>7 DEF ReferenceInv
<1>9. QED
  BY <1>1, <1>3, <1>4, <1>8, ReferenceFrame

LEMMA CountKeepsReferences ==
  ASSUME ReferencesInv, NEW s \in Slots, NEW what, CountReferences(s, what)
  PROVE  ReferencesInv'
<1>1. /\ ReferencesTypeOK /\ slot[s].op = "remove"
      /\ References(slot[s].of, what) = {}
      /\ slot' = [slot EXCEPT ![s].left = slot[s].left \ {what}]
      /\ UNCHANGED <<row, category, assigned, crossed>>
  BY DEF ReferencesInv, CountReferences
<1>2. slot[s] \in RemoveCall
  BY <1>1, SlotCall
<1> DEFINE call == [slot[s] EXCEPT !.left = slot[s].left \ {what}]
<1>3. /\ call \in RemoveCall /\ call.op = "remove"
      /\ call.of = slot[s].of /\ call.left = slot[s].left \ {what}
  BY <1>1, <1>2 DEF RemoveCall
<1>4. slot' = [slot EXCEPT ![s] = call]
  BY <1>1
<1> HIDE DEF call
<1>5. /\ slot' \in [Slots -> {NoCall} \cup SaveCall \cup RemoveCall]
      /\ \A q \in Slots \ {s} : slot'[q] = slot[q]
      /\ slot'[s] = call
  BY <1>1, <1>3, <1>4 DEF ReferencesTypeOK
<1>6. \A y \in Targets, q \in Slots :
         /\ HoldsResolved(q, y)' => HoldsResolved(q, y)
         /\ Removing(q, y)' => /\ Removing(q, y)
                               /\ \/ slot'[q].left = slot[q].left
                                  \/ /\ slot'[q].left = slot[q].left \ {what}
                                     /\ References(y, what) = {}
  BY <1>1, <1>3, <1>5 DEF HoldsResolved, RefersTo, Removing
<1>7. \A y \in Targets \ crossed : ReferenceInv(y)
  BY DEF ReferencesInv
<1>8. \A y \in Targets \ crossed' : \A q \in Slots :
          /\ HoldsResolved(q, y)' => row[y] = "live" /\ \A r \in Slots : ~Removing(r, y)'
          /\ Removing(q, y)' =>
                \A w \in CountsFor(y) \ slot'[q].left : References(y, w) = {}
  BY <1>1, <1>6, <1>7 DEF ReferenceInv
<1>9. QED
  BY <1>1, <1>5, <1>8, ReferenceFrame DEF ReferencesTypeOK

LEMMA EndWithErrorReferences ==
  ASSUME ReferencesInv, NEW s \in Slots, EndWithError(s)
  PROVE  ReferencesInv'
<1>1. /\ ReferencesTypeOK /\ slot' = [slot EXCEPT ![s] = NoCall]
      /\ UNCHANGED <<row, category, assigned, crossed>>
  BY DEF ReferencesInv, EndWithError
<1>2. slot' \in [Slots -> {NoCall} \cup SaveCall \cup RemoveCall]
  BY <1>1 DEF ReferencesTypeOK
<1>3. \A y \in Targets, q \in Slots :
         /\ HoldsResolved(q, y)' => HoldsResolved(q, y)
         /\ Removing(q, y)' => Removing(q, y) /\ slot'[q] = slot[q]
  BY <1>1 DEF ReferencesTypeOK, HoldsResolved, RefersTo, Removing, NoCall
<1>4. \A y \in Targets \ crossed : ReferenceInv(y)
  BY DEF ReferencesInv
<1>5. QED
  BY <1>1, <1>2, <1>3, <1>4, ReferenceFrame DEF ReferenceInv, ReferencesTypeOK

\* A call that writes rows and ends: what it does to a target x that no save and
\* removal crossed.
LEMMA WritingStep ==
  ASSUME ReferencesInv, NEW s \in Slots, slot' = [slot EXCEPT ![s] = NoCall], UNCHANGED crossed,
         NEW x \in Targets, x \notin crossed,
         row[x] = "live" /\ ~Removing(s, x) => row'[x] = "live",
         row'[x] = "deleted" =>
            row[x] = "deleted" \/ \A what \in CountsFor(x) : References(x, what) = {},
         ~HoldsResolved(s, x) =>
            \A what \in CountsFor(x) : References(x, what)' \subseteq References(x, what),
         HoldsResolved(s, x) => row'[x] # "deleted"
  PROVE  ReferenceInv(x)'
<1>1. ReferenceInv(x) /\ ReferencesTypeOK
  BY DEF ReferencesInv
<1>2. ASSUME NEW q \in Slots
      PROVE  /\ HoldsResolved(q, x)' => HoldsResolved(q, x)
             /\ Removing(q, x)' => Removing(q, x) /\ slot'[q] = slot[q]
  BY <1>1 DEF ReferencesTypeOK, HoldsResolved, RefersTo, Removing, NoCall
<1>3. ASSUME NEW q \in Slots, HoldsResolved(q, x)'
      PROVE  row'[x] = "live" /\ \A r \in Slots : ~Removing(r, x)'
  BY <1>1, <1>2, <1>3 DEF ReferenceInv
<1>4. ASSUME NEW q \in Slots, Removing(q, x)', NEW what \in CountsFor(x) \ slot'[q].left
      PROVE  References(x, what)' = {}
  <2>1. Removing(q, x) /\ slot'[q].left = slot[q].left
    BY <1>2, <1>4
  <2>2. ~HoldsResolved(s, x) /\ References(x, what) = {}
    BY <1>1, <1>4, <2>1 DEF ReferenceInv
  <2>3. QED
    BY <2>2
<1>5. ASSUME row'[x] = "deleted", NEW what \in CountsFor(x)
      PROVE  References(x, what)' = {}
  <2>1. ~HoldsResolved(s, x)
    BY <1>5
  <2>2. References(x, what) = {}
    BY <1>1, <1>5 DEF ReferenceInv
  <2>3. QED
    BY <2>1, <2>2
<1>6. QED
  BY <1>3, <1>4, <1>5 DEF ReferenceInv

LEMMA WriteKeepsReferences ==
  ASSUME ReferencesInv, NEW s \in Slots, WriteReferences(s)
  PROVE  ReferencesInv'
<1> DEFINE z == slot[s].of
<1>1. /\ ReferencesTypeOK /\ slot[s].op = "save" /\ slot[s].resolved
      /\ row' = [row EXCEPT ![z] = IF row[z] = "absent" THEN "live" ELSE row[z]]
      /\ category' = IF slot[s].cat = Unsent THEN category
                     ELSE [category EXCEPT ![z] = slot[s].cat]
      /\ assigned' = IF slot[s].roles = Unsent THEN assigned
                     ELSE [assigned EXCEPT ![z] = slot[s].roles]
      /\ slot' = [slot EXCEPT ![s] = NoCall]
      /\ UNCHANGED crossed
  BY DEF ReferencesInv, WriteReferences
<1>2. /\ z \in RowsOfUom /\ slot[s].cat \in Categories \cup {Unsent}
      /\ slot[s].roles \in (SUBSET FunctionalRoles) \cup {Unsent}
  BY <1>1, SlotCall
<1>3. ReferencesTypeOK'
  BY <1>1, <1>2 DEF ReferencesTypeOK
<1>4. \A y \in RowsOfUom :
         /\ row[y] # "absent" => row'[y] = row[y]
         /\ row'[y] = "absent" => row[y] = "absent" /\ y # z
         /\ row'[y] = "deleted" => row[y] = "deleted"
         /\ row'[y] = "live" => row[y] = "live" \/ (row[y] = "absent" /\ y = z)
  BY <1>1, <1>2 DEF ReferencesTypeOK
<1>5. ASSUME NEW r \in Referrers, row'[r] = "absent" PROVE category'[r] = NoCategory
  <2>1. row[r] = "absent" /\ r # z /\ category[r] = NoCategory
    BY <1>4, <1>5 DEF RowsOfUom, ReferencesInv
  <2>2. QED
    BY <1>1, <2>1 DEF ReferencesTypeOK
<1>6. ASSUME NEW x \in Targets, x \notin crossed PROVE ReferenceInv(x)'
  <2>1. ReferenceInv(x) /\ x \in RowsOfUom
    BY <1>6 DEF ReferencesInv, RowsOfUom
  <2>2. ASSUME ~HoldsResolved(s, x)
        PROVE  \A what \in CountsFor(x) : References(x, what)' \subseteq References(x, what)
    <3>1. /\ slot[s].cat # Unsent => slot[s].cat # x
          /\ slot[s].roles # Unsent => x \notin slot[s].roles
      BY <1>1, <2>2, Referred DEF HoldsResolved
    <3>2. ASSUME NEW r \in Referrers, row'[r] = "live", category'[r] = x
          PROVE  row[r] = "live" /\ category[r] = x
      <4>1. category[r] = x
        BY <1>1, <3>1, <3>2 DEF ReferencesTypeOK
      <4>2. row[r] # "absent"
        BY <4>1, ReferencesAssumption DEF ReferencesInv
      <4>3. QED
        BY <1>4, <3>2, <4>1, <4>2 DEF RowsOfUom
    <3>3. ASSUME NEW g \in UomSets, x \in assigned'[g]
          PROVE  x \in assigned[g]
      BY <1>1, <3>1, <3>3 DEF ReferencesTypeOK
    <3>4. ASSUME NEW t \in References(x, "types")' PROVE t \in References(x, "types")
      BY <3>2, <3>4 DEF References, Referrers
    <3>5. ASSUME NEW t \in References(x, "groups")' PROVE t \in References(x, "groups")
      BY <3>2, <3>5 DEF References, Referrers
    <3>6. ASSUME NEW t \in References(x, "assignments")' PROVE t \in References(x, "assignments")
      BY <3>3, <3>6 DEF References
    <3>7. QED
      BY <3>4, <3>5, <3>6, CountsAreNamed
  <2>3. HoldsResolved(s, x) => row[x] = "live"
    BY <2>1 DEF ReferenceInv
  <2>4. QED
    BY <1>1, <1>4, <1>6, <2>1, <2>2, <2>3, WritingStep
<1>7. QED
  BY <1>1, <1>3, <1>5, <1>6 DEF ReferencesInv

LEMMA SoftDeleteKeepsReferences ==
  ASSUME ReferencesInv, NEW s \in Slots, SoftDelete(s)
  PROVE  ReferencesInv'
<1> DEFINE z == slot[s].of
<1>1. /\ ReferencesTypeOK /\ slot[s].op = "remove" /\ slot[s].left = {}
      /\ row' = [row EXCEPT ![z] = "deleted"]
      /\ slot' = [slot EXCEPT ![s] = NoCall]
      /\ UNCHANGED <<category, assigned, crossed>>
  BY DEF ReferencesInv, SoftDelete
<1>2. ReferencesTypeOK'
  BY <1>1 DEF ReferencesTypeOK
<1>3. \A y \in RowsOfUom : row'[y] # "deleted" => row'[y] = row[y]
  BY <1>1 DEF ReferencesTypeOK
<1>4. ASSUME NEW r \in Referrers, row'[r] = "absent" PROVE category'[r] = NoCategory
  BY <1>1, <1>3, <1>4 DEF RowsOfUom, ReferencesInv
<1>5. ASSUME NEW x \in Targets, x \notin crossed PROVE ReferenceInv(x)'
  <2>1. ReferenceInv(x) /\ x \in RowsOfUom
    BY <1>5 DEF ReferencesInv, RowsOfUom
  <2>2. ~HoldsResolved(s, x)
    BY <1>1 DEF HoldsResolved
  <2>3. \A what \in CountsFor(x) : References(x, what)' \subseteq References(x, what)
    <3>1. ASSUME NEW t \in References(x, "types")' PROVE t \in References(x, "types")
      BY <1>1, <1>3, <3>1 DEF References, RowsOfUom, Referrers
    <3>2. ASSUME NEW t \in References(x, "groups")' PROVE t \in References(x, "groups")
      BY <1>1, <1>3, <3>2 DEF References, RowsOfUom, Referrers
    <3>3. References(x, "assignments")' = References(x, "assignments")
      BY <1>1 DEF References
    <3>4. QED
      BY <3>1, <3>2, <3>3, CountsAreNamed
  <2>4. x = z => \A what \in CountsFor(x) : References(x, what) = {}
    BY <1>1, <2>1 DEF ReferenceInv, Removing
  <2>5. x # z => row'[x] = row[x]
    BY <1>1, <2>1 DEF ReferencesTypeOK
  <2>6. x = z => Removing(s, x)
    BY <1>1 DEF Removing
  <2>7. QED
    BY <1>1, <1>5, <2>2, <2>3, <2>4, <2>5, <2>6, WritingStep
<1>6. QED
  BY <1>1, <1>2, <1>4, <1>5 DEF ReferencesInv

LEMMA ReferencesInvNext == ReferencesInv /\ [ReferencesNext]_referenceVars => ReferencesInv'
<1> SUFFICES ASSUME ReferencesInv, [ReferencesNext]_referenceVars PROVE ReferencesInv'
  OBVIOUS
<1>1. CASE ReferencesNext
  BY <1>1, BeginSaveReferences, ResolveKeepsReferences, WriteKeepsReferences,
     BeginRemovalReferences, CountKeepsReferences, SoftDeleteKeepsReferences,
     EndWithErrorReferences
  DEF ReferencesNext
<1>2. CASE UNCHANGED referenceVars
  <2>1. UNCHANGED <<row, category, assigned, slot, crossed>>
    BY <1>2 DEF referenceVars
  <2>2. \A x \in Targets, q \in Slots :
           /\ HoldsResolved(q, x)' => HoldsResolved(q, x)
           /\ Removing(q, x)' => Removing(q, x)
    BY <2>1 DEF HoldsResolved, RefersTo, Removing
  <2>3. \A x \in Targets \ crossed : ReferenceInv(x)
    BY DEF ReferencesInv
  <2>4. QED
    BY <2>1, <2>2, <2>3, ReferenceFrame DEF ReferenceInv, ReferencesTypeOK, ReferencesInv
<1>3. QED
  BY <1>1, <1>2

\* BR-014: a removed Category is the Category of no live Type or Group, and a
\* removed Functional Role is assigned by no Group, unless a save that refers to
\* it was under way when it was removed; for any rows and any number of calls.
THEOREM RemovedIsAlwaysUnused == ReferencesSpec => [](ReferencesTypeOK /\ RemovedIsUnused)
<1>1. ReferencesInv => ReferencesTypeOK /\ RemovedIsUnused
  <2> SUFFICES ASSUME ReferencesInv, NEW x \in Targets, x \notin crossed, row[x] = "deleted"
               PROVE  /\ \A r \in Referrers : row[r] = "live" => category[r] # x
                      /\ \A g \in UomSets : x \notin assigned[g]
    BY DEF RemovedIsUnused, ReferencesInv
  <2>1. /\ ReferencesTypeOK
        /\ \A what \in CountsFor(x) : References(x, what) = {}
    BY DEF ReferencesInv, ReferenceInv
  <2>2. CASE x \in Categories
    <3>1. References(x, "types") = {} /\ References(x, "groups") = {}
      BY <2>1, <2>2 DEF CountsFor
    <3>2. \A r \in Referrers : row[r] = "live" => category[r] # x
      BY <3>1, CountsAreNamed DEF Referrers
    <3>3. x \notin FunctionalRoles
      BY <2>2, ReferencesAssumption
    <3>4. QED
      BY <2>1, <3>2, <3>3 DEF ReferencesTypeOK
  <2>3. CASE x \in FunctionalRoles
    <3>1. x \notin Categories /\ x # NoCategory
      BY <2>3, ReferencesAssumption DEF Targets
    <3>2. References(x, "assignments") = {}
      BY <2>1, <2>3, <3>1 DEF CountsFor
    <3>3. \A r \in Referrers : category[r] # x
      BY <2>1, <3>1 DEF ReferencesTypeOK
    <3>4. QED
      BY <3>2, <3>3, CountsAreNamed
  <2>4. QED
    BY <2>2, <2>3 DEF Targets
<1>2. QED
  BY <1>1, ReferencesInvInit, ReferencesInvNext, PTL DEF ReferencesSpec

-----------------------------------------------------------------------------
(* The pages that list rows of the server.                                 *)

\* A page and its calls, inductively.  A load has read nothing that the page does
\* not load; unless excused there is one load at most and what it has read is what
\* is stored; a save belongs to the dialog that is open.
Busy(s) == going[s].at \in {"sent", "load"}
Loading(s) == going[s].at = "load"

CallsFitPage ==
    \A s \in PageCalls : Busy(s) =>
        /\ going[s].left \subseteq page.loads
        /\ going[s].at = "sent" => going[s].left = page.loads
        /\ "options" \notin page.loads => going[s].got.options = 0

LoneLoad == ~excused => \A s, q \in PageCalls : Loading(s) /\ Loading(q) => s = q

LoadIsFresh ==
    ~excused => \A s \in PageCalls : Loading(s) =>
        /\ "rows" \notin going[s].left => going[s].got.rows = rows
        /\ "options" \in page.loads \ going[s].left => going[s].got.options = options

ShownIsLoaded == ~excused /\ (\A s \in PageCalls : ~Loading(s)) => shown = Stored

SavesOwnDialog ==
    ~dismissed => \A s \in PageCalls : Busy(s) /\ going[s].op \in {"add", "edit"} => going[s].own

PagesInv ==
    /\ PagesTypeOK /\ CallsFitPage /\ LoneLoad /\ LoadIsFresh
    /\ ShownIsLoaded /\ SavesOwnDialog

\* PagesInv without the types.
CallsInv == CallsFitPage /\ LoneLoad /\ LoadIsFresh /\ ShownIsLoaded /\ SavesOwnDialog

LEMMA PageLoads ==
    ASSUME PagesTypeOK
    PROVE  page.loads \subseteq {"rows", "options"} /\ "rows" \in page.loads
BY DEF PagesTypeOK, Pages, CategoriesPage, TypesPage, FunctionalRolesPage, GroupsPage, TenantsPage

LEMMA PageCallFields ==
    ASSUME NEW c \in Going
    PROVE  /\ c.at \in {"sent", "load"}
           /\ c.op \in {"add", "edit", "delete", "import", "mount"}
           /\ c.of \in ListRows /\ c.own \in BOOLEAN
           /\ c.left \subseteq {"rows", "options"} /\ c.got \in Content
           /\ c # NotGoing
BY DEF Going, NotGoing

LEMMA NotBusy == NotGoing.at = "no"
BY DEF NotGoing

LEMMA BusyCalls ==
    ASSUME PagesTypeOK, NEW s \in PageCalls
    PROVE  /\ Busy(s) <=> going[s] \in Going
           /\ Busy(s) <=> going[s] # NotGoing
           /\ Loading(s) => Busy(s)
<1>1. going[s] \in Going \cup {NotGoing}
  BY DEF PagesTypeOK
<1>. QED  BY <1>1, PageCallFields, NotBusy DEF Busy, Loading

LEMMA NothingShownFits == NothingShown \in Content /\ NothingShown.options = 0
BY PagesAssumption DEF NothingShown, Content, Versions

\* A call of the page that is sent fits.
LEMMA SentFits ==
    ASSUME PagesInv, NEW s \in PageCalls, NEW x \in ListRows,
           NEW op \in {"add", "edit", "delete", "import"}, NEW own \in BOOLEAN,
           op \in {"add", "edit"} => own,
           Send(s, op, x, own),
           UNCHANGED <<page, rows, options, shown, excused, dismissed>>
    PROVE  CallsInv' /\ going' \in [PageCalls -> Going \cup {NotGoing}]
<1>. DEFINE c == [at |-> "sent", op |-> op, of |-> x, own |-> own,
                  left |-> page.loads, got |-> NothingShown]
<1>1. c \in Going
  BY PageLoads, NothingShownFits DEF Going, PagesInv
<1>2. /\ c.at = "sent" /\ c.op = op /\ c.own = own
      /\ c.left = page.loads /\ c.got.options = 0
  BY NothingShownFits
<1>3. going' = [going EXCEPT ![s] = c] /\ going[s] = NotGoing
  BY DEF Send
<1>. HIDE DEF c
<1>4. going \in [PageCalls -> Going \cup {NotGoing}]
  BY DEF PagesInv, PagesTypeOK
<1>5. going' \in [PageCalls -> Going \cup {NotGoing}]
  BY <1>1, <1>3, <1>4
<1>6. \A q \in PageCalls : going'[q] = IF q = s THEN c ELSE going[q]
  BY <1>3, <1>4
<1>7. \A q \in PageCalls : Loading(q)' <=> Loading(q)
  BY <1>2, <1>3, <1>6, NotBusy DEF Loading
<1>8. CallsFitPage'
  BY <1>2, <1>6 DEF PagesInv, CallsFitPage, Busy
<1>9. LoneLoad'
  BY <1>7 DEF PagesInv, LoneLoad
<1>10. LoadIsFresh'
  BY <1>2, <1>6 DEF PagesInv, LoadIsFresh, Loading
<1>11. ShownIsLoaded'
  BY <1>7 DEF PagesInv, ShownIsLoaded, Stored
<1>12. SavesOwnDialog'
  BY <1>2, <1>6 DEF PagesInv, SavesOwnDialog, Busy
<1>. QED  BY <1>5, <1>8, <1>9, <1>10, <1>11, <1>12 DEF CallsInv

\* What the page shows stays, and a call is over that was no load or that failed.
LEMMA EndFits ==
    ASSUME PagesInv, NEW s \in PageCalls,
           going' = [going EXCEPT ![s] = NotGoing],
           (excused' = excused /\ ~Loading(s)) \/ excused' = TRUE,
           UNCHANGED <<page, rows, options, shown, dismissed>>
    PROVE  CallsInv' /\ going' \in [PageCalls -> Going \cup {NotGoing}]
<1>4. going \in [PageCalls -> Going \cup {NotGoing}]
  BY DEF PagesInv, PagesTypeOK
<1>5. going' \in [PageCalls -> Going \cup {NotGoing}]
  BY <1>4
<1>6. \A q \in PageCalls : going'[q] = IF q = s THEN NotGoing ELSE going[q]
  BY <1>4
<1>7. CallsFitPage'
  BY <1>6, NotBusy DEF PagesInv, CallsFitPage, Busy
<1>8. SavesOwnDialog'
  BY <1>6, NotBusy DEF PagesInv, SavesOwnDialog, Busy
<1>9. LoneLoad' /\ LoadIsFresh'
  BY <1>6, NotBusy DEF PagesInv, LoneLoad, LoadIsFresh, Loading
<1>10. ShownIsLoaded'
  BY <1>6, NotBusy DEF PagesInv, ShownIsLoaded, Loading, Stored
<1>. QED  BY <1>5, <1>7, <1>8, <1>9, <1>10 DEF CallsInv

LEMMA LoadedFits ==
    ASSUME PagesInv, NEW s \in PageCalls, Loaded(s)
    PROVE  CallsInv' /\ going' \in [PageCalls -> Going \cup {NotGoing}] /\ shown' \in Content
<1>1. /\ Loading(s) /\ going[s].left = {} /\ shown' = going[s].got
      /\ going' = [going EXCEPT ![s] = NotGoing]
      /\ UNCHANGED <<page, rows, options, excused, dismissed>>
  BY DEF Loaded, Loading
<1>2. going \in [PageCalls -> Going \cup {NotGoing}]
  BY DEF PagesInv, PagesTypeOK
<1>3. going[s] \in Going /\ going[s].got \in Content
  BY <1>1, BusyCalls, PageCallFields DEF PagesInv
<1>4. going' \in [PageCalls -> Going \cup {NotGoing}]
  BY <1>1, <1>2
<1>5. \A q \in PageCalls : going'[q] = IF q = s THEN NotGoing ELSE going[q]
  BY <1>1, <1>2
<1>6. CallsFitPage'
  BY <1>1, <1>5, NotBusy DEF PagesInv, CallsFitPage, Busy
<1>7. SavesOwnDialog'
  BY <1>1, <1>5, NotBusy DEF PagesInv, SavesOwnDialog, Busy
<1>8. LoneLoad' /\ LoadIsFresh'
  BY <1>1, <1>5, NotBusy DEF PagesInv, LoneLoad, LoadIsFresh, Loading
<1>9. ~excused => going[s].got = Stored
  <2>. SUFFICES ASSUME ~excused
                PROVE  going[s].got = Stored
    OBVIOUS
  <2>1. going[s].got.rows = rows
    BY <1>1 DEF PagesInv, LoadIsFresh
  <2>2. "options" \in page.loads => going[s].got.options = options
    BY <1>1 DEF PagesInv, LoadIsFresh
  <2>3. "options" \notin page.loads => going[s].got.options = 0
    BY <1>1 DEF PagesInv, CallsFitPage, Loading, Busy
  <2>4. going[s].got = [rows |-> going[s].got.rows, options |-> going[s].got.options]
    BY <1>3 DEF Content
  <2>. QED  BY <2>1, <2>2, <2>3, <2>4 DEF Stored
<1>10. ShownIsLoaded'
  BY <1>1, <1>9 DEF ShownIsLoaded, Stored
<1>. QED  BY <1>1, <1>3, <1>4, <1>6, <1>7, <1>8, <1>10 DEF CallsInv

LEMMA AppliedFits ==
    ASSUME PagesInv, NEW s \in PageCalls, Applied(s)
    PROVE  /\ CallsInv' /\ going' \in [PageCalls -> Going \cup {NotGoing}]
           /\ rows' \in [ListRows -> Versions] /\ excused' \in BOOLEAN
<1>. DEFINE c == going[s]
            d == [c EXCEPT !.at = "load"]
<1>1. /\ c.at = "sent" /\ Allowed(c.op, c.of)
      /\ rows' = [rows EXCEPT ![c.of] = RowAfter(c.op, c.of)]
      /\ going' = [going EXCEPT ![s].at = "load"]
      /\ excused' = (Others(s) # {})
      /\ UNCHANGED <<page, options, shown, dismissed>>
  BY DEF Applied
<1>2. going \in [PageCalls -> Going \cup {NotGoing}] /\ rows \in [ListRows -> Versions]
  BY DEF PagesInv, PagesTypeOK
<1>3. c \in Going /\ Busy(s)
  BY <1>1, BusyCalls DEF PagesInv, Busy
<1>4. /\ c.left = page.loads
      /\ "options" \notin page.loads => c.got.options = 0
  BY <1>1, <1>3 DEF PagesInv, CallsFitPage
<1>5. \A z \in Going : LET y == [z EXCEPT !.at = "load"] IN
          /\ y \in Going /\ y.at = "load" /\ y.op = z.op /\ y.own = z.own
          /\ y.left = z.left /\ y.got = z.got
  BY DEF Going
<1>6. /\ d \in Going /\ d.at = "load" /\ d.op = c.op /\ d.own = c.own
      /\ d.left = page.loads /\ d.got = c.got
  BY <1>3, <1>4, <1>5
<1>7. going' = [going EXCEPT ![s] = d]
  BY <1>1, <1>2
<1>8. RowAfter(c.op, c.of) \in Versions
  BY <1>1, PagesAssumption DEF Allowed, RowAfter, Versions
<1>9. rows' \in [ListRows -> Versions]
  BY <1>1, <1>2, <1>8
<1>. HIDE DEF d
<1>10. going' \in [PageCalls -> Going \cup {NotGoing}]
  BY <1>2, <1>6, <1>7
<1>11. \A q \in PageCalls : going'[q] = IF q = s THEN d ELSE going[q]
  BY <1>2, <1>7
<1>12. CallsFitPage'
  BY <1>1, <1>4, <1>6, <1>11 DEF PagesInv, CallsFitPage, Busy
<1>13. SavesOwnDialog'
  BY <1>1, <1>3, <1>6, <1>11 DEF PagesInv, SavesOwnDialog, Busy
<1>14. ~excused' => \A q \in PageCalls : Loading(q)' => q = s
  BY <1>1, <1>11, NotBusy DEF Others, Loading
<1>15. LoneLoad'
  BY <1>14 DEF LoneLoad
<1>16. LoadIsFresh'
  <2>. SUFFICES ASSUME ~excused', NEW q \in PageCalls, Loading(q)'
                PROVE  /\ "rows" \notin going'[q].left => going'[q].got.rows = rows'
                       /\ "options" \in page'.loads \ going'[q].left => going'[q].got.options = options'
    BY DEF LoadIsFresh
  <2>1. going'[q] = d
    BY <1>11, <1>14
  <2>. QED  BY <1>1, <1>6, <2>1, PageLoads DEF PagesInv
<1>17. Loading(s)'
  BY <1>6, <1>11 DEF Loading
<1>18. ShownIsLoaded'
  BY <1>17 DEF ShownIsLoaded
<1>. QED  BY <1>1, <1>9, <1>10, <1>12, <1>13, <1>15, <1>16, <1>18 DEF CallsInv

LEMMA ReadFits ==
    ASSUME PagesInv, NEW s \in PageCalls, NEW what \in {"rows", "options"}, ReadOneList(s, what)
    PROVE  CallsInv' /\ going' \in [PageCalls -> Going \cup {NotGoing}]
<1>. DEFINE c == going[s]
            g == IF what = "rows" THEN [c.got EXCEPT !.rows = rows]
                                  ELSE [c.got EXCEPT !.options = options]
            d == [c EXCEPT !.left = @ \ {what}, !.got = g]
<1>1. /\ c.at = "load" /\ what \in c.left
      /\ going' = [going EXCEPT ![s].left = @ \ {what},
                                ![s].got = IF what = "rows" THEN [@ EXCEPT !.rows = rows]
                                                            ELSE [@ EXCEPT !.options = options]]
      /\ UNCHANGED <<page, rows, options, shown, excused, dismissed>>
  BY DEF ReadOneList
<1>2. /\ going \in [PageCalls -> Going \cup {NotGoing}]
      /\ rows \in [ListRows -> Versions] /\ options \in 0..MaxVersion
  BY DEF PagesInv, PagesTypeOK
<1>3. c \in Going /\ Busy(s) /\ Loading(s)
  BY <1>1, BusyCalls DEF PagesInv, Busy, Loading
<1>4. c.got \in Content /\ c.left \subseteq page.loads
  BY <1>3, PageCallFields DEF PagesInv, CallsFitPage
<1>5. /\ g \in Content
      /\ what = "rows" => g.rows = rows /\ g.options = c.got.options
      /\ what = "options" => g.rows = c.got.rows /\ g.options = options
  BY <1>2, <1>4 DEF Content
<1>. HIDE DEF g
<1>6. \A z \in Going, h \in Content : LET y == [z EXCEPT !.left = @ \ {what}, !.got = h] IN
          /\ y \in Going /\ y.at = z.at /\ y.op = z.op /\ y.own = z.own
          /\ y.left = z.left \ {what} /\ y.got = h
  BY DEF Going
<1>7. /\ d \in Going /\ d.at = "load" /\ d.op = c.op /\ d.own = c.own
      /\ d.left = c.left \ {what} /\ d.got = g
  BY <1>1, <1>3, <1>5, <1>6
<1>8. going' = [going EXCEPT ![s] = d]
  BY <1>1, <1>2 DEF g
<1>. HIDE DEF d
<1>9. going' \in [PageCalls -> Going \cup {NotGoing}]
  BY <1>2, <1>7, <1>8
<1>10. \A q \in PageCalls : going'[q] = IF q = s THEN d ELSE going[q]
  BY <1>2, <1>8
<1>11. \A q \in PageCalls : Loading(q)' <=> Loading(q)
  BY <1>1, <1>7, <1>10 DEF Loading
<1>12. CallsFitPage'
  BY <1>1, <1>3, <1>4, <1>5, <1>7, <1>10 DEF PagesInv, CallsFitPage, Busy
<1>13. SavesOwnDialog'
  BY <1>1, <1>3, <1>7, <1>10 DEF PagesInv, SavesOwnDialog, Busy
<1>14. LoneLoad'
  BY <1>1, <1>11 DEF PagesInv, LoneLoad
<1>15. LoadIsFresh'
  <2>. SUFFICES ASSUME ~excused, NEW q \in PageCalls, Loading(q)
                PROVE  /\ "rows" \notin going'[q].left => going'[q].got.rows = rows
                       /\ "options" \in page.loads \ going'[q].left => going'[q].got.options = options
    BY <1>1, <1>11 DEF LoadIsFresh
  <2>1. /\ "rows" \notin going[q].left => going[q].got.rows = rows
        /\ "options" \in page.loads \ going[q].left => going[q].got.options = options
    BY DEF PagesInv, LoadIsFresh
  <2>2. CASE q # s
    BY <2>1, <2>2, <1>10
  <2>3. CASE q = s
    <3>1. going'[q] = d
      BY <2>3, <1>10
    <3>. QED  BY <2>1, <2>3, <3>1, <1>5, <1>7
  <2>. QED  BY <2>2, <2>3
<1>16. ShownIsLoaded'
  BY <1>3, <1>11 DEF ShownIsLoaded
<1>. QED  BY <1>9, <1>12, <1>13, <1>14, <1>15, <1>16 DEF CallsInv

LEMMA ElsewhereFits ==
    ASSUME PagesInv, NEW x \in ListRows, ChangedElsewhere(x)
    PROVE  CallsInv' /\ rows' \in [ListRows -> Versions] /\ options' \in 0..MaxVersion
<1>1. rows \in [ListRows -> Versions] /\ options \in 0..MaxVersion
  BY DEF PagesInv, PagesTypeOK
<1>2. rows' \in [ListRows -> Versions] /\ options' \in 0..MaxVersion
  BY <1>1, PagesAssumption DEF ChangedElsewhere, Versions
<1>3. excused' = TRUE /\ UNCHANGED <<page, going, dismissed>>
  BY DEF ChangedElsewhere
<1>4. CallsFitPage' /\ SavesOwnDialog'
  BY <1>3 DEF PagesInv, CallsFitPage, SavesOwnDialog, Busy
<1>5. LoneLoad' /\ LoadIsFresh' /\ ShownIsLoaded'
  BY <1>3 DEF LoneLoad, LoadIsFresh, ShownIsLoaded
<1>. QED  BY <1>2, <1>4, <1>5 DEF CallsInv

LEMMA DismissFits ==
    ASSUME PagesInv, DismissDialog
    PROVE  CallsInv' /\ going' \in [PageCalls -> Going \cup {NotGoing}]
<1>1. /\ dismissed' = TRUE
      /\ going' = [s \in PageCalls |-> IF going[s] = NotGoing THEN NotGoing ELSE [going[s] EXCEPT !.own = FALSE]]
      /\ UNCHANGED <<page, rows, options, shown, excused>>
  BY DEF DismissDialog
<1>2. going \in [PageCalls -> Going \cup {NotGoing}]
  BY DEF PagesInv, PagesTypeOK
<1>3. \A z \in Going : LET y == [z EXCEPT !.own = FALSE] IN
          /\ y \in Going /\ y.at = z.at /\ y.left = z.left /\ y.got = z.got
  BY DEF Going
<1>4. \A q \in PageCalls :
          /\ going[q] = NotGoing => going'[q] = NotGoing
          /\ going[q] # NotGoing => /\ going'[q] \in Going /\ going'[q].at = going[q].at
                                    /\ going'[q].left = going[q].left
                                    /\ going'[q].got = going[q].got
  BY <1>1, <1>2, <1>3
<1>5. going' \in [PageCalls -> Going \cup {NotGoing}]
  BY <1>1, <1>2, <1>3
<1>6. \A q \in PageCalls : /\ Loading(q)' <=> Loading(q)
                           /\ Busy(q)' <=> Busy(q)
                           /\ Busy(q) => going[q] # NotGoing
                           /\ Loading(q) => going[q] # NotGoing
  BY <1>4, NotBusy DEF Loading, Busy
<1>7. CallsFitPage'
  BY <1>1, <1>4, <1>6 DEF PagesInv, CallsFitPage
<1>8. LoneLoad'
  BY <1>1, <1>6 DEF PagesInv, LoneLoad
<1>9. LoadIsFresh'
  BY <1>1, <1>4, <1>6 DEF PagesInv, LoadIsFresh
<1>10. ShownIsLoaded'
  BY <1>1, <1>6 DEF PagesInv, ShownIsLoaded, Stored
<1>11. SavesOwnDialog'
  BY <1>1 DEF SavesOwnDialog
<1>. QED  BY <1>5, <1>7, <1>8, <1>9, <1>10, <1>11 DEF CallsInv

LEMMA CallsStay ==
    ASSUME PagesInv, UNCHANGED <<page, rows, options, shown, going, excused, dismissed>>
    PROVE  CallsInv'
BY DEF PagesInv, CallsInv, CallsFitPage, LoneLoad, LoadIsFresh, ShownIsLoaded, SavesOwnDialog,
       Busy, Loading, Stored

LEMMA PagesInitInv == PagesInit => PagesInv
<1>. SUFFICES ASSUME PagesInit PROVE PagesInv
  OBVIOUS
<1>1. PICK s \in PageCalls, x \in ListRows :
          going = [q \in PageCalls |-> IF q # s THEN NotGoing ELSE
              [at |-> "load", op |-> "mount", of |-> x, own |-> FALSE,
               left |-> page.loads, got |-> NothingShown]]
  BY DEF PagesInit
<1>. DEFINE c == [at |-> "load", op |-> "mount", of |-> x, own |-> FALSE,
                  left |-> page.loads, got |-> NothingShown]
<1>2. /\ page \in Pages /\ rows = [y \in ListRows |-> 0] /\ options = 0
      /\ shown = NothingShown /\ editing = "none" /\ isSaving = FALSE
      /\ excused = FALSE /\ dismissed = FALSE
  BY DEF PagesInit
<1>3. page.loads \subseteq {"rows", "options"} /\ "rows" \in page.loads
  BY <1>2 DEF Pages, CategoriesPage, TypesPage, FunctionalRolesPage, GroupsPage, TenantsPage
<1>4. /\ c \in Going /\ c.at = "load" /\ c.op = "mount"
      /\ c.left = page.loads /\ c.got.options = 0
  BY <1>3, NothingShownFits DEF Going
<1>5. going = [q \in PageCalls |-> IF q # s THEN NotGoing ELSE c]
  BY <1>1
<1>. HIDE DEF c
<1>6. rows \in [ListRows -> Versions] /\ options \in 0..MaxVersion
  BY <1>2, PagesAssumption DEF Versions
<1>7. PagesTypeOK
  BY <1>2, <1>4, <1>5, <1>6, NothingShownFits DEF PagesTypeOK
<1>8. CallsFitPage
  BY <1>4, <1>5, NotBusy DEF CallsFitPage, Busy
<1>9. LoneLoad
  BY <1>5, NotBusy DEF LoneLoad, Loading
<1>10. LoadIsFresh
  BY <1>3, <1>4, <1>5, NotBusy DEF LoadIsFresh, Loading
<1>11. ShownIsLoaded
  BY <1>4, <1>5 DEF ShownIsLoaded, Loading
<1>12. SavesOwnDialog
  BY <1>4, <1>5, NotBusy DEF SavesOwnDialog, Busy
<1>. QED  BY <1>7, <1>8, <1>9, <1>10, <1>11, <1>12 DEF PagesInv

LEMMA PagesNextInv == PagesInv /\ [PagesNext]_pageVars => PagesInv'
<1>. SUFFICES ASSUME PagesInv, [PagesNext]_pageVars
              PROVE  PagesInv'
  OBVIOUS
<1>1. PagesTypeOK
  BY DEF PagesInv
<1>2. ASSUME CallsInv', PagesTypeOK'
      PROVE  PagesInv'
  BY <1>2 DEF PagesInv, CallsInv
<1>3. ASSUME NEW x \in ListRows \cup {"new"}, OpenDialogFor(x)
      PROVE  PagesInv'
  BY <1>1, <1>2, <1>3, CallsStay DEF OpenDialogFor, PagesTypeOK
<1>4. CASE CancelDialog
  BY <1>1, <1>2, <1>4, CallsStay DEF CancelDialog, PagesTypeOK
<1>5. CASE DismissDialog
  <2>1. CallsInv' /\ going' \in [PageCalls -> Going \cup {NotGoing}]
    BY <1>5, DismissFits
  <2>. QED  BY <1>1, <1>2, <1>5, <2>1 DEF DismissDialog, PagesTypeOK
<1>6. ASSUME NEW x \in ListRows, ChangedElsewhere(x)
      PROVE  PagesInv'
  <2>1. CallsInv' /\ rows' \in [ListRows -> Versions] /\ options' \in 0..MaxVersion
    BY <1>6, ElsewhereFits
  <2>. QED  BY <1>1, <1>2, <1>6, <2>1 DEF ChangedElsewhere, PagesTypeOK
<1>7. ASSUME NEW s \in PageCalls, NEW x \in ListRows, SubmitDialog(s, x)
      PROVE  PagesInv'
  <2>1. UNCHANGED <<page, rows, options, shown, editing, excused, dismissed>> /\ isSaving' = TRUE
    BY <1>7 DEF SubmitDialog
  <2>2. Send(s, "add", x, TRUE) \/ Send(s, "edit", x, TRUE)
    BY <1>7 DEF SubmitDialog
  <2>3. CallsInv' /\ going' \in [PageCalls -> Going \cup {NotGoing}]
    BY <2>1, <2>2, SentFits
  <2>. QED  BY <1>1, <1>2, <2>1, <2>3 DEF PagesTypeOK
<1>8. ASSUME NEW s \in PageCalls, NEW x \in ListRows, SendDelete(s, x)
      PROVE  PagesInv'
  <2>1. UNCHANGED <<page, rows, options, shown, editing, isSaving, excused, dismissed>>
    BY <1>8 DEF SendDelete
  <2>2. Send(s, "delete", x, FALSE)
    BY <1>8 DEF SendDelete
  <2>3. CallsInv' /\ going' \in [PageCalls -> Going \cup {NotGoing}]
    BY <2>1, <2>2, SentFits
  <2>. QED  BY <1>1, <1>2, <2>1, <2>3 DEF PagesTypeOK
<1>9. ASSUME NEW s \in PageCalls, NEW x \in ListRows, SendImport(s, x)
      PROVE  PagesInv'
  <2>1. UNCHANGED <<page, rows, options, shown, editing, isSaving, excused, dismissed>>
    BY <1>9 DEF SendImport
  <2>2. Send(s, "import", x, FALSE)
    BY <1>9 DEF SendImport
  <2>3. CallsInv' /\ going' \in [PageCalls -> Going \cup {NotGoing}]
    BY <2>1, <2>2, SentFits
  <2>. QED  BY <1>1, <1>2, <2>1, <2>3 DEF PagesTypeOK
<1>10. ASSUME NEW s \in PageCalls, Applied(s)
       PROVE  PagesInv'
  <2>1. /\ CallsInv' /\ going' \in [PageCalls -> Going \cup {NotGoing}]
        /\ rows' \in [ListRows -> Versions] /\ excused' \in BOOLEAN
    BY <1>10, AppliedFits
  <2>2. UNCHANGED <<page, options, shown, editing, isSaving, dismissed>>
    BY <1>10 DEF Applied
  <2>. QED  BY <1>1, <1>2, <2>1, <2>2 DEF PagesTypeOK
<1>11. ASSUME NEW s \in PageCalls, Refused(s)
       PROVE  PagesInv'
  <2>1. /\ going[s].at = "sent" /\ going' = [going EXCEPT ![s] = NotGoing]
        /\ isSaving' = (isSaving /\ ~going[s].own)
        /\ UNCHANGED <<page, rows, options, shown, editing, excused, dismissed>>
    BY <1>11 DEF Refused
  <2>2. CallsInv' /\ going' \in [PageCalls -> Going \cup {NotGoing}]
    BY <2>1, EndFits DEF Loading
  <2>. QED  BY <1>1, <1>2, <2>1, <2>2 DEF PagesTypeOK
<1>12. ASSUME NEW s \in PageCalls
       PROVE  CloseAfter(s) => editing' \in ListRows \cup {"new", "none"} /\ isSaving' \in BOOLEAN
  BY <1>1 DEF CloseAfter, PagesTypeOK
<1>13. ASSUME NEW s \in PageCalls, Loaded(s)
       PROVE  PagesInv'
  <2>1. CallsInv' /\ going' \in [PageCalls -> Going \cup {NotGoing}] /\ shown' \in Content
    BY <1>13, LoadedFits
  <2>2. CloseAfter(s) /\ UNCHANGED <<page, rows, options, excused, dismissed>>
    BY <1>13 DEF Loaded
  <2>. QED  BY <1>1, <1>2, <1>12, <2>1, <2>2 DEF PagesTypeOK
<1>14. ASSUME NEW s \in PageCalls, LoadFails(s)
       PROVE  PagesInv'
  <2>1. /\ going' = [going EXCEPT ![s] = NotGoing] /\ excused' = TRUE
        /\ CloseAfter(s) /\ UNCHANGED <<page, rows, options, shown, dismissed>>
    BY <1>14 DEF LoadFails
  <2>2. CallsInv' /\ going' \in [PageCalls -> Going \cup {NotGoing}]
    BY <2>1, EndFits
  <2>. QED  BY <1>1, <1>2, <1>12, <2>1, <2>2 DEF PagesTypeOK
<1>15. ASSUME NEW s \in PageCalls, NEW what \in {"rows", "options"}, ReadOneList(s, what)
       PROVE  PagesInv'
  <2>1. CallsInv' /\ going' \in [PageCalls -> Going \cup {NotGoing}]
    BY <1>15, ReadFits
  <2>2. UNCHANGED <<page, rows, options, shown, editing, isSaving, excused, dismissed>>
    BY <1>15 DEF ReadOneList
  <2>. QED  BY <1>1, <1>2, <2>1, <2>2 DEF PagesTypeOK
<1>16. CASE UNCHANGED pageVars
  BY <1>1, <1>2, <1>16, CallsStay DEF pageVars, PagesTypeOK
<1>. QED  BY <1>3, <1>4, <1>5, <1>6, <1>7, <1>8, <1>9, <1>10, <1>11, <1>13, <1>14, <1>15, <1>16
          DEF PagesNext

LEMMA PagesKeepInv == PagesSpec => []PagesInv
BY PagesInitInv, PagesNextInv, PTL DEF PagesSpec

\* When no call is under way a page shows what is stored, unless its last load
\* failed, calls overlapped, or somebody else changed it since.
THEOREM ShownIsAlwaysStored == PagesSpec => [](PagesTypeOK /\ ShownIsStored)
<1>1. PagesInv => PagesTypeOK /\ ShownIsStored
  BY NotBusy DEF PagesInv, ShownIsStored, ShownIsLoaded, Loading
<1>. QED  BY <1>1, PagesKeepInv, PTL

ClosesOwn ==
    \A s \in PageCalls :
        going[s] # NotGoing /\ going'[s] = NotGoing /\ editing # "none" /\ editing' = "none" =>
            going[s].own \/ dismissed

\* The end of a call closes no dialog but the one that sent it, as long as none
\* was dismissed during its save.
THEOREM SaveAlwaysClosesItsDialog == PagesSpec => SaveClosesItsDialog
<1>1. PagesInv /\ [PagesNext]_pageVars => [ClosesOwn]_pageVars
  <2>. SUFFICES ASSUME PagesInv, [PagesNext]_pageVars, NEW s \in PageCalls,
                       going[s] # NotGoing, going'[s] = NotGoing, editing # "none", editing' = "none"
                PROVE  going[s].own \/ dismissed
    BY DEF ClosesOwn
  <2>1. PagesTypeOK /\ going \in [PageCalls -> Going \cup {NotGoing}]
    BY DEF PagesInv, PagesTypeOK
  <2>2. Busy(s) /\ going[s] \in Going
    BY <2>1, BusyCalls
  <2>3. UNCHANGED going => FALSE
    OBVIOUS
  <2>4. UNCHANGED editing => FALSE
    OBVIOUS
  <2>5. CASE DismissDialog
    <3>1. \A z \in Going : [z EXCEPT !.own = FALSE].at = z.at
      BY DEF Going
    <3>2. going'[s] = [going[s] EXCEPT !.own = FALSE]
      BY <2>1, <2>5 DEF DismissDialog
    <3>3. going'[s].at \in {"sent", "load"}
      BY <2>2, <3>1, <3>2, PageCallFields
    <3>. QED  BY <3>3, NotBusy
  <2>6. ASSUME NEW q \in PageCalls, CloseAfter(q), going' = [going EXCEPT ![q] = NotGoing]
        PROVE  going[s].own \/ dismissed
    <3>1. q = s
      BY <2>1, <2>6
    <3>2. going[s].op \in {"add", "edit"}
      BY <2>4, <2>6, <3>1 DEF CloseAfter
    <3>. QED  BY <2>2, <3>2 DEF PagesInv, SavesOwnDialog
  <2>7. CASE \E x \in ListRows \cup {"new"} : OpenDialogFor(x)
    BY <2>3, <2>7 DEF OpenDialogFor
  <2>8. CASE CancelDialog
    BY <2>3, <2>8 DEF CancelDialog
  <2>9. CASE \E x \in ListRows : ChangedElsewhere(x)
    BY <2>3, <2>9 DEF ChangedElsewhere
  <2>10. ASSUME NEW q \in PageCalls, NEW x \in ListRows,
                SubmitDialog(q, x) \/ SendDelete(q, x) \/ SendImport(q, x)
         PROVE  FALSE
    BY <2>4, <2>10 DEF SubmitDialog, SendDelete, SendImport
  <2>11. ASSUME NEW q \in PageCalls, Applied(q) \/ Refused(q) \/ \E what \in {"rows", "options"} : ReadOneList(q, what)
         PROVE  FALSE
    BY <2>4, <2>11 DEF Applied, Refused, ReadOneList
  <2>12. ASSUME NEW q \in PageCalls, Loaded(q) \/ LoadFails(q)
         PROVE  going[s].own \/ dismissed
    BY <2>6, <2>12 DEF Loaded, LoadFails
  <2>13. CASE UNCHANGED pageVars
    BY <2>3, <2>13 DEF pageVars
  <2>. QED  BY <2>5, <2>7, <2>8, <2>9, <2>10, <2>11, <2>12, <2>13 DEF PagesNext
<1>2. [][ClosesOwn]_pageVars => SaveClosesItsDialog
  BY PTL DEF ClosesOwn, SaveClosesItsDialog
<1>. QED  BY <1>1, <1>2, PagesKeepInv, PTL DEF PagesSpec

-----------------------------------------------------------------------------
(* Filter: induction over the length of a sequence, by a least element.    *)

LEMMA LeastElement ==
    \A T : T \subseteq Nat /\ T # {} => \E m \in T : \A k \in T : m <= k
<1>. SUFFICES ASSUME NEW T, T \subseteq Nat, T # {}
              PROVE  \E m \in T : \A k \in T : m <= k
  OBVIOUS
<1>. DEFINE R == StrictSubsetOrdering(Nat)
            U == {0..n : n \in T}
<1>1. IsWellFoundedOn(R, FiniteSubsetsOf(Nat))
  BY FS_StrictSubsetOrderingWellFounded
<1>2. \A n \in Nat : 0..n \in FiniteSubsetsOf(Nat)
  BY FS_Interval DEF FiniteSubsetsOf
<1>3. U \subseteq FiniteSubsetsOf(Nat) /\ U # {}
  BY <1>2
<1>4. \E x \in U : \A y \in U : ~(<<y, x>> \in R)
  <2>. HIDE DEF U, R
  <2>. QED BY <1>1, <1>3, WFMin
<1>5. PICK m \in T : \A k \in T : <<0..k, 0..m>> \notin R
  BY <1>4
<1>6. ASSUME NEW k \in T, k < m PROVE FALSE
  <2>1. 0..k \subseteq 0..m /\ m \in 0..m /\ m \notin 0..k
    BY <1>6
  <2>2. 0..k \in SUBSET Nat /\ 0..m \in SUBSET Nat /\ 0..k # 0..m
    BY <2>1
  <2>. QED BY <1>5, <2>1, <2>2 DEF StrictSubsetOrdering
<1>. QED BY <1>6

\* A set of numbers with 0 and with the successor of each of its elements below n
\* has all numbers up to n.
LEMMA UpTo ==
    ASSUME NEW n \in Nat, NEW T, 0 \in T, \A i \in 1..n : i - 1 \in T => i \in T
    PROVE  0..n \subseteq T
<1>. DEFINE M == 0..n \ T
<1>1. SUFFICES ASSUME M # {} PROVE FALSE
  OBVIOUS
<1>2. PICK m \in M : \A k \in M : m <= k
  <2>1. M \subseteq Nat
    OBVIOUS
  <2>. HIDE DEF M
  <2>. QED  BY <1>1, <2>1, LeastElement
<1>3. m \in 1..n /\ m - 1 \in 0..n /\ m - 1 \notin M
  BY <1>2
<1>. QED  BY <1>2, <1>3

KeptUpTo(g, s, K, n) ==
    g = [i \in 0..n |-> IF i = 0 THEN <<>>
                        ELSE IF s[i] \in K THEN Append(g[i - 1], s[i]) ELSE g[i - 1]]

LEMMA KeptUpToAt ==
    ASSUME NEW g, NEW s, NEW K, NEW n \in Nat, KeptUpTo(g, s, K, n), NEW i \in 0..n
    PROVE  g[i] = IF i = 0 THEN <<>>
                  ELSE IF s[i] \in K THEN Append(g[i - 1], s[i]) ELSE g[i - 1]
<1>. DEFINE e(j) == IF j = 0 THEN <<>>
                    ELSE IF s[j] \in K THEN Append(g[j - 1], s[j]) ELSE g[j - 1]
<1>1. g = [j \in 0..n |-> e(j)]
  BY DEF KeptUpTo
<1>. HIDE DEF e
<1>2. g[i] = e(i)
  BY <1>1
<1>. QED  BY <1>2 DEF e

LEMMA KeptUpToExists == ASSUME NEW s, NEW K, NEW n \in Nat PROVE \E g : KeptUpTo(g, s, K, n)
<1>. DEFINE T == {i \in 0..n : \E g : KeptUpTo(g, s, K, i)}
<1>1. 0 \in T
  <2>1. KeptUpTo([i \in 0..0 |-> <<>>], s, K, 0)
    BY DEF KeptUpTo
  <2>. QED  BY <2>1
<1>2. ASSUME NEW i \in 1..n, i - 1 \in T
      PROVE  i \in T
  <2>1. PICK g : KeptUpTo(g, s, K, i - 1)
    BY <1>2
  <2>. DEFINE e == IF s[i] \in K THEN Append(g[i - 1], s[i]) ELSE g[i - 1]
              h == [j \in 0..i |-> IF j = i THEN e ELSE g[j]]
  <2>2. \A j \in 0..i - 1 : h[j] = g[j] /\ j # i
    OBVIOUS
  <2>3. ASSUME NEW j \in 0..i - 1
        PROVE  h[j] = IF j = 0 THEN <<>>
                      ELSE IF s[j] \in K THEN Append(h[j - 1], s[j]) ELSE h[j - 1]
    <3>. HIDE DEF h
    <3>1. g[j] = IF j = 0 THEN <<>>
                 ELSE IF s[j] \in K THEN Append(g[j - 1], s[j]) ELSE g[j - 1]
      BY <2>1, KeptUpToAt
    <3>2. j # 0 => j - 1 \in 0..i - 1
      OBVIOUS
    <3>. QED  BY <2>2, <3>1, <3>2
  <2>4. h[i] = IF s[i] \in K THEN Append(h[i - 1], s[i]) ELSE h[i - 1]
    OBVIOUS
  <2>5. KeptUpTo(h, s, K, i)
    <3>. HIDE DEF e
    <3>1. \A j \in 0..i : h[j] = IF j = 0 THEN <<>>
                                 ELSE IF s[j] \in K THEN Append(h[j - 1], s[j]) ELSE h[j - 1]
      <4>. HIDE DEF h
      <4>. SUFFICES ASSUME NEW j \in 0..i
                    PROVE  h[j] = IF j = 0 THEN <<>>
                                  ELSE IF s[j] \in K THEN Append(h[j - 1], s[j]) ELSE h[j - 1]
        OBVIOUS
      <4>1. CASE j = i
        BY <2>4, <4>1
      <4>2. CASE j # i
        <5>1. j \in 0..i - 1
          BY <4>2
        <5>. QED  BY <2>3, <5>1
      <4>. QED  BY <4>1, <4>2
    <3>2. h = [j \in 0..i |-> h[j]]
      OBVIOUS
    <3>. HIDE DEF h
    <3>. QED  BY <3>1, <3>2 DEF KeptUpTo
  <2>. QED  BY <2>5
<1>. HIDE DEF T
<1>3. 0..n \subseteq T
  BY <1>1, <1>2, UpTo
<1>. QED  BY <1>3 DEF T

\* f gives the places in s, up to n, of the elements of w.
Places(f, w, s, K, n) ==
    /\ f \in [1..Len(w) -> 1..n]
    /\ \A j \in 1..Len(w) : w[j] = s[f[j]] /\ s[f[j]] \in K
    /\ \A j, k \in 1..Len(w) : f[j] = f[k] => j = k
    /\ \A i \in 1..n : s[i] \in K => \E j \in 1..Len(w) : f[j] = i

LEMMA PlacesAppend ==
    ASSUME NEW S, NEW s \in Seq(S), NEW K, NEW i \in 1..Len(s), NEW w \in Seq(S), NEW f,
           Places(f, w, s, K, i - 1), s[i] \in K
    PROVE  \E g : Places(g, Append(w, s[i]), s, K, i)
<1>. DEFINE v == Append(w, s[i])
            g == [j \in 1..Len(w) + 1 |-> IF j = Len(w) + 1 THEN i ELSE f[j]]
<1>1. v \in Seq(S) /\ Len(v) = Len(w) + 1 /\ v[Len(w) + 1] = s[i]
  BY AppendProperties
<1>2. \A j \in 1..Len(w) : v[j] = w[j]
  BY AppendProperties
<1>. HIDE DEF v
<1>3. Len(w) \in Nat
  OBVIOUS
<1>4. f \in [1..Len(w) -> 1..i - 1]
  BY DEF Places
<1>5. g \in [1..Len(v) -> 1..i]
  BY <1>1, <1>3, <1>4
<1>6. g[Len(w) + 1] = i /\ \A j \in 1..Len(w) : g[j] = f[j] /\ g[j] # i /\ j # Len(w) + 1
  BY <1>3, <1>4
<1>7. \A j \in 1..Len(v) : j \in 1..Len(w) \/ j = Len(w) + 1
  BY <1>1, <1>3
<1>. HIDE DEF g
<1>8. \A j \in 1..Len(v) : v[j] = s[g[j]] /\ s[g[j]] \in K
  BY <1>1, <1>2, <1>6, <1>7 DEF Places
<1>9. \A j, k \in 1..Len(v) : g[j] = g[k] => j = k
  BY <1>6, <1>7 DEF Places
<1>10. \A k \in 1..i : s[k] \in K => \E j \in 1..Len(v) : g[j] = k
  <2>. SUFFICES ASSUME NEW k \in 1..i, s[k] \in K
                PROVE  \E j \in 1..Len(v) : g[j] = k
    OBVIOUS
  <2>1. CASE k = i
    BY <2>1, <1>1, <1>3, <1>6
  <2>2. CASE k # i
    <3>1. PICK j \in 1..Len(w) : f[j] = k
      BY <2>2 DEF Places
    <3>. QED  BY <3>1, <1>1, <1>3, <1>6
  <2>. QED  BY <2>1, <2>2
<1>. QED  BY <1>5, <1>8, <1>9, <1>10 DEF Places, v

LEMMA FilterFacts ==
    ASSUME NEW S, NEW s \in Seq(S), NEW K
    PROVE  /\ Filter(s, K) \in Seq(S)
           /\ \E f : Places(f, Filter(s, K), s, K, Len(s))
<1>. DEFINE n == Len(s)
            g == CHOOSE x : KeptUpTo(x, s, K, n)
<1>1. n \in Nat
  OBVIOUS
<1>2. KeptUpTo(g, s, K, n)
  BY <1>1, KeptUpToExists
<1>3. Filter(s, K) = g[n]
  BY DEF Filter, KeptUpTo
<1>. HIDE DEF g
<1>4. /\ g[0] = <<>>
      /\ \A i \in 1..n : g[i] = IF s[i] \in K THEN Append(g[i - 1], s[i]) ELSE g[i - 1]
  <2>1. 0 \in 0..n /\ \A i \in 1..n : i \in 0..n /\ i # 0
    BY <1>1
  <2>. HIDE DEF n
  <2>. QED  BY <1>1, <1>2, <2>1, KeptUpToAt
<1>. DEFINE T == {i \in 0..n : g[i] \in Seq(S) /\ \E f : Places(f, g[i], s, K, i)}
<1>5. 0 \in T
  <2>1. Places([j \in {} |-> 0], <<>>, s, K, 0)
    BY DEF Places
  <2>2. g[0] \in Seq(S) /\ 0 \in 0..n
    BY <1>1, <1>4
  <2>. QED  BY <1>4, <2>1, <2>2
<1>6. ASSUME NEW i \in 1..n, i - 1 \in T
      PROVE  i \in T
  <2>1. PICK f : g[i - 1] \in Seq(S) /\ Places(f, g[i - 1], s, K, i - 1)
    BY <1>6
  <2>2. s[i] \in S
    OBVIOUS
  <2>3. CASE s[i] \in K
    <3>1. g[i] = Append(g[i - 1], s[i])
      BY <1>4, <2>3
    <3>2. g[i] \in Seq(S)
      BY <2>1, <2>2, <3>1, AppendProperties
    <3>3. \E h : Places(h, g[i], s, K, i)
      BY <2>1, <2>3, <3>1, PlacesAppend
    <3>. QED  BY <3>2, <3>3
  <2>4. CASE s[i] \notin K
    <3>1. g[i] = g[i - 1]
      BY <1>4, <2>4
    <3>2. Places(f, g[i], s, K, i)
      BY <2>1, <2>4, <3>1 DEF Places
    <3>. QED  BY <2>1, <3>1, <3>2
  <2>. QED  BY <2>3, <2>4
<1>. HIDE DEF T
<1>7. n \in T
  BY <1>1, <1>5, <1>6, UpTo
<1>. QED  BY <1>3, <1>7 DEF T

-----------------------------------------------------------------------------
(* The form for a Group.                                                   *)

LEMMA FilterKeepsOnce ==
    ASSUME NEW S, NEW s \in Seq(S), NEW K
    PROVE  /\ Filter(s, K) \in Seq(S)
           /\ ToSet(Filter(s, K)) \subseteq ToSet(s)
           /\ IsInjective(s) => IsInjective(Filter(s, K))
<1>. DEFINE w == Filter(s, K)
<1>1. w \in Seq(S) /\ \E f : Places(f, w, s, K, Len(s))
  BY FilterFacts
<1>. HIDE DEF w
<1>2. PICK f : Places(f, w, s, K, Len(s))
  BY <1>1
<1>3. DOMAIN w = 1..Len(w) /\ DOMAIN s = 1..Len(s)
  BY <1>1
<1>4. ToSet(w) \subseteq ToSet(s)
  BY <1>2, <1>3 DEF ToSet, Places
<1>5. IsInjective(s) => IsInjective(w)
  BY <1>2, <1>3 DEF IsInjective, Places
<1>. QED  BY <1>1, <1>4, <1>5 DEF w

\* Where the element at i of the moved sequence was.
WasAt(from, to, i) ==
    IF i = to THEN from
    ELSE LET j == IF i > to THEN i - 1 ELSE i IN IF j >= from THEN j + 1 ELSE j

LEMMA MovedFacts ==
    ASSUME NEW S, NEW s \in Seq(S), NEW from \in 1..Len(s), NEW to \in 1..Len(s)
    PROVE  /\ Moved(s, from, to) \in Seq(S) /\ Len(Moved(s, from, to)) = Len(s)
           /\ \A i \in 1..Len(s) : Moved(s, from, to)[i] = s[WasAt(from, to, i)]
<1>. DEFINE a == SubSeq(s, 1, from - 1)
            b == SubSeq(s, from + 1, Len(s))
            q == a \o b
            c == SubSeq(q, 1, to - 1)
            d == SubSeq(q, to, Len(q))
            n == Len(s)
<1>1. n \in Nat /\ n = Len(s) /\ from \in 1..n /\ to \in 1..n /\ s[from] \in S
  OBVIOUS
<1>2. /\ a \in Seq(S) /\ Len(a) = from - 1 /\ \A i \in 1..from - 1 : a[i] = s[i]
      /\ b \in Seq(S) /\ Len(b) = n - from /\ \A i \in 1..n - from : b[i] = s[from + i]
  BY <1>1
<1>. HIDE DEF a, b, n
<1>3. /\ q \in Seq(S) /\ Len(q) = n - 1
      /\ \A i \in 1..n - 1 : q[i] = IF i <= from - 1 THEN a[i] ELSE b[i - (from - 1)]
  <2>1. from - 1 \in Nat /\ n - from \in Nat /\ (from - 1) + (n - from) = n - 1
    BY <1>1
  <2>2. /\ q \in Seq(S) /\ Len(q) = Len(a) + Len(b)
        /\ \A i \in 1..Len(a) + Len(b) : q[i] = IF i <= Len(a) THEN a[i] ELSE b[i - Len(a)]
    BY <1>2, ConcatProperties
  <2>3. Len(a) = from - 1 /\ Len(b) = n - from
    BY <1>2
  <2>. HIDE DEF q
  <2>. QED  BY <2>1, <2>2, <2>3
<1>4. ASSUME NEW i \in 1..n - 1
      PROVE  q[i] = IF i >= from THEN s[i + 1] ELSE s[i]
  <2>1. q[i] = IF i <= from - 1 THEN a[i] ELSE b[i - (from - 1)]
    BY <1>3
  <2>. HIDE DEF q
  <2>2. CASE i <= from - 1
    BY <1>1, <1>2, <2>1, <2>2
  <2>3. CASE i > from - 1
    <3>1. i - (from - 1) \in 1..n - from /\ from + (i - (from - 1)) = i + 1
      BY <1>1, <2>3
    <3>. QED  BY <1>1, <1>2, <2>1, <2>3, <3>1
  <2>4. i <= from - 1 \/ i > from - 1
    BY <1>1
  <2>. QED  BY <2>2, <2>3, <2>4
<1>. HIDE DEF q
<1>5. /\ c \in Seq(S) /\ Len(c) = to - 1 /\ \A i \in 1..to - 1 : c[i] = q[i]
      /\ d \in Seq(S) /\ Len(d) = n - to /\ \A i \in 1..n - to : d[i] = q[to + i - 1]
  BY <1>1, <1>3
<1>6. Moved(s, from, to) = c \o <<s[from]>> \o d
  BY DEF Moved, InsertAt, RemoveAt, q, a, b, n
<1>. HIDE DEF c, d
<1>. DEFINE e == c \o <<s[from]>>
            m == e \o d
<1>7. e \in Seq(S) /\ Len(e) = to /\ e[to] = s[from] /\ \A i \in 1..to - 1 : e[i] = c[i]
  BY <1>1, <1>5
<1>. HIDE DEF e
<1>8. /\ m \in Seq(S) /\ Len(m) = n
      /\ \A i \in 1..n : m[i] = IF i <= to THEN e[i] ELSE d[i - to]
  <2>1. to \in Nat /\ n - to \in Nat /\ to + (n - to) = n
    BY <1>1
  <2>2. /\ m \in Seq(S) /\ Len(m) = Len(e) + Len(d)
        /\ \A i \in 1..Len(e) + Len(d) : m[i] = IF i <= Len(e) THEN e[i] ELSE d[i - Len(e)]
    BY <1>5, <1>7, ConcatProperties
  <2>3. Len(e) = to /\ Len(d) = n - to
    BY <1>5, <1>7
  <2>. HIDE DEF m
  <2>. QED  BY <2>1, <2>2, <2>3
<1>. HIDE DEF m
<1>9. ASSUME NEW i \in 1..n
      PROVE  m[i] = s[WasAt(from, to, i)]
  <2>1. CASE i = to
    BY <1>1, <1>7, <1>8, <2>1 DEF WasAt
  <2>2. CASE i < to
    <3>1. m[i] = q[i] /\ i \in 1..n - 1
      BY <1>1, <1>5, <1>7, <1>8, <2>2
    <3>. QED  BY <1>1, <1>4, <2>2, <3>1 DEF WasAt
  <2>3. CASE i > to
    <3>1. m[i] = q[i - 1] /\ i - 1 \in 1..n - 1
      <4>1. i - to \in 1..n - to /\ to + (i - to) - 1 = i - 1
        BY <1>1, <2>3
      <4>. QED  BY <1>1, <1>5, <1>8, <2>3, <4>1
    <3>. QED  BY <1>1, <1>4, <2>3, <3>1 DEF WasAt
  <2>. QED  BY <1>1, <2>1, <2>2, <2>3
<1>. QED  BY <1>6, <1>8, <1>9 DEF m, e, n

LEMMA WasAtIsOneToOne ==
    ASSUME NEW n \in Nat, NEW from \in 1..n, NEW to \in 1..n
    PROVE  /\ \A i \in 1..n : WasAt(from, to, i) \in 1..n
           /\ \A i, j \in 1..n : WasAt(from, to, i) = WasAt(from, to, j) => i = j
BY DEF WasAt

LEMMA MovedKeepsOnce ==
    ASSUME NEW S, NEW s \in Seq(S), NEW from \in 1..Len(s), NEW to \in 1..Len(s)
    PROVE  /\ Moved(s, from, to) \in Seq(S)
           /\ ToSet(Moved(s, from, to)) \subseteq ToSet(s)
           /\ IsInjective(s) => IsInjective(Moved(s, from, to))
<1>. DEFINE w == Moved(s, from, to)
            p(i) == WasAt(from, to, i)
<1>1. /\ w \in Seq(S) /\ Len(w) = Len(s) /\ Len(s) \in Nat
      /\ \A i \in 1..Len(s) : w[i] = s[p(i)]
  BY MovedFacts
<1>2. /\ \A i \in 1..Len(s) : p(i) \in 1..Len(s)
      /\ \A i, j \in 1..Len(s) : p(i) = p(j) => i = j
  BY <1>1, WasAtIsOneToOne
<1>. HIDE DEF w, p
<1>3. DOMAIN w = 1..Len(s) /\ DOMAIN s = 1..Len(s)
  BY <1>1
<1>4. ToSet(w) \subseteq ToSet(s)
  BY <1>1, <1>2, <1>3 DEF ToSet
<1>5. ASSUME IsInjective(s), NEW i \in 1..Len(s), NEW j \in 1..Len(s), w[i] = w[j]
      PROVE  i = j
  <2>1. p(i) \in DOMAIN s /\ p(j) \in DOMAIN s /\ s[p(i)] = s[p(j)]
    BY <1>1, <1>2, <1>3, <1>5
  <2>2. p(i) = p(j)
    BY <1>5, <2>1 DEF IsInjective
  <2>. QED  BY <1>2, <2>2
<1>6. IsInjective(s) => IsInjective(w)
  BY <1>3, <1>5 DEF IsInjective
<1>. QED  BY <1>1, <1>4, <1>6 DEF w

\* The form, inductively: no Type is twice in the hierarchy, nor offered when in it.
FormInv ==
    /\ FormTypeOK
    /\ IsInjective(pickingHierarchy)
    /\ addHierarchyTypeId \notin ToSet(pickingHierarchy)
    /\ RefusalIsForAFactor
    /\ FormShowsSent

LEMMA FormInitInv == FormInit => FormInv
<1>. SUFFICES ASSUME FormInit PROVE FormInv
  OBVIOUS
<1>1. pickingHierarchy = <<>> /\ addHierarchyTypeId = Blank /\ sent = Untouched /\ screen = "form"
  BY DEF FormInit
<1>2. isEdit \in BOOLEAN /\ baseTypeId \in Rows
  BY DEF FormInit, Rows
<1>3. roleAssignments \in [FormRoles -> Rows \cup {Untouched}]
  BY DEF FormInit, Rows
<1>4. conversionFactors \in [Rows -> Factors]
  BY FormAssumption DEF FormInit, Factors
<1>5. pickingHierarchy \in Seq(FormTypes) /\ ToSet(pickingHierarchy) = {}
  BY <1>1 DEF ToSet
<1>6. IsInjective(pickingHierarchy)
  BY <1>1 DEF IsInjective
<1>. QED  BY <1>1, <1>2, <1>3, <1>4, <1>5, <1>6
          DEF FormInv, FormTypeOK, RefusalIsForAFactor, FormShowsSent, isSubmitting, Rows

\* A step in which nothing is in flight before or after.
LEMMA NothingSent ==
    ASSUME FormTypeOK', IsInjective(pickingHierarchy)',
           addHierarchyTypeId' \notin ToSet(pickingHierarchy'), sent' = Untouched
    PROVE  FormInv'
BY DEF FormInv, RefusalIsForAFactor, FormShowsSent, isSubmitting

\* What the checks say of a body does not change unless a field does.
LEMMA SameFieldsSameChecks ==
    ASSUME RefusalIsForAFactor,
           UNCHANGED <<baseTypeId, roleAssignments, conversionFactors, sent>>
    PROVE  RefusalIsForAFactor'
<1>1. isSubmitting' = isSubmitting
  BY DEF isSubmitting
<1>2. PassesChecks(sent)' <=> PassesChecks(sent)
  BY DEF PassesChecks, CompleteBody, WellFormedBody, IsFactorRow
<1>3. FactorsAreFilledIn' <=> FactorsAreFilledIn
  BY DEF FactorsAreFilledIn, reachableNonBaseTypeIds
<1>. QED  BY <1>1, <1>2, <1>3 DEF RefusalIsForAFactor

LEMMA PrefixAppend ==
    ASSUME NEW S, NEW s \in Seq(S), NEW t \in Seq(S), NEW e \in S, IsPrefix(s, t)
    PROVE  IsPrefix(s, Append(t, e))
<1>1. Len(s) <= Len(t) /\ Len(s) \in Nat /\ Len(t) \in Nat
  BY DEF IsPrefix
<1>2. Append(t, e) \in Seq(S) /\ Len(Append(t, e)) = Len(t) + 1
  OBVIOUS
<1>3. SubSeq(Append(t, e), 1, Len(s)) = SubSeq(t, 1, Len(s))
  BY <1>1, <1>2
<1>. QED  BY <1>1, <1>2, <1>3 DEF IsPrefix

LEMMA AppendOnce ==
    ASSUME NEW S, NEW s \in Seq(S), NEW e \in S, IsInjective(s), e \notin ToSet(s)
    PROVE  IsInjective(Append(s, e)) /\ ToSet(Append(s, e)) = ToSet(s) \cup {e}
<1>1. /\ DOMAIN s = 1..Len(s) /\ DOMAIN Append(s, e) = 1..Len(s) + 1 /\ Len(s) \in Nat
      /\ Append(s, e)[Len(s) + 1] = e /\ \A i \in 1..Len(s) : Append(s, e)[i] = s[i]
  OBVIOUS
<1>. DEFINE w == Append(s, e)
<1>. HIDE DEF w
<1>2. \A i \in 1..Len(s) + 1 : i \in 1..Len(s) \/ i = Len(s) + 1
  BY <1>1
<1>3. 1..Len(s) \subseteq 1..Len(s) + 1 /\ Len(s) + 1 \in 1..Len(s) + 1
  BY <1>1
<1>. QED  BY <1>1, <1>2, <1>3 DEF w, IsInjective, ToSet

LEMMA FormNextInv == FormInv /\ [FormNext]_formVars => FormInv'
<1>. SUFFICES ASSUME FormInv, [FormNext]_formVars
              PROVE  FormInv'
  OBVIOUS
<1>1. /\ FormTypeOK /\ IsInjective(pickingHierarchy)
      /\ addHierarchyTypeId \notin ToSet(pickingHierarchy)
      /\ pickingHierarchy \in Seq(FormTypes)
  BY DEF FormInv, FormTypeOK
<1>2. ASSUME NEW t \in FormTypes, ChooseBase(t)
      PROVE  FormInv'
  BY <1>1, <1>2, NothingSent
     DEF ChooseBase, Editable, isSubmitting, FormTypeOK, Rows, hierarchyFields
<1>3. ASSUME NEW r \in FormRoles, NEW t \in Rows, AssignRole(r, t)
      PROVE  FormInv'
  <2>1. roleAssignments' \in [FormRoles -> Rows \cup {Untouched}]
    BY <1>1, <1>3 DEF AssignRole, FormTypeOK
  <2>. QED  BY <1>1, <1>3, <2>1, NothingSent
            DEF AssignRole, Editable, isSubmitting, FormTypeOK, hierarchyFields
<1>4. ASSUME NEW t \in Rows, NEW n \in Factors, TypeFactor(t, n)
      PROVE  FormInv'
  <2>1. conversionFactors' \in [Rows -> Factors]
    BY <1>1, <1>4 DEF TypeFactor, FormTypeOK
  <2>. QED  BY <1>1, <1>4, <2>1, NothingSent
            DEF TypeFactor, Editable, isSubmitting, FormTypeOK, hierarchyFields
<1>5. ASSUME NEW from \in DOMAIN pickingHierarchy, NEW to \in DOMAIN pickingHierarchy,
             ReorderHierarchy(from, to)
      PROVE  FormInv'
  <2>1. PICK h \in Seq(FormTypes) : h = Moved(pickingHierarchy, from, to)
    BY <1>1, MovedKeepsOnce
  <2>2. IsInjective(h) /\ ToSet(h) \subseteq ToSet(pickingHierarchy)
    BY <1>1, <2>1, MovedKeepsOnce
  <2>3. pickingHierarchy' = h
    BY <1>5, <2>1 DEF ReorderHierarchy
  <2>. QED  BY <1>1, <1>5, <2>1, <2>2, <2>3, NothingSent
            DEF ReorderHierarchy, Editable, isSubmitting, FormTypeOK, assignmentFields
<1>6. ASSUME NEW t \in FormTypes, RemoveFromHierarchy(t)
      PROVE  FormInv'
  <2>1. PICK h \in Seq(FormTypes) : h = Filter(pickingHierarchy, Rows \ {t})
    BY <1>1, FilterKeepsOnce
  <2>2. IsInjective(h) /\ ToSet(h) \subseteq ToSet(pickingHierarchy)
    BY <1>1, <2>1, FilterKeepsOnce
  <2>3. pickingHierarchy' = h
    BY <1>6, <2>1 DEF RemoveFromHierarchy
  <2>. QED  BY <1>1, <1>6, <2>1, <2>2, <2>3, NothingSent
            DEF RemoveFromHierarchy, Editable, isSubmitting, FormTypeOK, assignmentFields
<1>7. ASSUME NEW t \in FormTypes, ChooseHierarchyType(t)
      PROVE  FormInv'
  <2>1. /\ t \notin ToSet(pickingHierarchy) /\ addHierarchyTypeId' = t
        /\ UNCHANGED <<isEdit, baseTypeId, roleAssignments, conversionFactors,
                       pickingHierarchy, sent, screen>>
    BY <1>7 DEF ChooseHierarchyType, assignmentFields
  <2>2. FormTypeOK'
    BY <1>1, <2>1 DEF FormTypeOK, Rows, IsBody
  <2>3. RefusalIsForAFactor'
    BY <2>1, SameFieldsSameChecks DEF FormInv
  <2>. QED  BY <1>1, <2>1, <2>2, <2>3 DEF FormInv, FormShowsSent, isSubmitting, SentRoles
<1>8. CASE AddToHierarchy
  <2>1. /\ addHierarchyTypeId \in FormTypes /\ addHierarchyTypeId' = Blank
        /\ pickingHierarchy' = Append(pickingHierarchy, addHierarchyTypeId)
        /\ UNCHANGED <<isEdit, baseTypeId, roleAssignments, conversionFactors, sent, screen>>
    BY <1>1, <1>8 DEF AddToHierarchy, assignmentFields, FormTypeOK, Rows
  <2>2. /\ pickingHierarchy' \in Seq(FormTypes) /\ IsInjective(pickingHierarchy')
        /\ addHierarchyTypeId' \notin ToSet(pickingHierarchy')
    <3>1. IsInjective(pickingHierarchy') /\ ToSet(pickingHierarchy') = ToSet(pickingHierarchy) \cup {addHierarchyTypeId}
      BY <1>1, <2>1, AppendOnce
    <3>2. ToSet(pickingHierarchy) \subseteq FormTypes
      BY <1>1 DEF ToSet
    <3>3. pickingHierarchy' \in Seq(FormTypes)
      BY <1>1, <2>1
    <3>. QED  BY <2>1, <3>1, <3>2, <3>3, FormAssumption
  <2>3. FormTypeOK'
    BY <1>1, <2>1, <2>2 DEF FormTypeOK, Rows, IsBody
  <2>4. isSubmitting => IsPrefix(sent.hierarchy, pickingHierarchy')
    BY <1>1, <2>1, PrefixAppend DEF FormInv, FormShowsSent, isSubmitting, FormTypeOK, IsBody
  <2>5. RefusalIsForAFactor'
    BY <2>1, SameFieldsSameChecks DEF FormInv
  <2>6. FormShowsSent'
    BY <2>1, <2>4 DEF FormInv, FormShowsSent, isSubmitting, SentRoles
  <2>. QED  BY <2>2, <2>3, <2>5, <2>6 DEF FormInv
<1>9. CASE Save
  <2>. DEFINE b == [base |-> baseTypeId, roles |-> SentRoles,
                    factors |-> [t \in reachableNonBaseTypeIds |-> conversionFactors[t]],
                    hierarchy |-> pickingHierarchy]
  <2>1. /\ b.base = baseTypeId /\ b.roles = SentRoles /\ b.hierarchy = pickingHierarchy
        /\ b.factors = [t \in reachableNonBaseTypeIds |-> conversionFactors[t]]
    OBVIOUS
  <2>2. /\ sent' = b /\ baseTypeId # Blank
        /\ UNCHANGED <<isEdit, baseTypeId, roleAssignments, conversionFactors,
                       pickingHierarchy, addHierarchyTypeId, screen>>
    BY <1>9 DEF Save, assignmentFields, hierarchyFields
  <2>. HIDE DEF b
  <2>3. reachableNonBaseTypeIds \subseteq Rows
    BY <1>1 DEF reachableNonBaseTypeIds, FormTypeOK
  <2>4. b.factors \in [reachableNonBaseTypeIds -> Factors]
    BY <1>1, <2>1, <2>3 DEF FormTypeOK
  <2>5. SentRoles \in [FormRoles -> FormTypes \cup {Untouched}]
    BY <1>1 DEF SentRoles, FormTypeOK, Rows
  <2>6. IsBody(b)
    <3>1. b.factors \in UNION {[r -> Factors] : r \in SUBSET Rows}
      BY <2>3, <2>4
    <3>. QED  BY <1>1, <2>1, <2>2, <2>5, <3>1 DEF IsBody, FormTypeOK, Rows
  <2>7. FormTypeOK'
    BY <1>1, <2>2, <2>6 DEF FormTypeOK
  <2>8. CompleteBody(b)
    BY <1>1, <2>1, <2>4 DEF CompleteBody, SentRoles, reachableNonBaseTypeIds, FormTypeOK
  <2>9. WellFormedBody(b) <=> FactorsAreFilledIn
    <3>1. b.base # Blank /\ \A r \in FormRoles : b.roles[r] # Blank
      BY <2>1, <2>2, <2>5, FormAssumption
    <3>2. Blank \notin ToSet(b.hierarchy) /\ IsInjective(b.hierarchy)
      BY <1>1, <2>1, FormAssumption DEF ToSet
    <3>3. (\A t \in DOMAIN b.factors : t # Blank /\ b.factors[t] > 0) <=> FactorsAreFilledIn
      BY <2>1 DEF FactorsAreFilledIn
    <3>. QED  BY <3>1, <3>2, <3>3 DEF WellFormedBody, IsFactorRow
  <2>10. RefusalIsForAFactor'
    <3>1. FactorsAreFilledIn' <=> FactorsAreFilledIn
      BY <2>2 DEF FactorsAreFilledIn, reachableNonBaseTypeIds
    <3>2. PassesChecks(sent)' <=> PassesChecks(b)
      BY <2>2 DEF PassesChecks, CompleteBody, WellFormedBody, IsFactorRow
    <3>. QED  BY <2>8, <2>9, <3>1, <3>2 DEF RefusalIsForAFactor, PassesChecks
  <2>11. IsPrefix(pickingHierarchy, pickingHierarchy)
    BY <1>1 DEF IsPrefix
  <2>12. FormShowsSent'
    <3>1. SentRoles' = SentRoles
      BY <2>2 DEF SentRoles
    <3>2. \A t \in DOMAIN b.factors : conversionFactors[t] = b.factors[t]
      BY <2>1
    <3>. QED  BY <2>1, <2>2, <2>11, <3>1, <3>2 DEF FormShowsSent
  <2>. QED  BY <1>1, <2>2, <2>7, <2>10, <2>12 DEF FormInv
<1>10. CASE SaveAnswered
  BY <1>1, <1>10, NothingSent DEF SaveAnswered, FormTypeOK, assignmentFields, hierarchyFields
<1>11. CASE SaveRejected
  BY <1>1, <1>11, NothingSent DEF SaveRejected, FormTypeOK, assignmentFields, hierarchyFields
<1>12. ASSUME UNCHANGED <<isEdit, assignmentFields, hierarchyFields, sent>>,
              screen' \in {"form", "list", "detail"}
       PROVE  FormInv'
  <2>1. RefusalIsForAFactor'
    BY <1>12, SameFieldsSameChecks DEF FormInv, assignmentFields
  <2>. QED
    BY <1>1, <1>12, <2>1
       DEF FormInv, FormTypeOK, IsBody, FormShowsSent, isSubmitting, SentRoles,
           assignmentFields, hierarchyFields
<1>13. CASE LeaveForm
  BY <1>12, <1>13 DEF LeaveForm
<1>14. CASE UNCHANGED formVars
  BY <1>1, <1>12, <1>14 DEF formVars, FormTypeOK
<1>. QED
  BY <1>2, <1>3, <1>4, <1>5, <1>6, <1>7, <1>8, <1>9, <1>10, <1>11, <1>13, <1>14 DEF FormNext

\* Whatever the fields went through, while a body is in flight the form shows
\* what was sent, and the server's checks of the body refuse it exactly when a row
\* of the Conversion Factors on the form is empty, 0 or of no Type.
THEOREM SentIsAlwaysShown == FormSpec => [](FormTypeOK /\ SentIsShown)
<1>1. FormSpec => []FormInv
  BY FormInitInv, FormNextInv, PTL DEF FormSpec
<1>2. FormInv => FormTypeOK /\ SentIsShown
  BY DEF FormInv, SentIsShown
<1>. QED  BY <1>1, <1>2, PTL

-----------------------------------------------------------------------------
(* The dialog for imports.                                                 *)

LEMMA RemoveAtTyped ==
    ASSUME NEW S, NEW s \in Seq(S), NEW i \in 1..Len(s)
    PROVE  RemoveAt(s, i) \in Seq(S)
<1>1. SubSeq(s, 1, i - 1) \in Seq(S) /\ SubSeq(s, i + 1, Len(s)) \in Seq(S)
  OBVIOUS
<1>. QED  BY <1>1, ConcatProperties DEF RemoveAt

\* The elements of r are those of s, each at a place that h gives.
Rearranged(h, r, s) ==
    /\ h \in [1..Len(r) -> 1..Len(s)]
    /\ \A j \in 1..Len(r) : r[j] = s[h[j]]
    /\ \A j, k \in 1..Len(r) : h[j] = h[k] => j = k
    /\ \A i \in 1..Len(s) : \E j \in 1..Len(r) : h[j] = i

LEMMA RearrangedCounts ==
    ASSUME NEW S, NEW r \in Seq(S), NEW s \in Seq(S), NEW h, Rearranged(h, r, s)
    PROVE  /\ Len(r) = Len(s)
           /\ \A e : Occurrences(r, e) = Occurrences(s, e)
<1>1. DOMAIN r = 1..Len(r) /\ DOMAIN s = 1..Len(s) /\ Len(r) \in Nat /\ Len(s) \in Nat
  OBVIOUS
<1>2. Len(r) = Len(s)
  <2>1. h \in Bijection(1..Len(r), 1..Len(s))
    BY Fun_IsBij DEF Rearranged
  <2>2. ExistsBijection(1..Len(r), 1..Len(s))
    BY <2>1 DEF ExistsBijection
  <2>3. IsFiniteSet(1..Len(r)) /\ Cardinality(1..Len(r)) = Len(r) /\ Cardinality(1..Len(s)) = Len(s)
    <3>1. \A n \in Nat : IsFiniteSet(1..n) /\ Cardinality(1..n) = IF 1 > n THEN 0 ELSE n - 1 + 1
      BY FS_Interval
    <3>2. \A n \in Nat : IsFiniteSet(1..n) /\ Cardinality(1..n) = n
      BY <3>1
    <3>. QED  BY <1>1, <3>2
  <2>. QED  BY <2>2, <2>3, FS_Bijection
<1>3. ASSUME NEW e
      PROVE  Occurrences(r, e) = Occurrences(s, e)
  <2>. DEFINE A == {k \in DOMAIN r : r[k] = e}
              B == {k \in DOMAIN s : s[k] = e}
              g == [k \in A |-> h[k]]
  <2>1. g \in [A -> B] /\ \A j, k \in A : g[j] = g[k] => j = k
    BY <1>1 DEF Rearranged
  <2>2. \A i \in B : \E k \in A : g[k] = i
    BY <1>1 DEF Rearranged
  <2>3. IsFiniteSet(A)
    <3>1. IsFiniteSet(1..Len(r)) /\ A \subseteq 1..Len(r)
      BY <1>1, FS_Interval
    <3>. QED  BY <3>1, FS_Subset
  <2>. HIDE DEF A, B, g
  <2>4. g \in Bijection(A, B)
    BY <2>1, <2>2, Fun_IsBij
  <2>5. Cardinality(A) = Cardinality(B)
    BY <2>3, <2>4, FS_Bijection DEF ExistsBijection
  <2>. QED  BY <2>5 DEF Occurrences, A, B
<1>. QED  BY <1>2, <1>3

\* A sequence, split by a condition.
LEMMA SplitRearranged ==
    ASSUME NEW S, NEW s \in Seq(S), NEW K
    PROVE  LET a == Filter(s, S \ K)
               b == Filter(s, K)
           IN  /\ a \in Seq(S) /\ b \in Seq(S)
               /\ a \o b \in Seq(S)
               /\ Len(a \o b) = Len(a) + Len(b)
               /\ \E h : Rearranged(h, a \o b, s)
<1>. DEFINE a == Filter(s, S \ K)
            b == Filter(s, K)
            r == a \o b
<1>1. /\ a \in Seq(S) /\ \E f : Places(f, a, s, S \ K, Len(s))
      /\ b \in Seq(S) /\ \E f : Places(f, b, s, K, Len(s))
  BY FilterFacts
<1>. HIDE DEF a, b
<1>2. PICK f : Places(f, a, s, S \ K, Len(s))
  BY <1>1
<1>3. PICK g : Places(g, b, s, K, Len(s))
  BY <1>1
<1>4. /\ r \in Seq(S) /\ Len(r) = Len(a) + Len(b)
      /\ \A i \in 1..Len(a) + Len(b) : r[i] = IF i <= Len(a) THEN a[i] ELSE b[i - Len(a)]
  BY <1>1, ConcatProperties
<1>. HIDE DEF r
<1>. DEFINE h == [i \in 1..Len(r) |-> IF i <= Len(a) THEN f[i] ELSE g[i - Len(a)]]
<1>5. /\ Len(a) \in Nat /\ Len(b) \in Nat /\ Len(s) \in Nat
      /\ \A i \in 1..Len(s) : s[i] \in S
  BY <1>1
<1>6. \A i \in 1..Len(r) : \/ i \in 1..Len(a) /\ i <= Len(a)
                           \/ i - Len(a) \in 1..Len(b) /\ ~(i <= Len(a))
  BY <1>4, <1>5
<1>7. ASSUME NEW i \in 1..Len(r)
      PROVE  h[i] \in 1..Len(s) /\ r[i] = s[h[i]] /\ (i <= Len(a) <=> s[h[i]] \notin K)
  <2>1. CASE i \in 1..Len(a) /\ i <= Len(a)
    <3>1. h[i] = f[i] /\ r[i] = a[i]
      BY <1>4, <2>1
    <3>. QED  BY <1>2, <2>1, <3>1 DEF Places
  <2>2. CASE i - Len(a) \in 1..Len(b) /\ ~(i <= Len(a))
    <3>1. h[i] = g[i - Len(a)] /\ r[i] = b[i - Len(a)]
      BY <1>4, <2>2
    <3>. QED  BY <1>3, <2>2, <3>1 DEF Places
  <2>. QED  BY <1>6, <2>1, <2>2
<1>8. ASSUME NEW i \in 1..Len(r), NEW j \in 1..Len(r), h[i] = h[j]
      PROVE  i = j
  <2>1. i <= Len(a) <=> j <= Len(a)
    <3>. HIDE DEF h
    <3>. QED  BY <1>7, <1>8
  <2>2. CASE i \in 1..Len(a) /\ j \in 1..Len(a) /\ i <= Len(a) /\ j <= Len(a)
    <3>1. f[i] = f[j]
      BY <1>8, <2>2
    <3>. QED  BY <1>2, <2>2, <3>1 DEF Places
  <2>3. CASE /\ i - Len(a) \in 1..Len(b) /\ ~(i <= Len(a))
             /\ j - Len(a) \in 1..Len(b) /\ ~(j <= Len(a))
    <3>1. g[i - Len(a)] = g[j - Len(a)]
      BY <1>8, <2>3
    <3>2. i - Len(a) = j - Len(a)
      BY <1>3, <2>3, <3>1 DEF Places
    <3>. QED  BY <1>4, <1>5, <3>2
  <2>. QED  BY <1>6, <2>1, <2>2, <2>3
<1>9. ASSUME NEW k \in 1..Len(s)
      PROVE  \E i \in 1..Len(r) : h[i] = k
  <2>1. CASE s[k] \notin K
    <3>1. PICK j \in 1..Len(a) : f[j] = k
      BY <1>2, <1>5, <2>1 DEF Places
    <3>2. j \in 1..Len(r) /\ j <= Len(a)
      BY <1>4, <1>5
    <3>3. h[j] = k
      BY <3>1, <3>2
    <3>. QED  BY <3>2, <3>3
  <2>2. CASE s[k] \in K
    <3>1. PICK j \in 1..Len(b) : g[j] = k
      BY <1>3, <2>2 DEF Places
    <3>2. j + Len(a) \in 1..Len(r) /\ ~(j + Len(a) <= Len(a)) /\ (j + Len(a)) - Len(a) = j
      BY <1>4, <1>5
    <3>3. h[j + Len(a)] = k
      BY <3>1, <3>2
    <3>. QED  BY <3>2, <3>3
  <2>. QED  BY <2>1, <2>2
<1>10. h \in [1..Len(r) -> 1..Len(s)]
  BY <1>7
<1>. HIDE DEF h
<1>11. Rearranged(h, r, s)
  BY <1>7, <1>8, <1>9, <1>10 DEF Rearranged
<1>. QED  BY <1>1, <1>4, <1>11 DEF a, b, r

Job == [at : {"lists", "server", "answer", "refresh"}, rows : Seq(TextRow), mapped : BOOLEAN,
        from : {"user", "late"}, done : Seq({"created", "rejected"})]

LEMMA JobFields ==
    ASSUME NEW job \in Job
    PROVE  /\ job.at \in {"lists", "server", "answer", "refresh"}
           /\ job.rows \in Seq(TextRow) /\ job.mapped \in BOOLEAN
           /\ job.from \in {"user", "late"}
           /\ job.done \in Seq({"created", "rejected"})
           /\ job # NoImport
BY DEF Job, NoImport

LEMMA FunctionIsSeq ==
    ASSUME NEW S, NEW n \in Nat, NEW f \in [1..n -> S]
    PROVE  f \in Seq(S) /\ Len(f) = n /\ DOMAIN f = 1..n
<1>1. f \in Seq(S)
  BY SeqDef
<1>2. DOMAIN f = 1..n
  OBVIOUS
<1>. QED  BY <1>1, <1>2, LenProperties

\* ReportIsOfText, of any report and import.
Reports(res, job) ==
    /\ \A line \in ToSet(job.rows) :
          Occurrences([k \in DOMAIN res |-> res[k].row], line) = Occurrences(job.rows, line)
    /\ Len(res) = Len(job.rows)
    /\ \A k \in DOMAIN Importable(job) :
          job.done[k] = "created" =>
              \E j \in DOMAIN res : res[j] = [row |-> Importable(job)[k], status |-> "imported"]
    /\ \A j \in DOMAIN res : res[j].status = "imported" => res[j].row.known

LEMMA SentCanBeSent ==
    ASSUME NEW job \in Job
    PROVE  /\ Importable(job) \in Seq(TextRow) /\ Excluded(job) \in Seq(TextRow)
           /\ \A k \in 1..Len(Importable(job)) : Importable(job)[k] \in CanBeSent(job)
<1>1. job.rows \in Seq(TextRow)
  BY JobFields
<1>2. Importable(job) \in Seq(TextRow) /\ Excluded(job) \in Seq(TextRow)
  BY <1>1, FilterFacts DEF Importable, Excluded
<1>3. PICK f : Places(f, Importable(job), job.rows, CanBeSent(job), Len(job.rows))
  BY <1>1, FilterFacts DEF Importable
<1>. QED  BY <1>2, <1>3 DEF Places

LEMMA ReportHolds ==
    ASSUME NEW job \in Job, Len(job.done) = Len(Importable(job))
    PROVE  ReportOf(job) \in Seq(Result) /\ Reports(ReportOf(job), job)
<1>. DEFINE a == Excluded(job)
            b == Importable(job)
            x == [k \in DOMAIN a |-> [row |-> a[k], status |-> "excluded"]]
            y == FromApi(job)
            res == x \o y
            r == [k \in DOMAIN res |-> res[k].row]
<1>1. /\ a \in Seq(TextRow) /\ b \in Seq(TextRow) /\ job.done \in Seq({"created", "rejected"})
      /\ \A k \in 1..Len(b) : b[k] \in CanBeSent(job)
  BY SentCanBeSent, JobFields
<1>2. /\ a \o b \in Seq(TextRow) /\ Len(a \o b) = Len(a) + Len(b)
      /\ \E h : Rearranged(h, a \o b, job.rows)
  <2>1. job.rows \in Seq(TextRow)
    BY JobFields
  <2>. QED  BY <2>1, SplitRearranged DEF Excluded, Importable
<1>3. /\ DOMAIN a = 1..Len(a) /\ DOMAIN b = 1..Len(b) /\ DOMAIN job.done = 1..Len(b)
      /\ Len(a) \in Nat /\ Len(b) \in Nat
  BY <1>1
<1>4. /\ x \in [1..Len(a) -> Result]
      /\ \A k \in 1..Len(a) : x[k] = [row |-> a[k], status |-> "excluded"]
  <2>1. \A k \in 1..Len(a) : a[k] \in TextRow
    BY <1>1
  <2>. QED  BY <1>3, <2>1 DEF Result
<1>5. /\ y \in [1..Len(b) -> Result]
      /\ \A k \in 1..Len(b) : y[k] = [row |-> b[k], status |-> Status(job.done[k])]
  <2>1. \A k \in 1..Len(b) : b[k] \in TextRow /\ Status(job.done[k]) \in {"imported", "excluded"}
    BY <1>1 DEF Status
  <2>. QED  BY <1>3, <2>1 DEF Result, FromApi
<1>6. x \in Seq(Result) /\ Len(x) = Len(a) /\ y \in Seq(Result) /\ Len(y) = Len(b)
  BY <1>3, <1>4, <1>5, FunctionIsSeq
<1>. HIDE DEF x, y
<1>7. /\ res \in Seq(Result) /\ Len(res) = Len(a) + Len(b)
      /\ \A i \in 1..Len(a) + Len(b) : res[i] = IF i <= Len(a) THEN x[i] ELSE y[i - Len(a)]
  <2>1. /\ res \in Seq(Result) /\ Len(res) = Len(x) + Len(y)
        /\ \A i \in 1..Len(x) + Len(y) : res[i] = IF i <= Len(x) THEN x[i] ELSE y[i - Len(x)]
    BY <1>6, ConcatProperties
  <2>. HIDE DEF res
  <2>. QED  BY <1>6, <2>1
<1>. DEFINE c == a \o b
<1>8. \A i \in 1..Len(a) + Len(b) : c[i] = IF i <= Len(a) THEN a[i] ELSE b[i - Len(a)]
  BY <1>1, ConcatProperties
<1>9. c \in Seq(TextRow) /\ Len(c) = Len(a) + Len(b) /\ \E h : Rearranged(h, c, job.rows)
  BY <1>2
<1>10. DOMAIN res = 1..Len(a) + Len(b) /\ DOMAIN c = 1..Len(a) + Len(b)
  <2>. HIDE DEF res, c
  <2>. QED  BY <1>7, <1>9
<1>. HIDE DEF a, b, c, res
<1>11. \A i \in 1..Len(a) + Len(b) : \/ i \in 1..Len(a) /\ i <= Len(a)
                                     \/ i - Len(a) \in 1..Len(b) /\ ~(i <= Len(a))
  BY <1>3
<1>12. ASSUME NEW i \in 1..Len(a) + Len(b)
       PROVE  res[i].row = c[i]
  <2>1. CASE i \in 1..Len(a) /\ i <= Len(a)
    <3>1. res[i] = [row |-> a[i], status |-> "excluded"] /\ c[i] = a[i]
      BY <1>4, <1>7, <1>8, <2>1
    <3>. QED  BY <3>1
  <2>2. CASE i - Len(a) \in 1..Len(b) /\ ~(i <= Len(a))
    <3>1. /\ res[i] = [row |-> b[i - Len(a)], status |-> Status(job.done[i - Len(a)])]
          /\ c[i] = b[i - Len(a)]
      BY <1>5, <1>7, <1>8, <2>2
    <3>. QED  BY <3>1
  <2>. QED  BY <1>11, <2>1, <2>2
<1>13. r = c
  BY <1>9, <1>10, <1>12
<1>14. Len(c) = Len(job.rows) /\ \A e : Occurrences(c, e) = Occurrences(job.rows, e)
  <2>1. job.rows \in Seq(TextRow)
    BY JobFields
  <2>. QED  BY <1>9, <2>1, RearrangedCounts
<1>15. ASSUME NEW k \in 1..Len(b), job.done[k] = "created"
       PROVE  \E j \in DOMAIN res : res[j] = [row |-> b[k], status |-> "imported"]
  <2>1. k + Len(a) \in 1..Len(a) + Len(b) /\ ~(k + Len(a) <= Len(a)) /\ (k + Len(a)) - Len(a) = k
    BY <1>3
  <2>2. res[k + Len(a)] = y[k]
    BY <1>7, <2>1
  <2>3. y[k] = [row |-> b[k], status |-> "imported"]
    BY <1>5, <1>15 DEF Status
  <2>. QED  BY <1>10, <2>1, <2>2, <2>3
<1>16. ASSUME NEW j \in DOMAIN res, res[j].status = "imported"
       PROVE  res[j].row.known
  <2>1. CASE j \in 1..Len(a) /\ j <= Len(a)
    BY <1>4, <1>7, <1>10, <1>16, <2>1
  <2>2. CASE j - Len(a) \in 1..Len(b) /\ ~(j <= Len(a))
    <3>1. res[j].row = b[j - Len(a)]
      BY <1>5, <1>7, <1>10, <2>2
    <3>. QED  BY <1>1, <2>2, <3>1 DEF CanBeSent
  <2>. QED  BY <1>10, <1>11, <2>1, <2>2
<1>17. Reports(res, job)
  <2>1. \A line \in ToSet(job.rows) : Occurrences(r, line) = Occurrences(job.rows, line)
    BY <1>13, <1>14
  <2>2. Len(res) = Len(job.rows)
    BY <1>7, <1>9, <1>14
  <2>3. DOMAIN Importable(job) = 1..Len(b)
    BY <1>3 DEF b
  <2>. QED  BY <1>15, <1>16, <2>1, <2>2, <2>3 DEF Reports, b
<1>18. ReportOf(job) = res
  BY DEF ReportOf, res, x, y, a
<1>. QED  BY <1>7, <1>17, <1>18

-----------------------------------------------------------------------------
\* The text at hand, inductively: an exported one is only there in the mode for
\* exports, and a step past the first has a text.
TextFits ==
    /\ open \in BOOLEAN /\ mode \in {"import", "export"} /\ step \in 1..3
    /\ mapping \in {"none", "full"}
    /\ csvText.from \in {"nothing", "user", "export", "late"} /\ csvText.rows \in Seq(TextRow)
    /\ csvText.from = "export" => mode = "export"
    /\ csvText.from = "nothing" => csvText.rows = <<>>
    /\ step = 2 => csvText.from # "nothing"

\* The answers that an import has by each of its stages.
Paced(job) ==
    /\ job.at = "lists" => job.done = <<>>
    /\ job.at = "server" => Len(job.done) <= Len(Importable(job))
    /\ job.at = "answer" => Len(job.done) = Len(Importable(job))

FiniteNames == {x \in SUBSET GroupNames : IsFiniteSet(x)}

JobsFit ==
    /\ stored \in FiniteNames
    /\ importing = NoImport \/ (importing \in Job /\ Paced(importing))
    /\ exports \in Seq(FiniteNames)

ReportFits == results \in Seq(Result) /\ ReportIsOfText

ImportInv == TextFits /\ JobsFit /\ ReportFits

texts == <<open, mode, step, csvText, mapping>>

LEMMA TextsStay == ASSUME TextFits, UNCHANGED texts PROVE TextFits'
BY DEF TextFits, texts

LEMMA JobsStay == ASSUME JobsFit, UNCHANGED calls PROVE JobsFit'
BY DEF JobsFit, calls, Paced, Importable, CanBeSent

LEMMA ReportStays == ASSUME ReportFits, UNCHANGED report PROVE ReportFits'
BY DEF ReportFits, report, ReportIsOfText, Importable, CanBeSent, Occurrences

LEMMA NoReportFits == ASSUME NoReportShown PROVE ReportFits'
BY DEF ReportFits, NoReportShown, ReportIsOfText, NoReport

LEMMA NoTextFits ==
    ASSUME TextFits, step' = 1, csvText' = NoText, mapping' = "none",
           open' \in BOOLEAN, mode' \in {"import", "export"}
    PROVE  TextFits'
BY DEF TextFits, NoText

LEMMA ImportInitInv == ImportInit => ImportInv
<1>. SUFFICES ASSUME ImportInit PROVE ImportInv
  OBVIOUS
<1>1. TextFits
  <2>1. NoText.from = "nothing" /\ NoText.rows = <<>> /\ <<>> \in Seq(TextRow)
    BY DEF NoText
  <2>2. csvText = NoText /\ open = FALSE /\ mode = "import" /\ step = 1 /\ mapping = "none"
    BY DEF ImportInit
  <2>3. csvText.from = "nothing" /\ csvText.rows = <<>> /\ csvText.rows \in Seq(TextRow)
    BY <2>1, <2>2, Zenon
  <2>4. open \in BOOLEAN
    BY <2>2, Zenon
  <2>5. step \in 1..3 /\ step # 2
    <3>1. step = 1
      BY <2>2, Zenon
    <3>. QED  BY <3>1
  <2>. QED  BY <2>2, <2>3, <2>4, <2>5, Zenon DEF TextFits
<1>2. JobsFit
  <2>1. {} \in FiniteNames
    BY FS_EmptySet DEF FiniteNames
  <2>. QED  BY <2>1 DEF ImportInit, JobsFit
<1>3. ReportFits
  BY DEF ImportInit, ReportFits, ReportIsOfText, NoReport
<1>. QED  BY <1>1, <1>2, <1>3 DEF ImportInv

LEMMA NamesAsRows ==
    ASSUME NEW names \in FiniteNames
    PROVE  [k \in DOMAIN SetToSeq(names) |-> [name |-> SetToSeq(names)[k], known |-> TRUE]]
               \in Seq(TextRow)
<1>. DEFINE n == Cardinality(names)
            q == SetToSeq(names)
<1>1. IsFiniteSet(names) /\ names \subseteq GroupNames
  BY DEF FiniteNames
<1>2. n \in Nat /\ \E f : f \in [1..n -> names] /\ IsInjective(f)
  BY <1>1, FS_CardinalityType, Fun_BijectionProperties DEF ExistsBijection, Bijection, Injection
<1>3. q \in [1..n -> names]
  BY <1>2 DEF SetToSeq
<1>. HIDE DEF q, n
<1>4. DOMAIN q = 1..n /\ \A k \in 1..n : q[k] \in GroupNames
  BY <1>1, <1>3
<1>5. [k \in DOMAIN q |-> [name |-> q[k], known |-> TRUE]] \in [1..n -> TextRow]
  BY <1>4 DEF TextRow
<1>6. [k \in DOMAIN q |-> [name |-> q[k], known |-> TRUE]] \in Seq(TextRow)
  BY <1>2, <1>5, FunctionIsSeq
<1>. QED  BY <1>6 DEF q

\* An import moves on, or is over.
LEMMA JobMoves ==
    ASSUME JobsFit, NEW at \in {"lists", "server", "answer", "refresh"},
           NEW done \in Seq({"created", "rejected"}), importing # NoImport,
           importing' = [importing EXCEPT !.at = at, !.done = done],
           at = "lists" => done = <<>>,
           at = "server" => Len(done) <= Len(Importable(importing)),
           at = "answer" => Len(done) = Len(Importable(importing)),
           stored' \in FiniteNames, exports' = exports
    PROVE  JobsFit'
<1>1. importing \in Job
  BY DEF JobsFit
<1>2. \A j \in Job : LET i == [j EXCEPT !.at = at, !.done = done] IN
          /\ i \in Job /\ i.at = at /\ i.done = done /\ i.rows = j.rows /\ i.mapped = j.mapped
  BY DEF Job
<1>3. /\ importing' \in Job /\ importing'.at = at /\ importing'.done = done
      /\ importing'.rows = importing.rows /\ importing'.mapped = importing.mapped
  BY <1>1, <1>2
<1>4. Importable(importing)' = Importable(importing)
  BY <1>3 DEF Importable, CanBeSent
<1>5. Paced(importing')
  BY <1>3, <1>4 DEF Paced
<1>. QED  BY <1>3, <1>5 DEF JobsFit

LEMMA ImportNextInv == ImportInv /\ [ImportNext]_dialogVars => ImportInv'
<1>. SUFFICES ASSUME ImportInv, [ImportNext]_dialogVars
              PROVE  ImportInv'
  OBVIOUS
<1>1. TextFits /\ JobsFit /\ ReportFits
  BY DEF ImportInv
<1>2. CASE OpenDialog
  <2>1. TextFits'
    BY <1>1, <1>2 DEF OpenDialog, TextFits
  <2>. QED  BY <1>1, <1>2, <2>1, JobsStay, ReportStays DEF OpenDialog, ImportInv
<1>3. CASE CloseDialog
  <2>1. TextFits'
    BY <1>1, <1>3, NoTextFits DEF CloseDialog, Reset, TextFits
  <2>. QED  BY <1>1, <1>3, <2>1, JobsStay, NoReportFits DEF CloseDialog, Reset, ImportInv
<1>4. CASE SwitchToImport
  <2>1. TextFits'
    BY <1>1, <1>4, NoTextFits DEF SwitchToImport, Reset, TextFits
  <2>. QED  BY <1>1, <1>4, <2>1, JobsStay, NoReportFits DEF SwitchToImport, Reset, ImportInv
<1>5. CASE SwitchToExport
  <2>1. TextFits'
    BY <1>1, <1>5 DEF SwitchToExport, TextFits
  <2>2. exports' \in Seq(FiniteNames) /\ UNCHANGED <<stored, importing>>
    BY <1>1, <1>5 DEF SwitchToExport, JobsFit
  <2>3. JobsFit'
    BY <1>1, <2>2 DEF JobsFit, Paced, Importable, CanBeSent
  <2>. QED  BY <1>1, <1>5, <2>1, <2>3, ReportStays DEF SwitchToExport, ImportInv, report
<1>6. CASE NextStep
  <2>1. TextFits'
    BY <1>1, <1>6 DEF NextStep, TextFits
  <2>. QED  BY <1>1, <1>6, <2>1, JobsStay, ReportStays DEF NextStep, ImportInv
<1>7. CASE MapColumns
  <2>1. TextFits'
    BY <1>1, <1>7 DEF MapColumns, TextFits
  <2>. QED  BY <1>1, <1>7, <2>1, JobsStay, ReportStays DEF MapColumns, ImportInv
<1>8. CASE ImportAnother
  <2>1. TextFits'
    BY <1>1, <1>8, NoTextFits DEF ImportAnother, Reset, TextFits
  <2>. QED  BY <1>1, <1>8, <2>1, JobsStay, NoReportFits DEF ImportAnother, Reset, ImportInv
<1>9. ASSUME NEW text \in Texts, ChooseText(text)
      PROVE  ImportInv'
  <2>1. text \in Seq(TextRow)
    BY ImportAssumption
  <2>2. TextFits'
    BY <1>1, <1>9, <2>1 DEF ChooseText, TextFits
  <2>. QED  BY <1>1, <1>9, <2>2, JobsStay, ReportStays DEF ChooseText, ImportInv
<1>10. ASSUME NEW i \in DOMAIN exports, exports' = RemoveAt(exports, i), UNCHANGED <<stored, importing>>
       PROVE  JobsFit'
  <2>1. exports \in Seq(FiniteNames) /\ i \in 1..Len(exports)
    BY <1>1 DEF JobsFit
  <2>2. exports' \in Seq(FiniteNames)
    BY <1>10, <2>1, RemoveAtTyped
  <2>. QED  BY <1>1, <1>10, <2>2 DEF JobsFit, Paced, Importable, CanBeSent
<1>11. ASSUME NEW i \in 1..MaxExports, ExportAnswered(i)
       PROVE  ImportInv'
  <2>. DEFINE asRows == [k \in DOMAIN SetToSeq(exports[i]) |->
                            [name |-> SetToSeq(exports[i])[k], known |-> TRUE]]
  <2>1. i \in DOMAIN exports /\ exports[i] \in FiniteNames
    BY <1>1, <1>11 DEF ExportAnswered, JobsFit
  <2>2. asRows \in Seq(TextRow)
    BY <2>1, NamesAsRows
  <2>3. csvText' = [from |-> IF mode = "export" THEN "export" ELSE "late", rows |-> asRows]
    BY <1>11 DEF ExportAnswered
  <2>. HIDE DEF asRows
  <2>4. /\ csvText'.from = IF mode = "export" THEN "export" ELSE "late"
        /\ csvText'.rows = asRows
    BY <2>3
  <2>5. UNCHANGED <<open, mode, step, mapping, stored, importing, reported, results>>
    BY <1>11 DEF ExportAnswered
  <2>6. TextFits'
    BY <1>1, <2>2, <2>4, <2>5 DEF TextFits
  <2>7. exports' = RemoveAt(exports, i)
    BY <1>11 DEF ExportAnswered
  <2>. QED  BY <1>1, <1>10, <2>1, <2>5, <2>6, <2>7, ReportStays DEF ImportInv, report
<1>12. ASSUME NEW i \in 1..MaxExports, ExportFails(i)
       PROVE  ImportInv'
  <2>1. TextFits'
    BY <1>1, <1>12, TextsStay DEF ExportFails, texts
  <2>2. JobsFit'
    BY <1>10, <1>12 DEF ExportFails
  <2>. QED  BY <1>1, <1>12, <2>1, <2>2, ReportStays DEF ExportFails, ImportInv, report
<1>13. ASSUME JobsFit', UNCHANGED texts, UNCHANGED report
       PROVE  ImportInv'
  BY <1>1, <1>13, TextsStay, ReportStays DEF ImportInv
<1>14. CASE ProcessImport
  <2>. DEFINE job == [at |-> "lists", rows |-> csvText.rows, mapped |-> mapping = "full",
                      from |-> csvText.from, done |-> <<>>]
  <2>1. csvText.from \in {"user", "late"} /\ csvText.rows \in Seq(TextRow)
    BY <1>1, <1>14 DEF ProcessImport, TextFits
  <2>2. job \in Job /\ job.at = "lists" /\ job.done = <<>>
    BY <2>1 DEF Job
  <2>3. importing' = job /\ UNCHANGED <<stored, exports>>
    BY <1>14 DEF ProcessImport
  <2>. HIDE DEF job
  <2>4. JobsFit'
    BY <1>1, <2>2, <2>3 DEF JobsFit, Paced
  <2>. QED  BY <1>13, <1>14, <2>4 DEF ProcessImport, texts, report
<1>15. importing.at # "none" => importing # NoImport
  BY DEF NoImport
<1>16. importing # NoImport => /\ importing \in Job /\ Paced(importing)
                               /\ importing.done \in Seq({"created", "rejected"})
                               /\ importing.at \in {"lists", "server", "answer", "refresh"}
  BY <1>1, JobFields DEF JobsFit
<1>18. \A at : importing # NoImport =>
          [importing EXCEPT !.at = at] = [importing EXCEPT !.at = at, !.done = importing.done]
  BY <1>16 DEF Job
<1>19. CASE ListsAnswered
  <2>. DEFINE at == IF Importable(importing) = <<>> THEN "answer" ELSE "server"
  <2>1. importing.at = "lists" /\ importing # NoImport /\ importing.done = <<>>
    BY <1>15, <1>16, <1>19 DEF ListsAnswered, Paced
  <2>2. importing' = [importing EXCEPT !.at = at, !.done = importing.done]
    BY <1>18, <1>19, <2>1 DEF ListsAnswered
  <2>3. Importable(importing) \in Seq(TextRow)
    BY <1>16, <2>1, SentCanBeSent
  <2>4. /\ at \in {"lists", "server", "answer", "refresh"} /\ at # "lists"
        /\ at = "server" => Len(importing.done) <= Len(Importable(importing))
        /\ at = "answer" => Len(importing.done) = Len(Importable(importing))
    BY <2>1, <2>3
  <2>5. stored' \in FiniteNames /\ exports' = exports
    BY <1>1, <1>19 DEF ListsAnswered, JobsFit
  <2>. HIDE DEF at
  <2>6. JobsFit'
    BY <1>1, <1>16, <2>1, <2>2, <2>4, <2>5, JobMoves
  <2>. QED  BY <1>13, <1>19, <2>6 DEF ListsAnswered, texts, report
<1>20. CASE ServerDone
  <2>1. importing.at = "server" /\ importing # NoImport
    BY <1>15, <1>20 DEF ServerDone
  <2>2. importing' = [importing EXCEPT !.at = "answer", !.done = importing.done]
    BY <1>18, <1>20, <2>1 DEF ServerDone
  <2>3. stored' \in FiniteNames /\ exports' = exports
    BY <1>1, <1>20 DEF ServerDone, JobsFit
  <2>4. Len(importing.done) = Len(Importable(importing))
    BY <1>20 DEF ServerDone
  <2>5. JobsFit'
    BY <1>1, <1>16, <2>1, <2>2, <2>3, <2>4, JobMoves
  <2>. QED  BY <1>13, <1>20, <2>5 DEF ServerDone, texts, report
<1>21. ASSUME NEW taken \in BOOLEAN, ImportRow(taken)
       PROVE  ImportInv'
  <2>. DEFINE k == Len(importing.done) + 1
              answer == IF taken THEN "created" ELSE "rejected"
              done == Append(importing.done, answer)
  <2>1. /\ importing.at = "server" /\ importing # NoImport
        /\ Len(importing.done) < Len(Importable(importing))
        /\ stored' = IF taken THEN stored \cup {Importable(importing)[k].name} ELSE stored
    BY <1>15, <1>21 DEF ImportRow
  <2>2. /\ Importable(importing) \in Seq(TextRow)
        /\ \A j \in 1..Len(Importable(importing)) : Importable(importing)[j] \in CanBeSent(importing)
    BY <1>16, <2>1, SentCanBeSent
  <2>3. k \in 1..Len(Importable(importing))
    BY <1>16, <2>1, <2>2
  <2>4. Importable(importing)[k].name \in GroupNames
    BY <2>2, <2>3 DEF CanBeSent, TextRow
  <2>5. stored' \in FiniteNames
    <3>1. \A x \in FiniteNames, y \in GroupNames : x \cup {y} \in FiniteNames
      BY FS_AddElement DEF FiniteNames
    <3>2. stored \in FiniteNames
      BY <1>1 DEF JobsFit
    <3>. QED  BY <2>1, <2>4, <3>1, <3>2
  <2>6. /\ done \in Seq({"created", "rejected"})
        /\ Len(done) = Len(importing.done) + 1
    BY <1>16, <2>1
  <2>7. Len(done) <= Len(Importable(importing))
    BY <1>16, <2>1, <2>2, <2>6
  <2>8. importing' = [importing EXCEPT !.at = "server", !.done = done]
    <3>1. importing' = [importing EXCEPT !.done = done]
      BY <1>21 DEF ImportRow
    <3>2. \A d : \A j \in Job : j.at = "server" =>
              [j EXCEPT !.done = d] = [j EXCEPT !.at = "server", !.done = d]
      BY DEF Job
    <3>. HIDE DEF done
    <3>. QED  BY <1>16, <2>1, <3>1, <3>2
  <2>9. exports' = exports
    BY <1>21 DEF ImportRow
  <2>. HIDE DEF done
  <2>10. JobsFit'
    BY <1>1, <2>1, <2>5, <2>6, <2>7, <2>8, <2>9, JobMoves
  <2>. QED  BY <1>13, <1>21, <2>10 DEF ImportRow, texts, report
<1>22. CASE ImportAnswered
  <2>1. importing.at = "answer" /\ importing # NoImport
    BY <1>15, <1>22 DEF ImportAnswered
  <2>2. importing' = [importing EXCEPT !.at = "refresh", !.done = importing.done]
    BY <1>18, <1>22, <2>1 DEF ImportAnswered
  <2>3. stored' \in FiniteNames /\ exports' = exports
    BY <1>1, <1>22 DEF ImportAnswered, JobsFit
  <2>4. JobsFit'
    BY <1>1, <1>16, <2>1, <2>2, <2>3, JobMoves
  <2>5. PICK job \in Job : job = importing
    BY <1>16, <2>1
  <2>6. Len(job.done) = Len(Importable(job))
    BY <1>16, <2>1, <2>5 DEF Paced
  <2>7. ReportOf(job) \in Seq(Result) /\ Reports(ReportOf(job), job)
    BY <2>6, ReportHolds
  <2>8. results' = ReportOf(job) /\ reported' = job
    BY <1>22, <2>5 DEF ImportAnswered
  <2>9. ReportFits'
    <3>1. results' \in Seq(Result) /\ Reports(results', reported')
      BY <2>7, <2>8
    <3>. QED  BY <3>1 DEF ReportFits, ReportIsOfText, Reports
  <2>10. TextFits'
    BY <1>1, <1>22 DEF ImportAnswered, TextFits
  <2>. QED  BY <2>4, <2>9, <2>10 DEF ImportInv
<1>23. ASSUME importing' = NoImport, UNCHANGED <<stored, exports>>
       PROVE  JobsFit'
  BY <1>1, <1>23 DEF JobsFit
<1>24. CASE ImportEnds
  BY <1>13, <1>23, <1>24 DEF ImportEnds, texts, report
<1>25. CASE ImportFails
  BY <1>13, <1>23, <1>25 DEF ImportFails, texts, report
<1>26. ASSUME NEW name \in GroupNames, RemoveStored(name)
       PROVE  ImportInv'
  <2>1. stored' = stored \ {name} /\ UNCHANGED <<importing, exports>>
    BY <1>26 DEF RemoveStored
  <2>2. stored' \in FiniteNames
    BY <1>1, <2>1, FS_Subset DEF JobsFit, FiniteNames
  <2>3. JobsFit'
    BY <1>1, <2>1, <2>2 DEF JobsFit, Paced, Importable, CanBeSent
  <2>. QED  BY <1>13, <1>26, <2>3 DEF RemoveStored, texts, report
<1>27. CASE UNCHANGED dialogVars
  BY <1>1, <1>27, TextsStay, JobsStay, ReportStays DEF ImportInv, dialogVars, texts, calls, report
<1>. QED
  BY <1>2, <1>3, <1>4, <1>5, <1>6, <1>7, <1>8, <1>9, <1>11, <1>12, <1>14, <1>19, <1>20, <1>21,
     <1>22, <1>24, <1>25, <1>26, <1>27
  DEF ImportNext

\* Whatever is opened, closed and switched while answers are under way, what is
\* imported is a text that the user chose, or an export that came late, and the
\* report has each row of that text as often as the text has it, says of each
\* Group created that it was imported, and of no row without a Base Type.
THEOREM DialogAlwaysKeepsToItsText == ImportSpec => [](ImportTypeOK /\ DialogKeepsToItsText)
<1>1. ImportSpec => []ImportInv
  BY ImportInitInv, ImportNextInv, PTL DEF ImportSpec
<1>2. ImportInv => ImportTypeOK /\ DialogKeepsToItsText
  <2>. SUFFICES ASSUME ImportInv PROVE ImportTypeOK /\ DialogKeepsToItsText
    OBVIOUS
  <2>1. importing = NoImport \/ (importing \in Job /\ importing # NoImport)
    BY JobFields DEF ImportInv, JobsFit
  <2>2. exports \in Seq(SUBSET GroupNames)
    <3>1. FiniteNames \subseteq SUBSET GroupNames
      BY DEF FiniteNames
    <3>. QED  BY <3>1, SeqMonotonic DEF ImportInv, JobsFit
  <2>3. stored \subseteq GroupNames
    BY DEF ImportInv, JobsFit, FiniteNames
  <2>4. ImportTypeOK
    BY <2>1, <2>2, <2>3, JobFields DEF ImportInv, TextFits, JobsFit, ReportFits, ImportTypeOK
  <2>. QED  BY <2>1, <2>4, JobFields
            DEF ImportInv, ReportFits, DialogKeepsToItsText, ImportedIsChosen
<1>. QED  BY <1>1, <1>2, PTL

-----------------------------------------------------------------------------
(* The references, pages, form and dialog together.                        *)

\* They share no state: a behaviour of the instances that are checked together
\* is one of each of them, so that what is proved of a part holds there too.
THEOREM ScreensDoNotInterfere ==
    MCSpec => ReferencesSpec /\ PagesSpec /\ FormSpec /\ ImportSpec
<1>1. MCInit => ReferencesInit /\ PagesInit /\ FormInit /\ ImportInit
  BY DEF MCInit
<1>2. [MCNext]_<<referenceVars, pageVars, formVars, dialogVars, screenOf>> =>
        /\ [ReferencesNext]_referenceVars /\ [PagesNext]_pageVars
        /\ [FormNext]_formVars /\ [ImportNext]_dialogVars
  BY DEF MCNext
<1>. QED
  BY <1>1, <1>2, PTL DEF MCSpec, ReferencesSpec, PagesSpec, FormSpec, ImportSpec

\* Every variable of the four keeps its type, whatever fails and is answered late.
THEOREM UomScreensTyping == MCSpec => []UomScreensTypeOK
<1>1. MCSpec => ReferencesSpec /\ PagesSpec /\ FormSpec /\ ImportSpec
  BY ScreensDoNotInterfere
<1>2. ReferencesSpec => []ReferencesTypeOK
  BY RemovedIsAlwaysUnused, PTL
<1>3. PagesSpec => []PagesTypeOK
  BY ShownIsAlwaysStored, PTL
<1>4. FormSpec => []FormTypeOK
  BY SentIsAlwaysShown, PTL
<1>5. ImportSpec => []ImportTypeOK
  BY DialogAlwaysKeepsToItsText, PTL
<1>6. ReferencesTypeOK /\ PagesTypeOK /\ FormTypeOK /\ ImportTypeOK => UomScreensTypeOK
  BY DEF UomScreensTypeOK
<1>. QED
  BY <1>1, <1>2, <1>3, <1>4, <1>5, <1>6, PTL
=============================================================================
