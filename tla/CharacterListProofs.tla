------------------------- MODULE CharacterListProofs -------------------------
(***************************************************************************)
(* GET /characters for any number of characters and any limits: a page is  *)
(* as full as the total allows, and a walk misses and repeats nothing but  *)
(* what deletions and confirmations make it.                               *)
(***************************************************************************)
EXTENDS CharacterList, FiniteSetTheorems, FunctionTheorems, TLAPS

-----------------------------------------------------------------------------
(* Positions in a list.                                                    *)

LEMMA SetsOfIdsAreFinite ==
  ASSUME NEW I \in SUBSET Id
  PROVE  IsFiniteSet(I) /\ Cardinality(I) \in 0 .. Characters
<1>1. Characters \in Nat
  BY LimitsAreSane
<1>2. IsFiniteSet(Id) /\ Cardinality(Id) = Characters
  BY <1>1, FS_Interval DEF Id
<1>3. IsFiniteSet(I) /\ Cardinality(I) <= Characters
  BY <1>2, FS_Subset
<1> QED
  BY <1>1, <1>3, FS_CardinalityType

LEMMA PositionsAreCounts ==
  ASSUME NEW I \in SUBSET Id, NEW i \in Id
  PROVE  /\ Position(i, I) \in Nat /\ Position(i, I) <= Cardinality(I)
         /\ Cardinality(I) \in Nat
         /\ i \in I => Position(i, I) >= 1
<1> DEFINE J == {j \in I : j <= i}
<1>1. J \in SUBSET I /\ J \in SUBSET Id /\ Position(i, I) = Cardinality(J)
  BY DEF Position
<1> HIDE DEF J
<1>2. /\ IsFiniteSet(I) /\ Cardinality(I) \in Nat
      /\ IsFiniteSet(J) /\ Cardinality(J) \in Nat
  BY <1>1, SetsOfIdsAreFinite
<1>3. Cardinality(J) <= Cardinality(I)
  BY <1>1, <1>2, FS_Subset
<1>4. i \in I => J # {}
  BY DEF J, Id
<1>5. J # {} => Cardinality(J) # 0
  BY <1>2, FS_EmptySet
<1> QED
  BY <1>1, <1>2, <1>3, <1>4, <1>5

\* More characters in the list move nobody to the front.
LEMMA PositionsGrow ==
  ASSUME NEW J \in SUBSET Id, NEW I \in SUBSET J, NEW i \in Id
  PROVE  Position(i, I) <= Position(i, J)
<1> DEFINE A == {j \in I : j <= i}  B == {j \in J : j <= i}
<1>1. A \in SUBSET B /\ B \in SUBSET Id /\ Position(i, I) = Cardinality(A) /\ Position(i, J) = Cardinality(B)
  BY DEF Position
<1> HIDE DEF A, B
<1> QED
  BY <1>1, SetsOfIdsAreFinite, FS_Subset

\* No two characters have the same position.
LEMMA PositionsDiffer ==
  ASSUME NEW I \in SUBSET Id, NEW i \in I, NEW j \in I, Position(i, I) = Position(j, I)
  PROVE  i = j
<1>1. ASSUME NEW a \in I, NEW b \in I, a < b
      PROVE  Position(a, I) # Position(b, I)
  <2> DEFINE A == {k \in I : k <= a}  B == {k \in I : k <= b}
  <2>1. a \in Int /\ b \in Int /\ I \subseteq Int
    BY DEF Id
  <2>2. A \in SUBSET B /\ B \in SUBSET Id /\ b \in B /\ b \notin A
    <3>1. \A k \in I : k <= a => k <= b
      BY <1>1, <2>1
    <3>2. b <= b /\ ~(b <= a)
      BY <1>1, <2>1
    <3> QED
      BY <3>1, <3>2
  <2>3. Position(a, I) = Cardinality(A) /\ Position(b, I) = Cardinality(B)
    BY DEF Position
  <2> HIDE DEF A, B
  <2>4. IsFiniteSet(B)
    BY <2>2, SetsOfIdsAreFinite
  <2>5. Cardinality(B) = Cardinality(A) => B = A
    BY <2>2, <2>4, FS_Subset
  <2> QED
    BY <2>2, <2>3, <2>5
<1>2. i \in Int /\ j \in Int
  BY DEF Id
<1> QED
  BY <1>1, <1>2

\* Every position up to the length of the list is somebody's.
LEMMA PositionsAreTaken ==
  ASSUME NEW I \in SUBSET Id, NEW n \in 1 .. Cardinality(I)
  PROVE  \E i \in I : Position(i, I) = n
<1> DEFINE N == 1 .. Cardinality(I)  f == [i \in I |-> Position(i, I)]
<1>1. Cardinality(I) \in Nat /\ IsFiniteSet(I)
  BY SetsOfIdsAreFinite, LimitsAreSane
<1>2. IsFiniteSet(N) /\ Cardinality(N) = Cardinality(I)
  BY <1>1, FS_Interval
<1>3. \A i \in I : Position(i, I) \in N
  BY <1>1, PositionsAreCounts
<1>4. f \in [I -> N] /\ \A i \in I : f[i] = Position(i, I)
  BY <1>3
<1> HIDE DEF f, N
<1>5. \A i, j \in I : f[i] = f[j] => i = j
  BY <1>4, PositionsDiffer
<1>6. f \in Injection(I, N)
  BY <1>4, <1>5, Fun_IsInj
<1>7. f \in Surjection(I, N)
  BY <1>1, <1>2, <1>6, FS_Injection
<1> QED
  <2>1. \A m \in N : \E i \in I : f[i] = m
    BY <1>7, Fun_SurjectionProperties
  <2> QED
    BY <1>4, <2>1 DEF N

Rest(n, offset) == IF n > offset THEN n - offset ELSE 0

Fill(n, offset, limit) == IF limit = 0 \/ Rest(n, offset) < limit THEN Rest(n, offset) ELSE limit

Window(I, offset, limit) ==
  {i \in I : Position(i, I) > offset /\ (limit # 0 => Position(i, I) <= offset + limit)}

\* OFFSET and LIMIT take as many as there are, and no more.
LEMMA WindowIsFull ==
  ASSUME NEW I \in SUBSET Id, NEW offset \in Nat, NEW limit \in Nat
  PROVE  Cardinality(Window(I, offset, limit)) = Fill(Cardinality(I), offset, limit)
<1> DEFINE n == Cardinality(I)
           W == Window(I, offset, limit)
           a == offset + 1
           b == offset + Fill(n, offset, limit)
           f == [i \in W |-> Position(i, I)]
<1>1. n \in Nat /\ W \in SUBSET I /\ W \in SUBSET Id
  BY SetsOfIdsAreFinite, LimitsAreSane DEF Window
<1>2. \A i \in I : Position(i, I) \in 1 .. n
  BY <1>1, PositionsAreCounts
<1> HIDE DEF n
<1>3. a \in Nat /\ b \in Nat /\ a <= b + 1 /\ b - offset = Fill(n, offset, limit)
  BY <1>1 DEF Fill, Rest
<1>4. \A i \in I : i \in W <=> Position(i, I) \in a .. b
  BY <1>1, <1>2 DEF Window, Fill, Rest
<1>5. \A m \in a .. b : m \in 1 .. n
  BY <1>1, <1>3 DEF Fill, Rest
<1> HIDE DEF W, a, b
<1>6. f \in [W -> a .. b] /\ \A i \in W : f[i] = Position(i, I)
  BY <1>1, <1>4
<1> HIDE DEF f
<1>7. f \in Injection(W, a .. b)
  <2>1. \A i, j \in W : f[i] = f[j] => i = j
    BY <1>1, <1>6, PositionsDiffer
  <2> QED
    BY <1>6, <2>1, Fun_IsInj
<1>8. f \in Surjection(W, a .. b)
  <2>1. \A m \in a .. b : \E i \in W : f[i] = m
    <3> TAKE m \in a .. b
    <3>1. PICK i \in I : Position(i, I) = m
      BY <1>5, PositionsAreTaken DEF n
    <3> QED
      BY <1>4, <1>6, <3>1
  <2> QED
    BY <1>6, <2>1, Fun_IsSurj
<1>9. IsFiniteSet(a .. b) /\ Cardinality(a .. b) = b - offset
  <2>1. a \in Int /\ b \in Int /\ (a > b => b = offset) /\ b - a + 1 = b - offset
    BY <1>3 DEF a
  <2> QED
    BY <1>3, <2>1, FS_Interval
<1>10. Cardinality(W) = Cardinality(a .. b)
  BY <1>7, <1>8, <1>9, FS_Injection
<1> QED
  BY <1>3, <1>9, <1>10 DEF W, n

-----------------------------------------------------------------------------
(* What a query is answered with.                                          *)

LEMMA ParamsAreTyped ==
  ASSUME TypeOK, params # None
  PROVE  /\ params \in ListParams /\ params.offset \in Nat /\ params.limit \in Nat
         /\ params.limit \in 0 .. MaxListLimit /\ MaxListLimit \in Nat
         /\ Visible \in SUBSET Id
         /\ Matching(params) \in SUBSET Visible /\ Matching(params) \in SUBSET Id
<1>1. params \in ListParams /\ MaxListLimit \in Nat
  BY LimitsAreSane DEF TypeOK
<1>2. params.limit \in 0 .. MaxListLimit /\ params.offset \in Nat
  BY <1>1 DEF ListParams
<1>3. Visible \in SUBSET Id
  BY DEF Visible
<1> QED
  BY <1>1, <1>2, <1>3 DEF Matching

LEMMA PageIsFull ==
  ASSUME TypeOK, params # None
  PROVE  /\ Page(params) \in SUBSET Matching(params) /\ Page(params) \in SUBSET Id
         /\ Cardinality(Page(params)) =
              Fill(Cardinality(Matching(params)), params.offset, params.limit)
<1>1. Page(params) = Window(Matching(params), params.offset, params.limit)
  BY DEF Page, Window
<1>2. Page(params) \in SUBSET Matching(params)
  BY DEF Page
<1> QED
  BY <1>1, <1>2, ParamsAreTyped, WindowIsFull

\* A page is bounded, by the limit or by the number of ids.
LEMMA PageIsBounded ==
  ASSUME TypeOK, ParamsFit, params # None
  PROVE  Cardinality(Page(params)) <= MaxListLimit
<1> DEFINE n == Cardinality(Matching(params))
<1>1. /\ params.offset \in Nat /\ params.limit \in 0 .. MaxListLimit /\ MaxListLimit \in Nat
      /\ n \in Nat
      /\ Cardinality(Page(params)) = Fill(n, params.offset, params.limit)
  BY ParamsAreTyped, PageIsFull, SetsOfIdsAreFinite, LimitsAreSane
<1>2. CASE params.ids = None
  <2>1. params.limit # 0
    BY <1>2 DEF ParamsFit
  <2> HIDE DEF n
  <2> QED
    BY <1>1, <2>1 DEF Fill, Rest
<1>3. CASE params.ids # None
  <2>1. params.ids \in SUBSET Id /\ Matching(params) \in SUBSET params.ids
    BY <1>3, ParamsAreTyped DEF ListParams, Matching
  <2>2. /\ IsFiniteSet(params.ids) /\ Cardinality(params.ids) \in Nat
        /\ Cardinality(params.ids) <= MaxListLimit
    BY <1>3, <2>1, SetsOfIdsAreFinite, LimitsAreSane DEF ParamsFit
  <2>3. n <= Cardinality(params.ids)
    BY <2>1, <2>2, FS_Subset
  <2> HIDE DEF n
  <2>4. Fill(n, params.offset, params.limit) <= n
    BY <1>1 DEF Fill, Rest
  <2>5. Fill(n, params.offset, params.limit) \in Nat
    BY <1>1 DEF Fill, Rest
  <2> QED
    BY <1>1, <2>2, <2>3, <2>4, <2>5
<1> QED
  BY <1>2, <1>3

-----------------------------------------------------------------------------
(* The reader.                                                             *)

LEMMA AskKeepsInv == ASSUME Inv, Ask PROVE Inv'
<1>1. PICK q \in ListQueries : params' = ParseListParams(q)
  BY DEF Ask
<1>2. /\ pc = "idle" /\ pc' = "list" /\ owed' = IF params'.offset = 0 THEN Visible ELSE {}
      /\ UNCHANGED <<status, page, total, seen, repeated, events, quiet>>
      /\ TypeOK /\ seen = {} /\ repeated = {} /\ page = {}
      /\ Visible' = Visible /\ Visible \in SUBSET Id
  BY DEF Ask, Inv, ParamsFit, Visible
<1>3. /\ params'.ids = q.ids /\ q.ids \in {I \in SUBSET Id : Cardinality(I) <= MaxListLimit} \cup {None}
      /\ params'.limit = Or(q.limit, IF q.ids = None THEN DefaultListLimit ELSE 0)
      /\ params'.offset = Or(q.offset, 0)
      /\ q.limit \in 1 .. MaxListLimit \cup {None} /\ q.offset \in 0 .. Characters \cup {None}
  BY <1>1 DEF ParseListParams, ListQueries
<1>4. /\ MaxListLimit \in Nat /\ Characters \in Nat /\ DefaultListLimit \in 1 .. MaxListLimit
  BY LimitsAreSane
<1>5. /\ params'.limit \in 0 .. MaxListLimit /\ params'.offset \in Nat
      /\ q.ids = None => params'.limit # 0
  BY <1>3, <1>4 DEF Or
<1>6. params' \in ListParams
  <2>1. params' = [ids |-> params'.ids, limit |-> params'.limit, offset |-> params'.offset]
    BY <1>1 DEF ParseListParams
  <2>2. params'.ids \in {None} \cup SUBSET Id
    BY <1>3
  <2> QED
    BY <1>5, <2>1, <2>2 DEF ListParams
<1>7. params' # None
  BY <1>6, NoneIsNoParams
<1>8. TypeOK'
  BY <1>2, <1>6 DEF TypeOK
<1>9. ParamsFit'
  BY <1>2, <1>3, <1>5, <1>7 DEF ParamsFit
<1>10. PagesAreBounded' /\ BatchesAreRestricted' /\ PageFitsTotal'
  BY <1>2 DEF Inv, PagesAreBounded, BatchesAreRestricted, PageFitsTotal
<1>11. NothingShiftsBack'
  BY <1>2 DEF NothingShiftsBack
<1>12. NothingShiftsForth'
  <2> SUFFICES ASSUME NEW i \in owed'
               PROVE  i \in Visible /\ Position(i, Visible) > params'.offset
    BY <1>2 DEF NothingShiftsForth, WhereIs
  <2>1. params'.offset = 0 /\ i \in Visible
    BY <1>2
  <2>2. Position(i, Visible) \in Nat /\ Position(i, Visible) >= 1
    BY <1>2, <2>1, PositionsAreCounts
  <2> QED
    BY <2>1, <2>2
<1> QED
  BY <1>8, <1>9, <1>10, <1>11, <1>12 DEF Inv

LEMMA ListKeepsInv ==
  ASSUME Inv, ListCharacters, UNCHANGED <<status, params, owed, events>>
  PROVE  Inv'
<1>1. /\ pc = "list" /\ pc' = "count" /\ page' = Page(params) /\ quiet' = TRUE
      /\ UNCHANGED <<status, params, owed, events, total, seen, repeated>>
      /\ TypeOK /\ ParamsFit /\ params # None
      /\ Visible' = Visible /\ Visible \in SUBSET Id
  BY DEF ListCharacters, Inv, ParamsFit, Visible
<1>2. /\ page' \in SUBSET Matching(params) /\ page' \in SUBSET Id
      /\ Cardinality(page') <= MaxListLimit
      /\ params.offset \in Nat /\ params.limit \in Nat
  BY <1>1, PageIsFull, PageIsBounded, ParamsAreTyped
<1>3. TypeOK' /\ ParamsFit'
  BY <1>1, <1>2 DEF TypeOK, ParamsFit, Page, Matching, Position
<1>4. PagesAreBounded' /\ BatchesAreRestricted' /\ PageFitsTotal'
  BY <1>1, <1>2 DEF PagesAreBounded, BatchesAreRestricted, PageFitsTotal, Matching
<1>5. /\ \A i \in Id : WhereIs(i)' = WhereIs(i) /\ WhereIs(i) \in Nat
      /\ Walks' <=> Walks
      /\ seen \subseteq Id /\ owed \subseteq Id
  BY <1>1, PositionsAreCounts DEF WhereIs, Position, Walks, TypeOK
<1>6. ASSUME Walks
      PROVE  /\ page' \subseteq Visible
             /\ \A i \in Visible : (i \in page') <=> (/\ WhereIs(i) > params.offset
                                                      /\ WhereIs(i) <= params.offset + params.limit)
  <2>1. Matching(params) = Visible /\ params.limit # 0
    BY <1>1, <1>6 DEF Walks, Matching, ParamsFit
  <2>2. page' = {i \in Visible : /\ WhereIs(i) > params.offset
                                 /\ WhereIs(i) <= params.offset + params.limit}
    BY <1>1, <2>1 DEF Page, WhereIs
  <2> QED
    BY <2>2
<1>7. NothingShiftsBack'
  <2> SUFFICES ASSUME Walks, "confirmed" \notin events
               PROVE  /\ repeated = {}
                      /\ \A i \in seen \cap Visible : WhereIs(i) <= params.offset
                      /\ seen \cap page' = {}
                      /\ \A i \in page' \cap Visible : WhereIs(i) <= params.offset + params.limit
    <3>1. Visible \subseteq Id
      BY <1>1
    <3> QED
      BY <1>1, <1>5, <3>1 DEF NothingShiftsBack
  <2>1. repeated = {} /\ \A i \in seen \cap Visible : WhereIs(i) <= params.offset
    BY <1>1 DEF Inv, NothingShiftsBack
  <2>2. \A i \in seen \cap Visible : i \notin page'
    <3> TAKE i \in seen \cap Visible
    <3>1. WhereIs(i) <= params.offset /\ WhereIs(i) \in Nat
      BY <1>5, <2>1
    <3>2. ~(WhereIs(i) > params.offset)
      BY <1>2, <3>1
    <3> QED
      BY <1>6, <3>2
  <2>3. seen \cap page' = {}
    BY <1>6, <2>2
  <2>4. \A i \in page' \cap Visible : WhereIs(i) <= params.offset + params.limit
    BY <1>6
  <2> QED
    BY <2>1, <2>3, <2>4
<1>8. NothingShiftsForth'
  <2> SUFFICES ASSUME Walks, "deleted" \notin events
               PROVE  /\ owed \subseteq Visible
                      /\ \A i \in owed \ seen : WhereIs(i) > params.offset
                      /\ \A i \in owed \ (seen \cup page') : WhereIs(i) > params.offset + params.limit
    BY <1>1, <1>5 DEF NothingShiftsForth
  <2>1. owed \subseteq Visible /\ \A i \in owed \ seen : WhereIs(i) > params.offset
    BY <1>1 DEF Inv, NothingShiftsForth
  <2>2. \A i \in owed \ (seen \cup page') : WhereIs(i) > params.offset + params.limit
    <3> TAKE i \in owed \ (seen \cup page')
    <3>1. i \in Visible /\ WhereIs(i) > params.offset /\ WhereIs(i) \in Nat
      BY <1>5, <2>1
    <3>2. ~(WhereIs(i) <= params.offset + params.limit)
      BY <1>6, <3>1
    <3> QED
      BY <1>2, <3>1, <3>2
  <2> QED
    BY <2>1, <2>2
<1> QED
  BY <1>3, <1>4, <1>7, <1>8 DEF Inv

LEMMA CountKeepsInv ==
  ASSUME Inv, CountCharacters, UNCHANGED <<status, params, owed, events>>
  PROVE  Inv'
<1>1. /\ pc = "count" /\ pc' = "answered" /\ total' = Cardinality(Matching(params))
      /\ seen' = seen \cup page /\ repeated' = repeated \cup (seen \cap page)
      /\ UNCHANGED <<status, params, owed, events, page, quiet>>
      /\ TypeOK /\ ParamsFit /\ params # None
      /\ Visible' = Visible /\ Visible \in SUBSET Id
  BY DEF CountCharacters, Answer, Inv, ParamsFit, Visible
<1>2. total' \in 0 .. Characters
  BY <1>1, ParamsAreTyped, SetsOfIdsAreFinite
<1>3. TypeOK' /\ ParamsFit'
  BY <1>1, <1>2 DEF TypeOK, ParamsFit
<1>4. PagesAreBounded' /\ BatchesAreRestricted'
  BY <1>1 DEF Inv, PagesAreBounded, BatchesAreRestricted
<1>5. PageFitsTotal'
  <2>1. quiet => Cardinality(page) = Fill(total', params.offset, params.limit)
    BY <1>1, PageIsFull DEF ParamsFit
  <2> QED
    BY <1>1, <2>1 DEF PageFitsTotal, Fill, Rest
<1>6. /\ \A i \in Id : WhereIs(i)' = WhereIs(i) /\ WhereIs(i) \in Nat
      /\ Walks' <=> Walks
      /\ seen \subseteq Id /\ owed \subseteq Id /\ page \subseteq Id /\ Visible \subseteq Id
  BY <1>1, PositionsAreCounts DEF WhereIs, Position, Walks, TypeOK
<1>7. params.offset \in Nat /\ params.limit \in Nat
  BY <1>1, ParamsAreTyped
<1>8. NothingShiftsBack'
  <2> SUFFICES ASSUME Walks, "confirmed" \notin events
               PROVE  /\ repeated' = {}
                      /\ \A i \in seen' \cap Visible : WhereIs(i) <= params.offset + params.limit
    BY <1>1, <1>6 DEF NothingShiftsBack
  <2>1. /\ repeated = {} /\ seen \cap page = {}
        /\ \A i \in seen \cap Visible : WhereIs(i) <= params.offset
        /\ \A i \in page \cap Visible : WhereIs(i) <= params.offset + params.limit
    BY <1>1 DEF Inv, NothingShiftsBack
  <2>2. \A i \in seen \cap Visible : WhereIs(i) <= params.offset + params.limit
    BY <1>6, <1>7, <2>1
  <2> QED
    BY <1>1, <2>1, <2>2
<1>9. NothingShiftsForth'
  <2> SUFFICES ASSUME Walks, "deleted" \notin events
               PROVE  /\ owed \subseteq Visible
                      /\ \A i \in owed \ seen' :
                           /\ WhereIs(i) > params.offset + params.limit
                           /\ total' > params.offset + params.limit
    BY <1>1, <1>6 DEF NothingShiftsForth
  <2>1. /\ owed \subseteq Visible
        /\ \A i \in owed \ (seen \cup page) : WhereIs(i) > params.offset + params.limit
    BY <1>1 DEF Inv, NothingShiftsForth
  <2>2. total' = Cardinality(Visible)
    BY <1>1 DEF Walks, Matching
  <2>3. ASSUME NEW i \in owed \ seen'
        PROVE  WhereIs(i) > params.offset + params.limit /\ total' > params.offset + params.limit
    <3>1. i \in Id /\ WhereIs(i) > params.offset + params.limit
      BY <1>1, <1>6, <2>1, <2>3
    <3>2. WhereIs(i) \in Nat /\ total' \in Nat /\ WhereIs(i) <= total'
      BY <1>1, <2>2, <3>1, PositionsAreCounts DEF WhereIs
    <3> QED
      BY <1>7, <3>1, <3>2
  <2> QED
    BY <2>1, <2>3
<1> QED
  BY <1>3, <1>4, <1>5, <1>8, <1>9 DEF Inv

LEMMA FailKeepsInv == ASSUME Inv, Fail PROVE Inv'
<1>1. /\ pc \in {"list", "count"} /\ pc' = "list"
      /\ UNCHANGED <<status, params, page, total, seen, repeated, owed, events, quiet>>
      /\ TypeOK /\ ParamsFit
      /\ Visible' = Visible /\ Visible \in SUBSET Id
  BY DEF Fail, walk, Inv, Visible
<1>2. TypeOK' /\ ParamsFit' /\ PagesAreBounded' /\ BatchesAreRestricted' /\ PageFitsTotal'
  BY <1>1 DEF Inv, TypeOK, ParamsFit, PagesAreBounded, BatchesAreRestricted, PageFitsTotal
<1>3. /\ \A i \in Id : WhereIs(i)' = WhereIs(i)
      /\ Walks' <=> Walks
      /\ seen \subseteq Id /\ owed \subseteq Id /\ Visible \subseteq Id
  BY <1>1 DEF WhereIs, Position, Walks, TypeOK
<1>4. NothingShiftsBack' /\ NothingShiftsForth'
  <2>1. Walks /\ "confirmed" \notin events =>
          repeated = {} /\ \A i \in seen \cap Visible : WhereIs(i) <= params.offset
    BY <1>1 DEF Inv, NothingShiftsBack
  <2>2. Walks /\ "deleted" \notin events =>
          owed \subseteq Visible /\ \A i \in owed \ seen : WhereIs(i) > params.offset
    BY <1>1 DEF Inv, NothingShiftsForth
  <2>3. NothingShiftsBack'
    BY <1>1, <1>3, <2>1 DEF NothingShiftsBack
  <2>4. NothingShiftsForth'
    BY <1>1, <1>3, <2>2 DEF NothingShiftsForth
  <2> QED
    BY <2>3, <2>4
<1> QED
  BY <1>2, <1>4 DEF Inv

LEMMA NextPageKeepsInv == ASSUME Inv, NextPage PROVE Inv'
<1>1. /\ pc = "answered" /\ pc' = "list" /\ Walks
      /\ params' = [params EXCEPT !.offset = params.offset + params.limit]
      /\ UNCHANGED <<status, page, total, seen, repeated, owed, events, quiet>>
      /\ TypeOK /\ ParamsFit /\ params # None
      /\ Visible' = Visible /\ Visible \in SUBSET Id
  BY DEF NextPage, walk, Walks, Inv, Visible
<1>2. params \in ListParams /\ params.offset \in Nat /\ params.limit \in Nat
  BY <1>1, ParamsAreTyped
<1>3. /\ params' \in ListParams /\ params' # None
      /\ params'.ids = params.ids /\ params'.limit = params.limit
      /\ params'.offset = params.offset + params.limit
  <2>1. /\ params' \in ListParams
        /\ params'.ids = params.ids /\ params'.limit = params.limit
        /\ params'.offset = params.offset + params.limit
    BY <1>1, <1>2 DEF ListParams
  <2> QED
    BY <2>1, NoneIsNoParams
<1>4. TypeOK' /\ ParamsFit' /\ PagesAreBounded' /\ BatchesAreRestricted' /\ PageFitsTotal'
  BY <1>1, <1>3 DEF Inv, TypeOK, ParamsFit, PagesAreBounded, BatchesAreRestricted, PageFitsTotal
<1>5. /\ \A i \in Id : WhereIs(i)' = WhereIs(i)
      /\ seen \subseteq Id /\ owed \subseteq Id /\ Visible \subseteq Id
  BY <1>1 DEF WhereIs, Position, TypeOK
<1>6. NothingShiftsBack'
  <2>1. "confirmed" \notin events =>
          /\ repeated = {}
          /\ \A i \in seen \cap Visible : WhereIs(i) <= params.offset + params.limit
    BY <1>1 DEF Inv, NothingShiftsBack
  <2> QED
    BY <1>1, <1>3, <1>5, <2>1 DEF NothingShiftsBack
<1>7. NothingShiftsForth'
  <2>1. "deleted" \notin events =>
          /\ owed \subseteq Visible
          /\ \A i \in owed \ seen : WhereIs(i) > params.offset + params.limit
    BY <1>1 DEF Inv, NothingShiftsForth
  <2> QED
    BY <1>1, <1>3, <1>5, <2>1 DEF NothingShiftsForth
<1> QED
  BY <1>4, <1>6, <1>7 DEF Inv

-----------------------------------------------------------------------------
(* Meanwhile.                                                              *)

LEMMA WhatHappensIsNoted ==
  ASSUME Inv, NEW i \in Id, NEW from, NEW to \in {"active", "deleted"},
         NEW event \in {"confirmed", "deleted"},
         Happens(i, from, to, event), owed' \in SUBSET owed
  PROVE  /\ TypeOK' /\ ParamsFit' /\ PagesAreBounded' /\ BatchesAreRestricted' /\ PageFitsTotal'
         /\ Visible' = IF to = "active" THEN Visible \cup {i} ELSE Visible \ {i}
         /\ Visible \in SUBSET Id /\ Visible' \in SUBSET Id
         /\ Walks' <=> Walks
         /\ Walks => event \in events' /\ events \in SUBSET events'
<1>1. /\ status' = [status EXCEPT ![i] = to]
      /\ events' = IF pc = "idle" THEN events ELSE events \cup {event}
      /\ quiet' = FALSE
      /\ UNCHANGED <<pc, params, page, total, seen, repeated>>
      /\ TypeOK /\ ParamsFit
  BY DEF Happens, Inv
<1>2. /\ status \in [Id -> {"pending", "active", "deleted"}]
      /\ status' \in [Id -> {"pending", "active", "deleted"}]
      /\ \A j \in Id : status'[j] = IF j = i THEN to ELSE status[j]
  BY <1>1 DEF TypeOK
<1>3. TypeOK'
  BY <1>1, <1>2 DEF TypeOK
<1>4. ParamsFit'
  BY <1>1 DEF ParamsFit
<1>5. PagesAreBounded' /\ BatchesAreRestricted' /\ PageFitsTotal'
  BY <1>1 DEF Inv, PagesAreBounded, BatchesAreRestricted, PageFitsTotal
<1>6. Visible' = IF to = "active" THEN Visible \cup {i} ELSE Visible \ {i}
  BY <1>2 DEF Visible
<1>7. Visible \in SUBSET Id /\ Visible' \in SUBSET Id
  BY <1>6 DEF Visible
<1>8. Walks' <=> Walks
  BY <1>1 DEF Walks
<1>9. Walks => event \in events' /\ events \in SUBSET events'
  BY <1>1 DEF Walks, ParamsFit
<1> QED
  BY <1>3, <1>4, <1>5, <1>6, <1>7, <1>8, <1>9

LEMMA ConfirmKeepsInv == ASSUME Inv, NEW i \in Id, Confirm(i) PROVE Inv'
<1>1. Happens(i, "pending", "active", "confirmed") /\ owed' = owed
  BY DEF Confirm
<1>2. /\ TypeOK' /\ ParamsFit' /\ PagesAreBounded' /\ BatchesAreRestricted' /\ PageFitsTotal'
      /\ Visible' = Visible \cup {i}
      /\ Visible \in SUBSET Id /\ Visible' \in SUBSET Id
      /\ Walks' <=> Walks
      /\ Walks => "confirmed" \in events' /\ events \in SUBSET events'
  BY <1>1, WhatHappensIsNoted
<1>3. NothingShiftsBack'
  BY <1>2 DEF NothingShiftsBack
<1>4. /\ UNCHANGED <<pc, params, page, total, seen, owed>>
      /\ owed \subseteq Id
      /\ params # None => params.offset \in Nat /\ params.limit \in Nat
  BY <1>1, ParamsAreTyped DEF Happens, Inv, TypeOK
<1>5. \A j \in Id : WhereIs(j) \in Nat /\ WhereIs(j)' \in Nat /\ WhereIs(j) <= WhereIs(j)'
  <2> TAKE j \in Id
  <2>1. WhereIs(j) = Position(j, Visible) /\ WhereIs(j)' = Position(j, Visible')
    BY DEF WhereIs, Position
  <2>2. Visible \in SUBSET Visible'
    BY <1>2
  <2> QED
    BY <1>2, <2>1, <2>2, PositionsAreCounts, PositionsGrow
<1>6. NothingShiftsForth'
  <2> SUFFICES ASSUME Walks, "deleted" \notin events
               PROVE  NothingShiftsForth'
    BY <1>2 DEF NothingShiftsForth
  <2>1. params.offset \in Nat /\ params.limit \in Nat
    BY <1>4 DEF Walks
  <2>2. NothingShiftsForth
    BY DEF Inv
  <2>3. owed' \subseteq Visible'
    BY <1>2, <1>4, <2>2 DEF NothingShiftsForth
  <2>4. ASSUME pc \in {"list", "count"}, NEW j \in owed \ seen
        PROVE  WhereIs(j)' > params.offset
    <3>1. j \in Id /\ WhereIs(j) > params.offset
      BY <1>4, <2>2, <2>4 DEF NothingShiftsForth
    <3> QED
      BY <1>5, <2>1, <3>1
  <2>5. ASSUME pc = "count", NEW j \in owed \ (seen \cup page)
        PROVE  WhereIs(j)' > params.offset + params.limit
    <3>1. j \in Id /\ WhereIs(j) > params.offset + params.limit
      BY <1>4, <2>2, <2>5 DEF NothingShiftsForth
    <3> QED
      BY <1>5, <2>1, <3>1
  <2>6. ASSUME pc = "answered", NEW j \in owed \ seen
        PROVE  WhereIs(j)' > params.offset + params.limit /\ total > params.offset + params.limit
    <3>1. /\ j \in Id /\ WhereIs(j) > params.offset + params.limit
          /\ total > params.offset + params.limit
      BY <1>4, <2>2, <2>6 DEF NothingShiftsForth
    <3> QED
      BY <1>5, <2>1, <3>1
  <2> QED
    BY <1>4, <2>3, <2>4, <2>5, <2>6 DEF NothingShiftsForth
<1> QED
  BY <1>2, <1>3, <1>6 DEF Inv

LEMMA DeleteKeepsInv == ASSUME Inv, NEW i \in Id, Delete(i) PROVE Inv'
<1>1. Happens(i, "active", "deleted", "deleted") /\ owed' = owed \ {i}
  BY DEF Delete
<1>2. /\ TypeOK' /\ ParamsFit' /\ PagesAreBounded' /\ BatchesAreRestricted' /\ PageFitsTotal'
      /\ Visible' = Visible \ {i}
      /\ Visible \in SUBSET Id /\ Visible' \in SUBSET Id
      /\ Walks' <=> Walks
      /\ Walks => "deleted" \in events' /\ events \in SUBSET events'
  BY <1>1, WhatHappensIsNoted
<1>3. NothingShiftsForth'
  BY <1>2 DEF NothingShiftsForth
<1>4. /\ UNCHANGED <<pc, params, page, total, seen, repeated>>
      /\ params # None => params.offset \in Nat /\ params.limit \in Nat
  BY <1>1, ParamsAreTyped DEF Happens, Inv
<1>5. \A j \in Visible' : /\ j \in Visible
                          /\ WhereIs(j) \in Nat /\ WhereIs(j)' \in Nat /\ WhereIs(j)' <= WhereIs(j)
  <2> TAKE j \in Visible'
  <2>1. WhereIs(j) = Position(j, Visible) /\ WhereIs(j)' = Position(j, Visible')
    BY DEF WhereIs, Position
  <2>2. Visible' \in SUBSET Visible /\ j \in Id
    BY <1>2
  <2> QED
    BY <1>2, <2>1, <2>2, PositionsAreCounts, PositionsGrow
<1>6. NothingShiftsBack'
  <2> SUFFICES ASSUME Walks, "confirmed" \notin events
               PROVE  NothingShiftsBack'
    BY <1>2 DEF NothingShiftsBack
  <2>1. params.offset \in Nat /\ params.limit \in Nat
    BY <1>4 DEF Walks
  <2>2. NothingShiftsBack
    BY DEF Inv
  <2>3. ASSUME pc \in {"list", "count"}, NEW j \in seen \cap Visible'
        PROVE  WhereIs(j)' <= params.offset
    <3>1. WhereIs(j) <= params.offset
      BY <1>5, <2>2, <2>3 DEF NothingShiftsBack
    <3> QED
      BY <1>5, <2>1, <3>1
  <2>4. ASSUME pc = "count", NEW j \in page \cap Visible'
        PROVE  WhereIs(j)' <= params.offset + params.limit
    <3>1. WhereIs(j) <= params.offset + params.limit
      BY <1>5, <2>2, <2>4 DEF NothingShiftsBack
    <3> QED
      BY <1>5, <2>1, <3>1
  <2>5. ASSUME pc = "answered", NEW j \in seen \cap Visible'
        PROVE  WhereIs(j)' <= params.offset + params.limit
    <3>1. WhereIs(j) <= params.offset + params.limit
      BY <1>5, <2>2, <2>5 DEF NothingShiftsBack
    <3> QED
      BY <1>5, <2>1, <3>1
  <2> QED
    BY <1>4, <2>2, <2>3, <2>4, <2>5 DEF NothingShiftsBack
<1> QED
  BY <1>2, <1>3, <1>6 DEF Inv

LEMMA UnchangedKeepsInv == ASSUME Inv, UNCHANGED vars PROVE Inv'
<1>1. /\ UNCHANGED <<status, pc, params, page, total, seen, repeated, owed, events, quiet>>
  BY DEF vars, walk
<1> QED
  BY <1>1 DEF Inv, TypeOK, ParamsFit, PagesAreBounded, BatchesAreRestricted, PageFitsTotal,
     NothingShiftsBack, NothingShiftsForth, Walks, WhereIs, Position, Visible, Page, Matching

LEMMA StepKeepsInv == ASSUME Inv, [Next]_vars PROVE Inv'
<1>1. CASE Ask
  BY <1>1, AskKeepsInv
<1>2. CASE List
  BY <1>2, ListKeepsInv, CountKeepsInv DEF List
<1>3. CASE Fail
  BY <1>3, FailKeepsInv
<1>4. CASE NextPage
  BY <1>4, NextPageKeepsInv
<1>5. ASSUME NEW i \in Id, Confirm(i) \/ Delete(i)
      PROVE  Inv'
  BY <1>5, ConfirmKeepsInv, DeleteKeepsInv
<1>6. CASE UNCHANGED vars
  BY <1>6, UnchangedKeepsInv
<1> QED
  BY <1>1, <1>2, <1>3, <1>4, <1>5, <1>6 DEF Next

LEMMA InitHasInv == ASSUME Init PROVE Inv
<1>1. 0 \in 0 .. Characters /\ 0 <= MaxListLimit
  BY LimitsAreSane
<1>2. TypeOK
  BY <1>1 DEF Init, TypeOK
<1>3. Cardinality({}) = 0
  BY FS_EmptySet
<1> QED
  BY <1>1, <1>2, <1>3 DEF Init, Inv, ParamsFit, PagesAreBounded, BatchesAreRestricted, PageFitsTotal,
     NothingShiftsBack, NothingShiftsForth, Walks

-----------------------------------------------------------------------------
(* The theorems.                                                           *)

\* The positions of what a walk has shown, and of what it still owes, stay on
\* their sides of the offset, in every state of every walk.
THEOREM Invariance == Spec => []Inv
<1>1. Init => Inv
  BY InitHasInv
<1>2. Inv /\ [Next]_vars => Inv'
  BY StepKeepsInv
<1> QED
  BY <1>1, <1>2, PTL DEF Spec

\* parseListParams leaves no query without a bound.
THEOREM NoPageIsTooLong == Spec => []PagesAreBounded
<1>1. Inv => PagesAreBounded
  BY DEF Inv
<1> QED
  BY <1>1, Invariance, PTL

\* Ids that name nobody are a restriction in FindByIDs as in CountByIDs.
THEOREM IdsRestrict == Spec => []BatchesAreRestricted
<1>1. Inv => BatchesAreRestricted
  BY DEF Inv
<1> QED
  BY <1>1, Invariance, PTL

\* LIMIT and OFFSET of list_characters and the COUNT of count_characters agree
\* wherever nothing happens between the two statements.
THEOREM TotalsFit == Spec => []PageFitsTotal
<1>1. Inv => PageFitsTotal
  BY DEF Inv
<1> QED
  BY <1>1, Invariance, PTL

\* A walk that was not disturbed by a deletion has shown all that it owes.
THEOREM WalksAreComplete == Spec => []NothingMissed
<1>1. Inv => NothingMissed
  <2> SUFFICES ASSUME Inv, pc = "answered", Walks, LastPage, "deleted" \notin events
               PROVE  owed \subseteq seen
    BY DEF NothingMissed
  <2>1. total \in Nat /\ params.offset \in Nat /\ params.limit \in Nat
    BY ParamsAreTyped, LimitsAreSane DEF Inv, TypeOK, Walks
  <2>2. ~(total > params.offset + params.limit)
    BY <2>1 DEF LastPage
  <2>3. \A i \in owed \ seen : total > params.offset + params.limit
    BY DEF Inv, NothingShiftsForth
  <2> QED
    BY <2>2, <2>3
<1> QED
  BY <1>1, Invariance, PTL

\* A walk that was not disturbed by a confirmation has shown nobody twice.
THEOREM WalksDoNotRepeat == Spec => []NothingTwice
<1>1. Inv => NothingTwice
  BY DEF Inv, NothingShiftsBack, NothingTwice
<1> QED
  BY <1>1, Invariance, PTL
=============================================================================
