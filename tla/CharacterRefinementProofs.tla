---------------------- MODULE CharacterRefinementProofs ----------------------
(***************************************************************************)
(* CharacterService implements CharacterLifecycle: each statement of each  *)
(* request, and each sweep, is one step in the lives of the characters, or *)
(* leaves them all where they were.  And it implements AtomicCharacters:   *)
(* each request takes effect at one moment.                                *)
(***************************************************************************)
EXTENDS CharacterServiceProofs

\* Where a row is in its life, by the row and by whether the sweeper has had it.
StageOf(row, gone) ==
  IF row # None
  THEN IF row.deleted THEN "deleted" ELSE IF row.confirmed THEN "active" ELSE "pending"
  ELSE IF gone THEN "reclaimed" ELSE "none"

VersionOf(row, gone) == IF row # None THEN row.version ELSE IF gone THEN 1 ELSE 0

\* The rows of all other characters stay, so do their lives.
LEMMA OneLifeMoves ==
  ASSUME TypeOK, NEW i \in Id, NEW row, rows' = [rows EXCEPT ![i] = row], UNCHANGED reclaimed
  PROVE  /\ stage' = [stage EXCEPT ![i] = StageOf(row, i \in reclaimed)]
         /\ version' = [version EXCEPT ![i] = VersionOf(row, i \in reclaimed)]
         /\ stage[i] = StageOf(rows[i], i \in reclaimed)
         /\ version[i] = VersionOf(rows[i], i \in reclaimed)
<1>1. \A j \in Id : rows'[j] = IF j = i THEN row ELSE rows[j]
  BY DEF TypeOK
<1>2. stage' = [stage EXCEPT ![i] = StageOf(row, i \in reclaimed)]
  BY <1>1 DEF stage, StageOf, Present
<1>3. version' = [version EXCEPT ![i] = VersionOf(row, i \in reclaimed)]
  <2>1. ASSUME NEW j \in Id
        PROVE  version'[j] = IF j = i THEN VersionOf(row, i \in reclaimed) ELSE version[j]
    <3>1. version[j] = VersionOf(rows[j], j \in reclaimed)
      BY Zenon DEF version, VersionOf, Present
    <3>2. version'[j] = VersionOf(rows'[j], j \in reclaimed')
      BY Zenon DEF version, VersionOf, Present
    <3> QED
      BY <1>1, <3>1, <3>2, Zenon
  <2>2. version = [j \in Id |-> version[j]] /\ version' = [j \in Id |-> version'[j]]
    BY DEF version
  <2> QED
    BY <2>1, <2>2, Zenon
<1>4. stage[i] = StageOf(rows[i], i \in reclaimed) /\ version[i] = VersionOf(rows[i], i \in reclaimed)
  BY DEF stage, version, StageOf, VersionOf, Present
<1> QED
  BY <1>2, <1>3, <1>4

LEMMA RowsStayLivesStay ==
  ASSUME rows' = rows, reclaimed' = reclaimed
  PROVE  UNCHANGED Lifecycle!vars
  BY DEF Lifecycle!vars, stage, version, Present

\* Every statement that writes is the step of one life.
LEMMA ReserveStep ==
  ASSUME Inv, NEW r \in Req, SaveInsert(r)
  PROVE  [Lifecycle!Next]_(Lifecycle!vars)
<1>1. CASE rows' = rows
  BY <1>1, RowsStayLivesStay DEF SaveInsert
<1>2. CASE rows' # rows
  <2>1. /\ pc[r] = "insert" /\ call[r].id = r
        /\ rows' = [rows EXCEPT ![r] = NewRow(call[r])]
        /\ reclaimed' = reclaimed
        /\ call[r] \in Call /\ call[r].race \in Race
    BY <1>2, StatementTells DEF SaveInsert, Inv
  <2>2. rows[r] = None /\ r \notin reclaimed /\ r \in Id
    BY <2>1 DEF Inv, IdsAreFresh, Id
  <2>3. NewRow(call[r]) # None
    BY <2>1, NewRowIsTyped, NoneIsNoData
  <2>4. /\ StageOf(NewRow(call[r]), r \in reclaimed) = "pending"
        /\ VersionOf(NewRow(call[r]), r \in reclaimed) = 1
    BY <2>3 DEF StageOf, VersionOf, NewRow
  <2>5. /\ stage[r] = "none"
        /\ stage' = [stage EXCEPT ![r] = "pending"]
        /\ version' = [version EXCEPT ![r] = 1]
    <3> DEFINE row == NewRow(call[r])
    <3>1. TypeOK /\ rows' = [rows EXCEPT ![r] = row] /\ reclaimed' = reclaimed
      BY <2>1 DEF Inv
    <3>2. StageOf(row, r \in reclaimed) = "pending" /\ VersionOf(row, r \in reclaimed) = 1
      BY <2>4
    <3> HIDE DEF row
    <3>3. /\ stage' = [stage EXCEPT ![r] = StageOf(row, r \in reclaimed)]
          /\ version' = [version EXCEPT ![r] = VersionOf(row, r \in reclaimed)]
          /\ stage[r] = StageOf(rows[r], r \in reclaimed)
      BY <2>2, <3>1, OneLifeMoves
    <3>4. StageOf(rows[r], r \in reclaimed) = "none"
      BY <2>2 DEF StageOf
    <3> QED
      BY <3>2, <3>3, <3>4, Zenon
  <2> QED
    BY <2>2, <2>5 DEF Lifecycle!Next, Lifecycle!Reserve, Lifecycle!Move
<1> QED
  BY <1>1, <1>2

LEMMA ConfirmStep ==
  ASSUME Inv, NEW r \in Req, ConfirmPending(r)
  PROVE  [Lifecycle!Next]_(Lifecycle!vars)
<1> DEFINE i == call[r].id
           row == [rows[i] EXCEPT !.confirmed = TRUE]
<1>1. CASE rows' = rows
  BY <1>1, RowsStayLivesStay DEF ConfirmPending
<1>2. CASE rows' # rows
  <2>1. TypeOK /\ i \in Id /\ Pending(i) /\ reclaimed' = reclaimed
        /\ rows' = [rows EXCEPT ![i].confirmed = TRUE]
    BY <1>2, StatementTells DEF ConfirmPending, Inv
  <2>2. rows[i] \in Row
    BY <2>1 DEF TypeOK, Pending, Present
  <2>3. row \in Row /\ row # None
    BY <2>2, NoneIsNoData DEF Row
  <2>4. rows' = [rows EXCEPT ![i] = row]
    BY <2>1
  <2>5. row.version = rows[i].version /\ row.confirmed /\ ~row.deleted /\ rows[i] # None
        /\ ~rows[i].confirmed /\ ~rows[i].deleted
    BY <2>1, <2>2 DEF Row, Pending, Present
  <2> HIDE DEF row, i
  <2>6. /\ stage[i] = "pending"
        /\ stage' = [stage EXCEPT ![i] = "active"]
        /\ version' = [version EXCEPT ![i] = version[i]]
    <3>1. /\ stage' = [stage EXCEPT ![i] = StageOf(row, i \in reclaimed)]
          /\ version' = [version EXCEPT ![i] = VersionOf(row, i \in reclaimed)]
          /\ stage[i] = StageOf(rows[i], i \in reclaimed)
          /\ version[i] = VersionOf(rows[i], i \in reclaimed)
      BY <2>1, <2>4, OneLifeMoves
    <3>2. /\ StageOf(rows[i], i \in reclaimed) = "pending"
          /\ StageOf(row, i \in reclaimed) = "active"
          /\ VersionOf(row, i \in reclaimed) = row.version
          /\ VersionOf(rows[i], i \in reclaimed) = rows[i].version
      BY <2>3, <2>5 DEF StageOf, VersionOf
    <3> QED
      BY <2>5, <3>1, <3>2, Zenon
  <2>7. version' = version
    BY <2>1, <2>6 DEF version
  <2> QED
    BY <2>1, <2>6, <2>7 DEF Lifecycle!Next, Lifecycle!Confirm, Lifecycle!Move
<1> QED
  BY <1>1, <1>2

LEMMA EditStep ==
  ASSUME Inv, NEW r \in Req, UpdateCharacter(r)
  PROVE  [Lifecycle!Next]_(Lifecycle!vars)
<1> DEFINE i == call[r].id
           row == [rows[i] EXCEPT !.race = NewRace(r), !.data = NewData(r), !.version = @ + 1]
<1>1. CASE rows' = rows
  BY <1>1, RowsStayLivesStay DEF UpdateCharacter
<1>2. CASE rows' # rows
  <2>1. /\ TypeOK /\ i \in Id /\ Active(i) /\ reclaimed' = reclaimed
        /\ rows' = [rows EXCEPT ![i].race = NewRace(r), ![i].data = NewData(r), ![i].version = @ + 1]
    BY <1>2, StatementTells DEF UpdateCharacter, Inv
  <2>2. rows[i] \in Row
    BY <2>1 DEF TypeOK, Active, Present
  <2>3. /\ row.version = rows[i].version + 1 /\ row.confirmed /\ ~row.deleted /\ rows[i] # None
        /\ rows[i].confirmed /\ ~rows[i].deleted
    BY <2>1, <2>2 DEF Row, Active, Present
  <2>4. rows' = [rows EXCEPT ![i] = row]
    BY <2>1
  <2>5. row # None
    <3>1. NewRace(r) \in Race /\ NewData(r) \in [Field -> Value \cup {None}]
      <4>1. NewRace(r) \in races /\ pc[r] = "write"
        BY <1>2 DEF UpdateCharacter
      <4>2. call[r] \in Call /\ base[r] \in Row
        BY <4>1, StatementTells DEF Inv
      <4>3. call[r] # None /\ base[r] # None
        BY <4>2, NoneIsNoData
      <4> QED
        BY <2>1, <4>1, <4>3, MergeIsTyped DEF TypeOK
    <3>2. row \in Row
      <4>1. rows[i].version + 1 \in Nat \ {0}
        BY <2>2 DEF Row
      <4> QED
        BY <2>2, <3>1, <4>1 DEF Row
    <3> QED
      BY <3>2, NoneIsNoData
  <2> HIDE DEF row, i
  <2>6. /\ stage[i] = "active"
        /\ stage' = [stage EXCEPT ![i] = stage[i]]
        /\ version' = [version EXCEPT ![i] = version[i] + 1]
    <3>1. /\ stage' = [stage EXCEPT ![i] = StageOf(row, i \in reclaimed)]
          /\ version' = [version EXCEPT ![i] = VersionOf(row, i \in reclaimed)]
          /\ stage[i] = StageOf(rows[i], i \in reclaimed)
          /\ version[i] = VersionOf(rows[i], i \in reclaimed)
      BY <2>1, <2>4, OneLifeMoves
    <3>2. /\ StageOf(rows[i], i \in reclaimed) = "active"
          /\ StageOf(row, i \in reclaimed) = "active"
          /\ VersionOf(row, i \in reclaimed) = row.version
          /\ VersionOf(rows[i], i \in reclaimed) = rows[i].version
      BY <2>3, <2>5 DEF StageOf, VersionOf
    <3> QED
      BY <2>3, <3>1, <3>2, Zenon
  <2>7. stage' = stage
    BY <2>1, <2>6 DEF stage
  <2> QED
    BY <2>1, <2>6, <2>7 DEF Lifecycle!Next, Lifecycle!Edit
<1> QED
  BY <1>1, <1>2

LEMMA RemoveStep ==
  ASSUME Inv, NEW r \in Req, SoftDelete(r)
  PROVE  [Lifecycle!Next]_(Lifecycle!vars)
<1> DEFINE i == call[r].id
           row == [rows[i] EXCEPT !.deleted = TRUE]
<1>1. CASE rows' = rows
  BY <1>1, RowsStayLivesStay DEF SoftDelete
<1>2. CASE rows' # rows
  <2>1. /\ TypeOK /\ i \in Id /\ Active(i) /\ reclaimed' = reclaimed
        /\ rows' = [rows EXCEPT ![i].deleted = TRUE]
    BY <1>2, StatementTells DEF SoftDelete, Inv
  <2>2. rows[i] \in Row
    BY <2>1 DEF TypeOK, Active, Present
  <2>3. row \in Row /\ row # None
    BY <2>2, NoneIsNoData DEF Row
  <2>4. rows' = [rows EXCEPT ![i] = row]
    BY <2>1
  <2>5. /\ row.version = rows[i].version /\ row.deleted /\ rows[i] # None
        /\ rows[i].confirmed /\ ~rows[i].deleted
    BY <2>1, <2>2 DEF Row, Active, Present
  <2> HIDE DEF row, i
  <2>6. /\ stage[i] = "active"
        /\ stage' = [stage EXCEPT ![i] = "deleted"]
        /\ version' = [version EXCEPT ![i] = version[i]]
    <3>1. /\ stage' = [stage EXCEPT ![i] = StageOf(row, i \in reclaimed)]
          /\ version' = [version EXCEPT ![i] = VersionOf(row, i \in reclaimed)]
          /\ stage[i] = StageOf(rows[i], i \in reclaimed)
          /\ version[i] = VersionOf(rows[i], i \in reclaimed)
      BY <2>1, <2>4, OneLifeMoves
    <3>2. /\ StageOf(rows[i], i \in reclaimed) = "active"
          /\ StageOf(row, i \in reclaimed) = "deleted"
          /\ VersionOf(row, i \in reclaimed) = row.version
          /\ VersionOf(rows[i], i \in reclaimed) = rows[i].version
      BY <2>3, <2>5 DEF StageOf, VersionOf
    <3> QED
      BY <2>5, <3>1, <3>2, Zenon
  <2>7. version' = version
    BY <2>1, <2>6 DEF version
  <2> QED
    BY <2>1, <2>6, <2>7 DEF Lifecycle!Next, Lifecycle!Remove, Lifecycle!Move
<1> QED
  BY <1>1, <1>2

\* Time does not show, except to the sweeper.
LEMMA ElapseStep ==
  ASSUME Inv, NEW i \in Id, Elapse(i)
  PROVE  UNCHANGED Lifecycle!vars
<1> DEFINE row == [rows[i] EXCEPT !.aged = TRUE]
<1>1. TypeOK /\ Pending(i) /\ rows' = [rows EXCEPT ![i].aged = TRUE] /\ reclaimed' = reclaimed
  BY DEF Elapse, Inv
<1>2. rows[i] \in Row
  BY <1>1 DEF TypeOK, Pending, Present
<1>3. row \in Row /\ row # None
  BY <1>2, NoneIsNoData DEF Row
<1>4. rows' = [rows EXCEPT ![i] = row]
  BY <1>1
<1>5. /\ row.version = rows[i].version /\ row.confirmed = rows[i].confirmed
      /\ row.deleted = rows[i].deleted /\ rows[i] # None
  BY <1>1, <1>2 DEF Row, Pending, Present
<1> HIDE DEF row
<1>6. stage' = [stage EXCEPT ![i] = stage[i]] /\ version' = [version EXCEPT ![i] = version[i]]
  <2>1. /\ stage' = [stage EXCEPT ![i] = StageOf(row, i \in reclaimed)]
        /\ version' = [version EXCEPT ![i] = VersionOf(row, i \in reclaimed)]
        /\ stage[i] = StageOf(rows[i], i \in reclaimed)
        /\ version[i] = VersionOf(rows[i], i \in reclaimed)
    BY <1>1, <1>4, OneLifeMoves
  <2>2. /\ StageOf(row, i \in reclaimed) = StageOf(rows[i], i \in reclaimed)
        /\ VersionOf(row, i \in reclaimed) = VersionOf(rows[i], i \in reclaimed)
    BY <1>3, <1>5, Zenon DEF StageOf, VersionOf
  <2> QED
    BY <2>1, <2>2, Zenon
<1>7. stage' = stage /\ version' = version
  BY <1>6 DEF stage, version
<1> QED
  BY <1>7 DEF Lifecycle!vars

\* A sweep takes reservations only: an expired row is neither confirmed nor deleted.
LEMMA ReclaimStep ==
  ASSUME Inv, SweepUnconfirmed
  PROVE  Lifecycle!Next
<1>1. /\ Expired # {} /\ reclaimed' = reclaimed \cup Expired
      /\ \A i \in Id : rows'[i] = IF i \in Expired THEN None ELSE rows[i]
  BY DEF SweepUnconfirmed
<1>2. ASSUME NEW i \in Expired
      PROVE  i \in Id /\ Present(i) /\ ~rows[i].confirmed /\ ~rows[i].deleted /\ rows[i].version = 1
  BY <1>2 DEF Expired, Inv, RowsWellFormed
<1>3. \A i \in Expired : stage[i] = "pending" /\ version[i] = 1
  BY <1>2 DEF stage, version
<1>4. stage' = [i \in Id |-> IF i \in Expired THEN "reclaimed" ELSE stage[i]]
  BY <1>1 DEF stage, Present
<1>5. version' = version
  <2>1. \A i \in Id : version'[i] = version[i]
    BY <1>1, <1>3 DEF version, Present
  <2> QED
    BY <2>1 DEF version
<1>6. Lifecycle!Reclaim(Expired) /\ Expired \in SUBSET Id
  BY <1>1, <1>2, <1>3, <1>4, <1>5 DEF Lifecycle!Reclaim
<1> QED
  BY <1>6 DEF Lifecycle!Next

LEMMA LivesBegin == Init => Lifecycle!Init
<1> SUFFICES ASSUME Init PROVE Lifecycle!Init
  OBVIOUS
<1>1. Inv
  BY InitInv
<1>2. PICK content \in [Existing -> [race : Race, data : [Field -> Value \cup {None}]]] :
        rows = [i \in Id |->
                 IF i \in Existing
                 THEN [key |-> None, race |-> content[i].race, data |-> content[i].data,
                       version |-> 1, confirmed |-> TRUE, deleted |-> FALSE, aged |-> FALSE]
                 ELSE None]
  BY DEF Init
<1>3. ASSUME NEW i \in Existing
      PROVE  i \in Id /\ Present(i) /\ rows[i].version = 1 /\ rows[i].confirmed /\ ~rows[i].deleted
  <2>1. i \in Id /\ Present(i)
    BY <1>1 DEF Id, Inv, RowsWellFormed
  <2>2. rows[i] = [key |-> None, race |-> content[i].race, data |-> content[i].data,
                   version |-> 1, confirmed |-> TRUE, deleted |-> FALSE, aged |-> FALSE]
    BY <1>2, <2>1
  <2>3. rows[i].version = 1 /\ rows[i].confirmed = TRUE /\ rows[i].deleted = FALSE
    BY <2>2
  <2> QED
    BY <2>1, <2>3
<1>4. ASSUME NEW i \in Id, i \notin Existing PROVE ~Present(i)
  BY <1>2, <1>4 DEF Present
<1>5. reclaimed = {}
  BY DEF Init
<1>6. stage = [i \in Id |-> IF i \in Existing THEN "active" ELSE "none"]
  BY <1>3, <1>4, <1>5 DEF stage
<1>7. version = [i \in Id |-> IF i \in Existing THEN 1 ELSE 0]
  BY <1>3, <1>4, <1>5 DEF version
<1> QED
  BY <1>6, <1>7 DEF Lifecycle!Init

LEMMA LivesGoOn == Inv /\ [Next]_vars => [Lifecycle!Next]_(Lifecycle!vars)
<1> SUFFICES ASSUME Inv, [Next]_vars PROVE [Lifecycle!Next]_(Lifecycle!vars)
  OBVIOUS
<1>1. ASSUME NEW r \in Req,
             Arrive(r) \/ SaveFetchExisting(r) \/ ConfirmRecheck(r) \/ FindByID(r) \/ Fail(r)
      PROVE  rows' = rows /\ reclaimed' = reclaimed
  BY <1>1 DEF Arrive, Dispatch, SaveFetchExisting, ConfirmRecheck, FindByID, Fail
<1>2. ASSUME NEW x \in Race, DeleteRace(x) PROVE rows' = rows /\ reclaimed' = reclaimed
  BY <1>2 DEF DeleteRace
<1>3. CASE UNCHANGED vars
  BY <1>3, RowsStayLivesStay DEF vars
<1>4. CASE \E r \in Req : Arrive(r) \/ Serve(r)
  BY <1>1, <1>4, RowsStayLivesStay, ReserveStep, ConfirmStep, EditStep, RemoveStep DEF Serve
<1>5. CASE \/ \E i \in Id : Elapse(i)
           \/ SweepUnconfirmed
           \/ \E x \in Race : DeleteRace(x)
  BY <1>2, <1>5, RowsStayLivesStay, ElapseStep, ReclaimStep
<1> QED
  BY <1>3, <1>4, <1>5 DEF Next

\* The service implements the lifecycle: reservations alone are physically
\* deleted, only visible characters are edited or removed, every edit has a number.
THEOREM Implementation == Spec => ImplementsLifecycle
<1>1. Spec => Lifecycle!Init /\ [][Lifecycle!Next]_(Lifecycle!vars)
  BY LivesBegin, LivesGoOn, Invariance, PTL DEF Spec
<1> QED
  BY <1>1 DEF ImplementsLifecycle, Lifecycle!Spec

-----------------------------------------------------------------------------
(* CharacterService implements AtomicCharacters: of the statements of a    *)
(* request the last one is its moment, and those before it only note what  *)
(* they have seen.                                                         *)

LEMMA SameTables ==
  /\ Atomic!Id = Id
  /\ \A i : (Atomic!Present(i) <=> Present(i)) /\ (Atomic!Pending(i) <=> Pending(i))
            /\ (Atomic!Active(i) <=> Active(i))
  /\ \A k : Atomic!Holders(k) = HoldersOf(k)
<1>1. Atomic!Id = Id
  BY DEF Atomic!Id, Id
<1>2. \A i : (Atomic!Present(i) <=> Present(i)) /\ (Atomic!Pending(i) <=> Pending(i))
             /\ (Atomic!Active(i) <=> Active(i))
  BY DEF Atomic!Present, Present, Atomic!Pending, Pending, Atomic!Active, Active
<1> QED
  BY <1>1, <1>2 DEF Atomic!Holders, HoldersOf

\* A request between two of its statements waits for its moment.
LEMMA ServedRequestWaits ==
  ASSUME Inv, NEW r \in Req, pc[r] \notin {"idle", "done"}
  PROVE  Atomic!Waits(r) /\ call[r] \in Call
<1>1. call[r] # None /\ reply[r] = None /\ call[r] \in Call
  BY StatementTells, NoneIsNoData DEF Inv
<1> QED
  BY <1>1 DEF Atomic!Waits

\* An answer is the moment of its request: nothing that it has noted remains.
LEMMA AnswerResolves ==
  ASSUME Inv, NEW r \in Req, NEW status, NEW i, NEW n, Answer(r, status, i, n)
  PROVE  /\ Atomic!Tell(r, status, i, n)
         /\ noted' = [noted EXCEPT ![r] = None] /\ met' = met \ {r} /\ call' = call
<1>1. /\ base \in [Req -> Row \cup {None}] /\ pc \in [Req -> Statement \cup {"idle", "done"}]
      /\ base' = [base EXCEPT ![r] = None] /\ pc' = [pc EXCEPT ![r] = "done"]
      /\ reply' = [reply EXCEPT ![r] = [status |-> status, id |-> i, version |-> n]] /\ call' = call
  BY DEF Answer, Inv, TypeOK
<1>2. noted' = [noted EXCEPT ![r] = None]
  BY <1>1 DEF noted
<1>3. met' = met \ {r}
  BY <1>1 DEF met
<1> QED
  BY <1>1, <1>2, <1>3 DEF Atomic!Tell

LEMMA RefusalResolves ==
  ASSUME Inv, NEW r \in Req, NEW status, Refuse(r, status), UNCHANGED rows
  PROVE  /\ Atomic!Refuse(r, status)
         /\ noted' = [noted EXCEPT ![r] = None] /\ met' = met \ {r} /\ call' = call
  BY AnswerResolves DEF Refuse, Atomic!Refuse

\* Whether or not the acknowledgement arrives.
LEMMA WriteResolves ==
  ASSUME Inv, NEW r \in Req, NEW status, NEW row, Acknowledge(r, status, row.version),
         rows' = [rows EXCEPT ![call[r].id] = row]
  PROVE  /\ Atomic!Effect(r, row, status)
         /\ noted' = [noted EXCEPT ![r] = None] /\ met' = met \ {r} /\ call' = call
  BY AnswerResolves DEF Acknowledge, Refuse, Atomic!Effect

\* A first statement that leads to the second.
LEMMA GoingOnNotes ==
  ASSUME Inv, NEW r \in Req, NEW statement, GoTo(r, statement)
  PROVE  /\ call' = call /\ reply' = reply
         /\ met' = IF statement = "fetch" THEN met \cup {r} ELSE met \ {r}
<1>1. pc \in [Req -> Statement \cup {"idle", "done"}] /\ pc' = [pc EXCEPT ![r] = statement]
  BY DEF GoTo, Inv, TypeOK
<1> QED
  BY <1>1 DEF GoTo, met

LEMMA CreationIsAtomic ==
  ASSUME Inv, NEW r \in Req, SaveInsert(r) \/ SaveFetchExisting(r)
  PROVE  Atomic!Next
<1>1. pc[r] \in {"insert", "fetch"} /\ races' = races
  BY DEF SaveInsert, SaveFetchExisting
<1>2. /\ Atomic!Waits(r) /\ call[r] \in Call /\ call[r].op = "create" /\ call[r].id = r
  BY <1>1, ServedRequestWaits, StatementTells DEF Inv
<1>3. Atomic!Create(r) /\ noted' = [noted EXCEPT ![r] = None] /\ met' = met \ {r} /\ call' = call
      => Atomic!Resolve(r)
  BY <1>1, <1>2 DEF Atomic!Resolve
<1>4. CASE SaveInsert(r)
  <2>1. CASE HoldersOf(call[r].key) # {} /\ GoTo(r, "fetch") /\ UNCHANGED <<rows, base>>
    <3>1. noted' = noted /\ met' = met \cup {r} /\ call' = call /\ reply' = reply
      BY <2>1, GoingOnNotes DEF noted
    <3>2. Atomic!Meet(r)
      BY <1>1, <1>2, <2>1, <3>1, SameTables DEF Atomic!Meet
    <3> QED
      BY <3>2 DEF Atomic!Next
  <2>2. CASE HoldersOf(call[r].key) = {} /\ call[r].race \notin races /\ Refuse(r, "raceNotFound") /\ UNCHANGED rows
    BY <1>3, <2>2, RefusalResolves, SameTables DEF Atomic!Create, Atomic!Next
  <2>3. CASE /\ HoldersOf(call[r].key) = {} /\ call[r].race \in races
             /\ rows' = [rows EXCEPT ![call[r].id] = NewRow(call[r])]
             /\ Acknowledge(r, "created", 1)
    <3> DEFINE row == NewRow(call[r])
    <3>1. row = Atomic!Reservation(call[r]) /\ row.version = 1
      BY DEF NewRow, Atomic!Reservation, Stored, Atomic!Kept
    <3>2. rows[call[r].id] = None
      BY <1>2, <1>4 DEF SaveInsert, Inv, IdsAreFresh
    <3> HIDE DEF row
    <3>3. Atomic!Effect(r, row, "created") /\ noted' = [noted EXCEPT ![r] = None] /\ met' = met \ {r} /\ call' = call
      BY <2>3, <3>1, WriteResolves DEF row
    <3> QED
      BY <1>3, <2>3, <3>1, <3>2, <3>3, SameTables DEF Atomic!Create, Atomic!Next, Atomic!Present
  <2> QED
    BY <1>4, <2>1, <2>2, <2>3 DEF SaveInsert
<1>5. CASE SaveFetchExisting(r)
  <2>1. ASSUME NEW i \in HoldersOf(call[r].key), ~rows[i].deleted, Answer(r, "replayed", i, rows[i].version)
        PROVE  Atomic!Next
    BY <1>3, <1>5, <2>1, AnswerResolves, SameTables DEF SaveFetchExisting, Atomic!Create, Atomic!Next
  <2>2. CASE (\A i \in HoldersOf(call[r].key) : rows[i].deleted) /\ Refuse(r, "consumed")
    <3>1. r \in met /\ UNCHANGED rows
      BY <1>5 DEF met, SaveFetchExisting
    <3> QED
      BY <1>3, <2>2, <3>1, RefusalResolves, SameTables DEF Atomic!Create, Atomic!Next
  <2> QED
    BY <1>5, <2>1, <2>2 DEF SaveFetchExisting
<1> QED
  BY <1>4, <1>5

LEMMA ConfirmationIsAtomic ==
  ASSUME Inv, NEW r \in Req, ConfirmPending(r) \/ ConfirmRecheck(r)
  PROVE  [Atomic!Next]_(Atomic!vars)
<1> DEFINE i == call[r].id
<1>1. pc[r] \in {"confirm", "recheck"} /\ races' = races
  BY DEF ConfirmPending, ConfirmRecheck
<1>2. Atomic!Waits(r) /\ call[r].op = "confirm" /\ i \in Id
  BY <1>1, ServedRequestWaits, StatementTells DEF Inv
<1>3. Atomic!Confirm(r) /\ noted' = [noted EXCEPT ![r] = None] /\ met' = met \ {r} /\ call' = call
      => Atomic!Next
  BY <1>1, <1>2 DEF Atomic!Resolve, Atomic!Next
<1>4. CASE ConfirmPending(r)
  <2>1. CASE /\ Pending(i)
             /\ rows' = [rows EXCEPT ![i].confirmed = TRUE]
             /\ Acknowledge(r, "confirmed", rows[i].version)
    <3> DEFINE row == [rows[i] EXCEPT !.confirmed = TRUE]
    <3>1. rows[i] \in Row
      BY <1>2, <2>1 DEF Inv, TypeOK, Pending, Present
    <3>2. row.version = rows[i].version
      BY <3>1 DEF Row
    <3>3. rows' = [rows EXCEPT ![i] = row]
      BY <2>1
    <3> HIDE DEF row
    <3>4. Atomic!Effect(r, row, "confirmed") /\ noted' = [noted EXCEPT ![r] = None] /\ met' = met \ {r} /\ call' = call
      BY <2>1, <3>2, <3>3, WriteResolves
    <3> QED
      BY <1>3, <2>1, <3>4, SameTables DEF Atomic!Confirm, row
  <2>2. CASE GoTo(r, "recheck") /\ UNCHANGED <<rows, base>>
    <3>1. noted' = noted /\ met' = met \ {r} /\ call' = call /\ reply' = reply
      BY <2>2, GoingOnNotes DEF noted
    <3>2. r \notin met
      BY <1>4 DEF ConfirmPending, met
    <3> QED
      BY <1>1, <2>2, <3>1, <3>2 DEF Atomic!vars
  <2> QED
    BY <1>4, <2>1, <2>2 DEF ConfirmPending
<1>5. CASE ConfirmRecheck(r)
  <2>1. ~Pending(i) /\ UNCHANGED rows
    BY <1>5 DEF ConfirmRecheck, Inv, RecheckFindsNoReservation
  <2>2. CASE Active(i) /\ Answer(r, "confirmed", i, rows[i].version)
    BY <1>3, <2>1, <2>2, AnswerResolves, SameTables DEF Atomic!Confirm
  <2>3. CASE ~Active(i) /\ Refuse(r, "notFound")
    BY <1>3, <2>1, <2>3, RefusalResolves, SameTables DEF Atomic!Confirm
  <2> QED
    BY <1>5, <2>2, <2>3 DEF ConfirmRecheck
<1> QED
  BY <1>4, <1>5

\* What update_character writes is the current row, edited.
LEMMA MergeIsOfTheRow ==
  ASSUME Inv, NEW r \in Req, pc[r] = "write", Active(call[r].id),
         rows[call[r].id].version = Expected(r)
  PROVE  LET i == call[r].id  row == Atomic!Edited(rows[i], call[r]) IN
         /\ [rows EXCEPT ![i].race = NewRace(r), ![i].data = NewData(r), ![i].version = @ + 1]
            = [rows EXCEPT ![i] = row]
         /\ row.version = rows[i].version + 1
         /\ NewRace(r) \in races <=> call[r].race \in races \cup {None}
<1> DEFINE i == call[r].id
           old == rows[i]
           row == Atomic!Edited(old, call[r])
<1>1. i \in Id /\ old = base[r] /\ old \in Row
  BY ExpectedRowIsTheBase
<1>2. /\ call[r] \in Call /\ call[r].op \in {"put", "patch"}
      /\ call[r].op = "put" => call[r].race \in Race
  BY StatementTells DEF Inv
<1>3. call[r].op = "put" => call[r].race # None
  BY <1>2, NoneIsNoData
<1>4. old.race \in races /\ None \notin races
  <2>1. old.race \in races
    BY <1>1 DEF Inv, RaceReferencesHold, Active
  <2> QED
    BY <2>1, NoneIsNoData DEF Inv, TypeOK
<1>5. NewRace(r) = Atomic!Either(call[r].race, old.race)
  BY <1>1, <1>3 DEF NewRace, Coalesce, Atomic!Either
<1>6. NewData(r) = [f \in Field |-> Atomic!Kept(IF call[r].op = "put" THEN call[r].data[f]
                                                 ELSE Atomic!Either(call[r].data[f], old.data[f]))]
  BY <1>1 DEF NewData, Coalesce, Stored, Atomic!Either, Atomic!Kept
<1>7. row = [old EXCEPT !.race = NewRace(r), !.data = NewData(r), !.version = @ + 1]
  BY <1>5, <1>6 DEF Atomic!Edited
<1>8. row.version = old.version + 1
  BY <1>1, <1>7 DEF Row
<1>9. NewRace(r) \in races <=> call[r].race \in races \cup {None}
  BY <1>4, <1>5 DEF Atomic!Either
<1>10. [rows EXCEPT ![i].race = NewRace(r), ![i].data = NewData(r), ![i].version = @ + 1]
       = [rows EXCEPT ![i] = row]
  <2> HIDE DEF row
  <2> QED
    BY <1>7
<1> QED
  BY <1>8, <1>9, <1>10

LEMMA EditIsAtomic ==
  ASSUME Inv, NEW r \in Req, FindByID(r) \/ UpdateCharacter(r)
  PROVE  Atomic!Next
<1> DEFINE i == call[r].id
<1>1. pc[r] \in {"find", "write"} /\ races' = races
  BY DEF FindByID, UpdateCharacter
<1>2. /\ Atomic!Waits(r) /\ call[r].op \in {"put", "patch"} /\ i \in Id
      /\ pc[r] = "find" => base[r] = None
      /\ pc[r] = "write" => base[r] \in Row
  BY <1>1, ServedRequestWaits, StatementTells DEF Inv
<1>3. Atomic!Edit(r) /\ noted' = [noted EXCEPT ![r] = None] /\ met' = met \ {r} /\ call' = call
      => Atomic!Next
  BY <1>1, <1>2 DEF Atomic!Resolve, Atomic!Next
<1>4. CASE FindByID(r)
  <2>1. CASE Active(i) /\ base' = [base EXCEPT ![r] = rows[i]] /\ GoTo(r, "write")
    <3>1. r \notin met /\ met' = met \ {r} /\ call' = call /\ reply' = reply /\ rows' = rows
      BY <1>4, <2>1, GoingOnNotes DEF FindByID, met
    <3>2. base \in [Req -> Row \cup {None}] /\ rows[i] # None
      BY <2>1 DEF Inv, TypeOK, Active, Present
    <3>3. noted' = [noted EXCEPT ![r] = rows[i].version]
      BY <2>1, <3>2 DEF noted
    <3>4. Atomic!Note(r)
      BY <1>1, <1>2, <2>1, <3>1, <3>3, SameTables DEF Atomic!Note
    <3> QED
      BY <3>4 DEF Atomic!Next
  <2>2. CASE ~Active(i) /\ Refuse(r, "notFound")
    BY <1>3, <1>4, <2>2, RefusalResolves, SameTables DEF FindByID, Atomic!Edit
  <2> QED
    BY <1>4, <2>1, <2>2 DEF FindByID
<1>5. CASE UpdateCharacter(r)
  <2>1. pc[r] = "write" /\ base[r] \in Row /\ base[r] # None /\ base[r].version # None
    BY <1>2, <1>5, NoneIsNoData DEF UpdateCharacter, Row
  <2>2. noted[r] = base[r].version
    BY <2>1 DEF noted
  <2>3. Atomic!VersionFits(r) <=> rows[i].version = Expected(r)
    BY <2>1, <2>2 DEF Atomic!VersionFits, Atomic!Either, Expected, Coalesce
  <2>4. CASE ~Active(i) /\ Refuse(r, "notFound") /\ UNCHANGED rows
    BY <1>3, <2>4, RefusalResolves, SameTables DEF Atomic!Edit
  <2>5. CASE Active(i) /\ rows[i].version # Expected(r) /\ Refuse(r, "versionConflict") /\ UNCHANGED rows
    BY <1>3, <2>3, <2>5, RefusalResolves, SameTables DEF Atomic!Edit
  <2>6. CASE /\ Active(i) /\ rows[i].version = Expected(r) /\ NewRace(r) \notin races
             /\ Refuse(r, "raceNotFound") /\ UNCHANGED rows
    <3>1. call[r].race \notin races \cup {None}
      BY <2>1, <2>6, MergeIsOfTheRow
    <3> QED
      BY <1>3, <2>3, <2>6, <3>1, RefusalResolves, SameTables DEF Atomic!Edit
  <2>7. CASE /\ Active(i) /\ rows[i].version = Expected(r) /\ NewRace(r) \in races
             /\ rows' = [rows EXCEPT ![i].race = NewRace(r), ![i].data = NewData(r), ![i].version = @ + 1]
             /\ Acknowledge(r, "updated", rows[i].version + 1)
    <3> DEFINE row == Atomic!Edited(rows[i], call[r])
    <3>1. /\ rows' = [rows EXCEPT ![i] = row] /\ row.version = rows[i].version + 1
          /\ call[r].race \in races \cup {None}
      BY <2>1, <2>7, MergeIsOfTheRow
    <3> HIDE DEF row
    <3>2. Acknowledge(r, "updated", row.version)
      BY <2>7, <3>1, Zenon
    <3>3. Atomic!Effect(r, row, "updated") /\ noted' = [noted EXCEPT ![r] = None] /\ met' = met \ {r} /\ call' = call
      BY <3>1, <3>2, WriteResolves
    <3> QED
      BY <1>3, <2>3, <2>7, <3>1, <3>3, SameTables DEF Atomic!Edit, row
  <2> QED
    BY <1>5, <2>4, <2>5, <2>6, <2>7 DEF UpdateCharacter
<1> QED
  BY <1>4, <1>5

LEMMA DeletionIsAtomic ==
  ASSUME Inv, NEW r \in Req, SoftDelete(r)
  PROVE  Atomic!Next
<1> DEFINE i == call[r].id
<1>1. pc[r] = "delete" /\ races' = races
  BY DEF SoftDelete
<1>2. Atomic!Waits(r) /\ call[r].op = "delete" /\ i \in Id
  BY <1>1, ServedRequestWaits, StatementTells DEF Inv
<1>3. Atomic!Delete(r) /\ noted' = [noted EXCEPT ![r] = None] /\ met' = met \ {r} /\ call' = call
      => Atomic!Next
  BY <1>1, <1>2 DEF Atomic!Resolve, Atomic!Next
<1>4. CASE /\ Active(i)
           /\ rows' = [rows EXCEPT ![i].deleted = TRUE]
           /\ Acknowledge(r, "deleted", rows[i].version)
  <2> DEFINE row == [rows[i] EXCEPT !.deleted = TRUE]
  <2>1. rows[i] \in Row
    BY <1>2, <1>4 DEF Inv, TypeOK, Active, Present
  <2>2. row.version = rows[i].version
    BY <2>1 DEF Row
  <2>3. rows' = [rows EXCEPT ![i] = row]
    BY <1>4
  <2> HIDE DEF row
  <2>4. Atomic!Effect(r, row, "deleted") /\ noted' = [noted EXCEPT ![r] = None] /\ met' = met \ {r} /\ call' = call
    BY <1>4, <2>2, <2>3, WriteResolves
  <2> QED
    BY <1>3, <1>4, <2>4, SameTables DEF Atomic!Delete, row
<1>5. CASE ~Active(i) /\ Refuse(r, "notFound") /\ UNCHANGED rows
  BY <1>3, <1>5, RefusalResolves, SameTables DEF Atomic!Delete
<1> QED
  BY <1>4, <1>5 DEF SoftDelete

LEMMA FailureIsAtomic ==
  ASSUME Inv, NEW r \in Req, Fail(r)
  PROVE  Atomic!Next
<1>1. pc[r] \notin {"idle", "done"} /\ Refuse(r, "error") /\ UNCHANGED <<rows, races>>
  BY DEF Fail
<1>2. Atomic!GiveUp(r) /\ noted' = [noted EXCEPT ![r] = None] /\ met' = met \ {r} /\ call' = call
  BY <1>1, RefusalResolves DEF Atomic!GiveUp
<1> QED
  BY <1>1, <1>2, ServedRequestWaits DEF Atomic!Resolve, Atomic!Next

LEMMA ArrivalAsks ==
  ASSUME Inv, NEW r \in Req, Arrive(r)
  PROVE  Atomic!Next
<1>1. PICK c \in CallsOf(r) : /\ call' = [call EXCEPT ![r] = c]
                              /\ pc' = [pc EXCEPT ![r] = FirstStatement(c.op)]
  BY DEF Arrive, Dispatch
<1>2. /\ pc[r] = "idle" /\ call[r] = None /\ UNCHANGED <<rows, races, base, reply>>
      /\ TypeOK /\ RequestsWellFormed
  BY DEF Arrive, Dispatch, Inv, RequestsWellFormed
<1>3. c \in Call /\ (c.op = "create" => c.id = r)
  BY <1>2, CallsAreTyped
<1>4. call'[r] = c
  BY <1>1, <1>2 DEF TypeOK
<1>5. c \in Atomic!Question
  BY <1>3, SameTables DEF Call, Operation, Atomic!Question
<1>6. FirstStatement(c.op) # "fetch"
  BY <1>3 DEF FirstStatement, Call, Operation
<1>7. noted' = noted /\ met' = met
  BY <1>1, <1>2, <1>6 DEF noted, met, TypeOK
<1>8. Atomic!Ask(r)
  BY <1>1, <1>2, <1>3, <1>4, <1>5, <1>7 DEF Atomic!Ask
<1> QED
  BY <1>8 DEF Atomic!Next

LEMMA BackgroundIsAtomic ==
  ASSUME Inv, \/ \E i \in Id : Elapse(i)
              \/ SweepUnconfirmed
              \/ \E x \in Race : DeleteRace(x)
  PROVE  Atomic!Next
<1>1. UNCHANGED <<pc, call, base, reply>>
  BY DEF Elapse, SweepUnconfirmed, DeleteRace
<1>2. noted' = noted /\ met' = met
  BY <1>1 DEF noted, met
<1>3. ASSUME NEW i \in Id, Elapse(i) PROVE Atomic!Next
  <2>1. Atomic!Age(i)
    BY <1>1, <1>2, <1>3, SameTables DEF Elapse, Atomic!Age
  <2> QED
    BY <2>1, SameTables DEF Atomic!Next
<1>4. CASE SweepUnconfirmed
  <2>1. Expired = {i \in Atomic!Id : Atomic!Pending(i) /\ rows[i].aged}
    BY SameTables DEF Expired, Pending, Inv, RowsWellFormed
  <2>2. Atomic!Reclaim
    BY <1>1, <1>2, <1>4, <2>1, SameTables DEF SweepUnconfirmed, Atomic!Reclaim
  <2> QED
    BY <2>2 DEF Atomic!Next
<1>5. ASSUME NEW x \in Race, DeleteRace(x) PROVE Atomic!Next
  <2>1. Atomic!DropRace(x) /\ x \in races
    BY <1>1, <1>2, <1>5, SameTables DEF DeleteRace, Atomic!DropRace
  <2> QED
    BY <2>1 DEF Atomic!Next
<1> QED
  BY <1>3, <1>4, <1>5

LEMMA AtomicBegins == Init => Atomic!Init
<1> SUFFICES ASSUME Init PROVE Atomic!Init
  OBVIOUS
<1>1. PICK content \in [Existing -> [race : Race, data : [Field -> Value \cup {None}]]] :
        rows = [i \in Id |->
                 IF i \in Existing
                 THEN [key |-> None, race |-> content[i].race, data |-> content[i].data,
                       version |-> 1, confirmed |-> TRUE, deleted |-> FALSE, aged |-> FALSE]
                 ELSE None]
  BY DEF Init
<1>2. ASSUME NEW i \in Existing PROVE rows[i] \in Atomic!Confirmed
  <2>1. i \in Id /\ content[i] \in [race : Race, data : [Field -> Value \cup {None}]]
    BY DEF Id
  <2>2. rows[i] = [key |-> None, race |-> content[i].race, data |-> content[i].data,
                   version |-> 1, confirmed |-> TRUE, deleted |-> FALSE, aged |-> FALSE]
    BY <1>1, <2>1
  <2> QED
    BY <2>1, <2>2 DEF Atomic!Confirmed
<1>3. DOMAIN rows = Id /\ \A i \in Id : i \notin Existing => rows[i] = None
  BY <1>1
<1>4. noted = [r \in Req |-> None] /\ met = {}
  BY DEF Init, noted, met
<1> QED
  BY <1>2, <1>3, <1>4, SameTables DEF Init, Atomic!Init

LEMMA AtomicGoesOn == Inv /\ [Next]_vars => [Atomic!Next]_(Atomic!vars)
<1> SUFFICES ASSUME Inv, [Next]_vars PROVE [Atomic!Next]_(Atomic!vars)
  OBVIOUS
<1>1. ASSUME NEW r \in Req, Serve(r) PROVE [Atomic!Next]_(Atomic!vars)
  BY <1>1, CreationIsAtomic, ConfirmationIsAtomic, EditIsAtomic, DeletionIsAtomic, FailureIsAtomic DEF Serve
<1>2. CASE UNCHANGED vars
  BY <1>2 DEF vars, Atomic!vars, noted, met
<1> QED
  BY <1>1, <1>2, ArrivalAsks, BackgroundIsAtomic DEF Next

\* Every request for a character takes effect at one moment between its arrival
\* and its answer, and what it merges with is the row of that moment.
THEOREM AtomicImplementation == Spec => ImplementsAtomicCharacters
<1>1. Spec => Atomic!Init /\ [][Atomic!Next]_(Atomic!vars)
  BY AtomicBegins, AtomicGoesOn, Invariance, PTL DEF Spec
<1> QED
  BY <1>1 DEF ImplementsAtomicCharacters, Atomic!Spec
=============================================================================
