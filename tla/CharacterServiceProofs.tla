----------------------- MODULE CharacterServiceProofs -----------------------
(***************************************************************************)
(* Proofs about CharacterService, for any requests, characters, tokens,    *)
(* races, columns and values.                                              *)
(***************************************************************************)
EXTENDS CharacterService, TLAPS

-----------------------------------------------------------------------------
(* Typing.                                                                 *)

\* What a client can ask is a well-formed call (the sets that Arrive draws from).
LEMMA CallsAreTyped ==
  ASSUME TypeOK, NEW r \in Req, NEW c \in CallsOf(r), RequestsWellFormed
  PROVE  /\ c \in Call
         /\ c.op = "create" => c.id = r /\ c.race \in Race
         /\ c.op = "put" => c.race \in Race
         /\ c.op # "create" => c.id \in Known
         /\ c.op # "create" => c.ifMatch \in IfMatch(c.id)
<1>1. Known \subseteq Id
  BY DEF Known, TypeOK, Reply, Id
<1>2. CASE c \in CreateCalls(r)
  BY <1>2 DEF CreateCalls, Call, Operation, Id
<1>3. ASSUME NEW i \in Known,
             c \in ConfirmCalls(i) \cup PutCalls(i) \cup PatchCalls(i) \cup DeleteCalls(i)
      PROVE  /\ c \in Call
             /\ c.op # "create"
             /\ c.op = "put" => c.race \in Race
             /\ c.id = i
             /\ c.ifMatch \in IfMatch(i)
  <2>1. IfMatch(i) \subseteq {None} \cup Nat
    <3>1. i \in Id
      BY <1>1
    <3> QED
      BY <3>1 DEF IfMatch, Present, TypeOK, Row
  <2>2. i \in Id
    BY <1>1
  <2>3. CASE c \in ConfirmCalls(i)
    BY <2>2, <2>3 DEF ConfirmCalls, Call, Operation, NoData, IfMatch
  <2>4. CASE c \in PutCalls(i)
    BY <2>1, <2>2, <2>4 DEF PutCalls, Call, Operation
  <2>5. CASE c \in PatchCalls(i)
    BY <2>1, <2>2, <2>5 DEF PatchCalls, Call, Operation
  <2>6. CASE c \in DeleteCalls(i)
    BY <2>2, <2>6 DEF DeleteCalls, Call, Operation, NoData, IfMatch
  <2> QED
    BY <1>3, <2>3, <2>4, <2>5, <2>6
<1> QED
  BY <1>2, <1>3 DEF CallsOf, CreateCalls

\* What the statements of a request write is a row.
LEMMA NewRowIsTyped ==
  ASSUME NEW c \in Call, c.race \in Race
  PROVE  NewRow(c) \in Row
  BY DEF NewRow, Row, Call, Stored

LEMMA MergeIsTyped ==
  ASSUME TypeOK, NEW r \in Req, call[r] # None, base[r] # None
  PROVE  NewData(r) \in [Field -> Value \cup {None}]
<1>1. call[r].data \in [Field -> Value \cup {None, Empty}] /\ base[r].data \in [Field -> Value \cup {None}]
  BY DEF TypeOK, Call, Row
<1> QED
  BY <1>1 DEF NewData, Coalesce, Stored

RequestsTyped ==
  /\ pc \in [Req -> Statement \cup {"idle", "done"}]
  /\ call \in [Req -> Call \cup {None}]
  /\ base \in [Req -> Row \cup {None}]
  /\ reply \in [Req -> Reply \cup {None}]

\* An answer ends the request, and touches no other.
LEMMA AnswerEnds ==
  ASSUME TypeOK, NEW r \in Req, NEW status \in Status, NEW i \in Id, NEW n \in Nat,
         Answer(r, status, i, n)
  PROVE  /\ RequestsTyped'
         /\ pc' = [pc EXCEPT ![r] = "done"]
         /\ base' = [base EXCEPT ![r] = None]
         /\ call' = call
         /\ reply' = [reply EXCEPT ![r] = [status |-> status, id |-> i, version |-> n]]
  BY DEF Answer, RequestsTyped, TypeOK, Reply

\* The statements a well-formed request is at tell what it asks.
LEMMA StatementTells ==
  ASSUME TypeOK, RequestsWellFormed, NEW r \in Req, pc[r] \notin {"idle", "done"}
  PROVE  /\ call[r] \in Call
         /\ call[r].id \in Id
         /\ reply[r] = None
         /\ pc[r] \in {"insert", "fetch"} <=> call[r].op = "create"
         /\ pc[r] \in {"confirm", "recheck"} <=> call[r].op = "confirm"
         /\ pc[r] \in {"find", "write"} <=> call[r].op \in {"put", "patch"}
         /\ pc[r] = "delete" <=> call[r].op = "delete"
         /\ pc[r] # "write" => base[r] = None
         /\ pc[r] = "write" => base[r] \in Row
         /\ call[r].op = "create" => call[r].id = r /\ call[r].race \in Race
         /\ call[r].op = "put" => call[r].race \in Race
<1>1. call[r] \in Call /\ reply[r] = None /\ pc[r] \in Statements(call[r].op)
  BY DEF TypeOK, RequestsWellFormed
<1>2. call[r].id \in Id /\ call[r].op \in Operation
  BY <1>1 DEF Call
<1>3. /\ pc[r] # "write" => base[r] = None
      /\ pc[r] = "write" => base[r] \in Row
      /\ call[r].op = "create" => call[r].id = r /\ call[r].race \in Race
      /\ call[r].op = "put" => call[r].race \in Race
  BY <1>1, NoneIsNoData DEF TypeOK, RequestsWellFormed
<1> QED
  BY <1>1, <1>2, <1>3 DEF Statements, Operation

\* What the answer to a request may be, by what it asks.
StatusFits(r, status) ==
  status \in {"created", "replayed"} => call[r].op = "create"

\* A request that answers leaves the requests well-formed.
LEMMA AnswerIsWellFormed ==
  ASSUME TypeOK, RequestsWellFormed, NEW r \in Req, pc[r] \notin {"idle", "done"},
         NEW status \in Status, NEW i \in Id, NEW n \in Nat,
         StatusFits(r, status),
         status \notin {"created", "replayed"} => i = call[r].id,
         Answer(r, status, i, n)
  PROVE  RequestsTyped' /\ RequestsWellFormed'
<1>1. /\ RequestsTyped'
      /\ pc' = [pc EXCEPT ![r] = "done"]
      /\ base' = [base EXCEPT ![r] = None]
      /\ call' = call
      /\ reply' = [reply EXCEPT ![r] = [status |-> status, id |-> i, version |-> n]]
  BY AnswerEnds
<1>2. [status |-> status, id |-> i, version |-> n] \in Reply
  BY DEF Reply
<1>3. call[r] # None
  BY DEF RequestsWellFormed
<1>4. ASSUME NEW q \in Req
      PROVE  /\ call'[q] = None <=> pc'[q] = "idle"
             /\ reply'[q] = None <=> pc'[q] # "done"
             /\ base'[q] = None <=> pc'[q] # "write"
             /\ pc'[q] \notin {"idle", "done"} => pc'[q] \in Statements(call'[q].op)
             /\ call'[q] # None /\ call'[q].op = "create" => call'[q].id = q /\ call'[q].race \in Race
             /\ call'[q] # None /\ call'[q].op = "put" => call'[q].race \in Race
             /\ GivenCharacter(q)' => call'[q].op = "create"
             /\ reply'[q] # None /\ ~GivenCharacter(q)' => reply'[q].id = call'[q].id
  <2>1. CASE q = r
    BY <1>1, <1>2, <1>3, <2>1, NoneIsNoData
       DEF RequestsWellFormed, TypeOK, GivenCharacter, Answered, StatusFits
  <2>2. CASE q # r
    BY <1>1, <2>2 DEF RequestsWellFormed, TypeOK, GivenCharacter, Answered
  <2> QED
    BY <2>1, <2>2
<1> QED
  BY <1>1, <1>4 DEF RequestsWellFormed

\* A request that goes on to its next statement leaves the requests well-formed.
LEMMA GoToIsWellFormed ==
  ASSUME TypeOK, RequestsWellFormed, NEW r \in Req, pc[r] \notin {"idle", "done"},
         NEW statement \in Statement, statement \in Statements(call[r].op),
         GoTo(r, statement),
         NEW b \in Row \cup {None}, b = None <=> statement # "write",
         base' = [base EXCEPT ![r] = b]
  PROVE  RequestsTyped' /\ RequestsWellFormed'
<1>1. RequestsTyped'
  BY DEF GoTo, TypeOK, RequestsTyped
<1>2. statement \notin {"idle", "done"}
  BY DEF Statement
<1>3. ASSUME NEW q \in Req
      PROVE  /\ call'[q] = None <=> pc'[q] = "idle"
             /\ reply'[q] = None <=> pc'[q] # "done"
             /\ base'[q] = None <=> pc'[q] # "write"
             /\ pc'[q] \notin {"idle", "done"} => pc'[q] \in Statements(call'[q].op)
             /\ call'[q] # None /\ call'[q].op = "create" => call'[q].id = q /\ call'[q].race \in Race
             /\ call'[q] # None /\ call'[q].op = "put" => call'[q].race \in Race
             /\ GivenCharacter(q)' => call'[q].op = "create"
             /\ reply'[q] # None /\ ~GivenCharacter(q)' => reply'[q].id = call'[q].id
  <2>1. CASE q = r
    BY <1>2, <2>1 DEF GoTo, RequestsWellFormed, TypeOK, GivenCharacter, Answered
  <2>2. CASE q # r
    BY <2>2 DEF GoTo, RequestsWellFormed, TypeOK, GivenCharacter, Answered
  <2> QED
    BY <2>1, <2>2
<1> QED
  BY <1>1, <1>3 DEF RequestsWellFormed

\* Refusing is answering with the request's own id and no version.
LEMMA RefusalIsWellFormed ==
  ASSUME TypeOK, RequestsWellFormed, NEW r \in Req, pc[r] \notin {"idle", "done"},
         NEW status \in Status \ {"created", "replayed"}, Refuse(r, status)
  PROVE  RequestsTyped' /\ RequestsWellFormed'
<1>1. call[r].id \in Id
  BY StatementTells
<1> QED
  BY <1>1, AnswerIsWellFormed DEF Refuse, StatusFits

\* So is acknowledging a write, whether or not the acknowledgement arrives.
LEMMA AcknowledgementIsWellFormed ==
  ASSUME TypeOK, RequestsWellFormed, NEW r \in Req, pc[r] \notin {"idle", "done"},
         NEW status \in Status \ {"replayed"}, StatusFits(r, status),
         status = "created" => call[r].id = r,
         NEW n \in Nat, Acknowledge(r, status, n)
  PROVE  RequestsTyped' /\ RequestsWellFormed'
<1>1. call[r].id \in Id
  BY StatementTells
<1>2. CASE Answer(r, status, call[r].id, n)
  BY <1>1, <1>2, AnswerIsWellFormed
<1>3. CASE Refuse(r, "error")
  BY <1>3, RefusalIsWellFormed DEF Status
<1> QED
  BY <1>2, <1>3 DEF Acknowledge

\* Every statement of a request keeps the tables and the requests well-formed.
LEMMA ServeIsTyped ==
  ASSUME TypeOK, RequestsWellFormed, NEW r \in Req, Serve(r)
  PROVE  TypeOK' /\ RequestsWellFormed'
<1> USE DEF Status, Statement
<1>1. pc[r] \notin {"idle", "done"}
  BY DEF Serve, SaveInsert, SaveFetchExisting, ConfirmPending, ConfirmRecheck, FindByID,
         UpdateCharacter, SoftDelete, Fail
<1>2. /\ call[r] \in Call
      /\ call[r].id \in Id
      /\ pc[r] \in {"insert", "fetch"} <=> call[r].op = "create"
      /\ pc[r] \in {"confirm", "recheck"} <=> call[r].op = "confirm"
      /\ pc[r] \in {"find", "write"} <=> call[r].op \in {"put", "patch"}
      /\ pc[r] # "write" => base[r] = None
      /\ pc[r] = "write" => base[r] \in Row
      /\ call[r].op = "create" => call[r].id = r /\ call[r].race \in Race
  BY <1>1, StatementTells
<1>3. ASSUME NEW i \in Id, Present(i) PROVE rows[i] \in Row /\ rows[i].version \in Nat \ {0}
  BY <1>3 DEF Present, TypeOK, Row
<1>4. UNCHANGED base /\ pc[r] # "write" => base' = [base EXCEPT ![r] = None]
  BY <1>2 DEF TypeOK
<1>5. SUFFICES /\ rows' \in [Id -> Row \cup {None}] /\ races' \subseteq Race /\ reclaimed' \subseteq Id
               /\ RequestsTyped' /\ RequestsWellFormed'
  BY DEF TypeOK, RequestsTyped
<1>6. races' \subseteq Race /\ reclaimed' \subseteq Id
  BY DEF TypeOK, Serve, SaveInsert, SaveFetchExisting, ConfirmPending, ConfirmRecheck,
         FindByID, UpdateCharacter, SoftDelete, Fail
<1>7. CASE SaveInsert(r)
  <2>1. CASE GoTo(r, "fetch") /\ UNCHANGED <<rows, base>>
    BY <1>1, <1>2, <1>4, <1>6, <1>7, <2>1, GoToIsWellFormed DEF SaveInsert, Statements, TypeOK
  <2>2. CASE Refuse(r, "raceNotFound") /\ UNCHANGED rows
    BY <1>1, <1>6, <2>2, RefusalIsWellFormed DEF TypeOK
  <2>3. CASE rows' = [rows EXCEPT ![call[r].id] = NewRow(call[r])] /\ Acknowledge(r, "created", 1)
    <3>1. NewRow(call[r]) \in Row
      BY <1>2, <1>7, NewRowIsTyped DEF SaveInsert
    <3>2. RequestsTyped' /\ RequestsWellFormed'
      BY <1>1, <1>2, <1>7, <2>3, AcknowledgementIsWellFormed DEF SaveInsert, StatusFits
    <3> QED
      BY <1>2, <1>6, <2>3, <3>1, <3>2 DEF TypeOK
  <2> QED
    BY <1>7, <2>1, <2>2, <2>3 DEF SaveInsert
<1>8. CASE SaveFetchExisting(r)
  <2>1. ASSUME NEW i \in HoldersOf(call[r].key), Answer(r, "replayed", i, rows[i].version)
        PROVE  RequestsTyped' /\ RequestsWellFormed'
    <3>1. i \in Id /\ rows[i].version \in Nat
      BY <1>3 DEF HoldersOf
    <3> QED
      BY <1>1, <1>2, <1>8, <2>1, <3>1, AnswerIsWellFormed DEF SaveFetchExisting, StatusFits
  <2>2. ASSUME Refuse(r, "consumed")
        PROVE  RequestsTyped' /\ RequestsWellFormed'
    BY <1>1, <2>2, RefusalIsWellFormed
  <2> QED
    <3>1. RequestsTyped' /\ RequestsWellFormed'
      BY <1>8, <2>1, <2>2 DEF SaveFetchExisting
    <3> QED
      BY <1>6, <1>8, <3>1 DEF SaveFetchExisting, TypeOK
<1>9. CASE ConfirmPending(r)
  <2>1. CASE /\ Pending(call[r].id)
             /\ rows' = [rows EXCEPT ![call[r].id].confirmed = TRUE]
             /\ Acknowledge(r, "confirmed", rows[call[r].id].version)
    <3>1. rows[call[r].id] \in Row /\ rows[call[r].id].version \in Nat
      BY <1>2, <1>3, <2>1 DEF Pending
    <3>2. RequestsTyped' /\ RequestsWellFormed'
      BY <1>1, <2>1, <3>1, AcknowledgementIsWellFormed DEF StatusFits
    <3>3. rows' \in [Id -> Row \cup {None}]
      BY <1>2, <2>1, <3>1 DEF TypeOK, Row
    <3> QED
      BY <1>6, <3>2, <3>3
  <2>2. CASE GoTo(r, "recheck") /\ UNCHANGED <<rows, base>>
    BY <1>1, <1>2, <1>4, <1>6, <1>9, <2>2, GoToIsWellFormed DEF ConfirmPending, Statements, TypeOK
  <2> QED
    BY <1>9, <2>1, <2>2 DEF ConfirmPending
<1>10. CASE ConfirmRecheck(r)
  <2>1. CASE Active(call[r].id) /\ Answer(r, "confirmed", call[r].id, rows[call[r].id].version)
    <3>1. rows[call[r].id].version \in Nat
      BY <1>2, <1>3, <2>1 DEF Active
    <3> QED
      BY <1>1, <1>2, <1>6, <1>10, <2>1, <3>1, AnswerIsWellFormed DEF ConfirmRecheck, StatusFits, TypeOK
  <2>2. CASE Refuse(r, "notFound")
    BY <1>1, <1>6, <1>10, <2>2, RefusalIsWellFormed DEF ConfirmRecheck, TypeOK
  <2> QED
    BY <1>10, <2>1, <2>2 DEF ConfirmRecheck
<1>11. CASE FindByID(r)
  <2>1. CASE /\ Active(call[r].id)
             /\ base' = [base EXCEPT ![r] = rows[call[r].id]]
             /\ GoTo(r, "write")
    <3>1. rows[call[r].id] \in Row /\ rows[call[r].id] # None
      BY <1>2, <1>3, <2>1 DEF Active, Present
    <3> QED
      BY <1>1, <1>2, <1>6, <1>11, <2>1, <3>1, GoToIsWellFormed DEF FindByID, Statements, TypeOK
  <2>2. CASE Refuse(r, "notFound")
    BY <1>1, <1>6, <1>11, <2>2, RefusalIsWellFormed DEF FindByID, TypeOK
  <2> QED
    BY <1>11, <2>1, <2>2 DEF FindByID
<1>12. CASE UpdateCharacter(r)
  <2>1. CASE \E status \in {"notFound", "versionConflict", "raceNotFound"} :
               Refuse(r, status) /\ UNCHANGED rows
    BY <1>1, <1>6, <2>1, RefusalIsWellFormed DEF TypeOK
  <2>2. CASE /\ Active(call[r].id)
             /\ NewRace(r) \in races
             /\ rows' = [rows EXCEPT ![call[r].id].race = NewRace(r),
                                     ![call[r].id].data = NewData(r),
                                     ![call[r].id].version = @ + 1]
             /\ Acknowledge(r, "updated", rows[call[r].id].version + 1)
    <3>1. rows[call[r].id] \in Row /\ rows[call[r].id].version + 1 \in Nat \ {0}
      BY <1>2, <1>3, <2>2 DEF Active
    <3>2. RequestsTyped' /\ RequestsWellFormed'
      BY <1>1, <2>2, <3>1, AcknowledgementIsWellFormed DEF StatusFits
    <3>3. NewRace(r) \in Race /\ NewData(r) \in [Field -> Value \cup {None}]
      <4>1. call[r] # None /\ base[r] # None
        BY <1>1, <1>12 DEF RequestsWellFormed, UpdateCharacter
      <4> QED
        BY <2>2, <4>1, MergeIsTyped DEF TypeOK
    <3>4. rows' \in [Id -> Row \cup {None}]
      BY <1>2, <2>2, <3>1, <3>3 DEF TypeOK, Row
    <3> QED
      BY <1>6, <3>2, <3>4
  <2> QED
    BY <1>12, <2>1, <2>2 DEF UpdateCharacter
<1>13. CASE SoftDelete(r)
  <2>1. CASE /\ Active(call[r].id)
             /\ rows' = [rows EXCEPT ![call[r].id].deleted = TRUE]
             /\ Acknowledge(r, "deleted", rows[call[r].id].version)
    <3>1. rows[call[r].id] \in Row /\ rows[call[r].id].version \in Nat
      BY <1>2, <1>3, <2>1 DEF Active
    <3>2. RequestsTyped' /\ RequestsWellFormed'
      BY <1>1, <2>1, <3>1, AcknowledgementIsWellFormed DEF StatusFits
    <3>3. rows' \in [Id -> Row \cup {None}]
      BY <1>2, <2>1, <3>1 DEF TypeOK, Row
    <3> QED
      BY <1>6, <3>2, <3>3
  <2>2. CASE Refuse(r, "notFound") /\ UNCHANGED rows
    BY <1>1, <1>6, <2>2, RefusalIsWellFormed DEF TypeOK
  <2> QED
    BY <1>13, <2>1, <2>2 DEF SoftDelete
<1>14. CASE Fail(r)
  BY <1>1, <1>6, <1>14, RefusalIsWellFormed DEF Fail, TypeOK
<1> QED
  BY <1>7, <1>8, <1>9, <1>10, <1>11, <1>12, <1>13, <1>14 DEF Serve

\* An arriving request is well-formed.
LEMMA ArrivalIsTyped ==
  ASSUME TypeOK, RequestsWellFormed, NEW r \in Req, Arrive(r)
  PROVE  TypeOK' /\ RequestsWellFormed'
<1>1. PICK c \in CallsOf(r) : /\ c.op \in Ops
                              /\ call' = [call EXCEPT ![r] = c]
                              /\ pc' = [pc EXCEPT ![r] = FirstStatement(c.op)]
  BY DEF Arrive, Dispatch
<1>2. /\ c \in Call
      /\ c.op = "create" => c.id = r /\ c.race \in Race
      /\ c.op = "put" => c.race \in Race
  BY CallsAreTyped
<1>3. c.op \in Operation /\ c # None
  BY <1>2, NoneIsNoData DEF Call
<1>4. /\ FirstStatement(c.op) \in Statement \ {"write", "idle", "done"}
      /\ FirstStatement(c.op) \in Statements(c.op)
  BY <1>3 DEF FirstStatement, Statements, Statement, Operation
<1>5. TypeOK'
  BY <1>1, <1>2, <1>4 DEF TypeOK, Arrive, Dispatch
<1>6. ASSUME NEW q \in Req
      PROVE  /\ call'[q] = None <=> pc'[q] = "idle"
             /\ reply'[q] = None <=> pc'[q] # "done"
             /\ base'[q] = None <=> pc'[q] # "write"
             /\ pc'[q] \notin {"idle", "done"} => pc'[q] \in Statements(call'[q].op)
             /\ call'[q] # None /\ call'[q].op = "create" => call'[q].id = q /\ call'[q].race \in Race
             /\ call'[q] # None /\ call'[q].op = "put" => call'[q].race \in Race
             /\ GivenCharacter(q)' => call'[q].op = "create"
             /\ reply'[q] # None /\ ~GivenCharacter(q)' => reply'[q].id = call'[q].id
  <2>1. CASE q = r
    BY <1>1, <1>2, <1>3, <1>4, <2>1 DEF Arrive, Dispatch, RequestsWellFormed, TypeOK, GivenCharacter, Answered
  <2>2. CASE q # r
    BY <1>1, <2>2 DEF Arrive, Dispatch, RequestsWellFormed, TypeOK, GivenCharacter, Answered
  <2> QED
    BY <2>1, <2>2
<1> QED
  BY <1>5, <1>6 DEF RequestsWellFormed

\* What happens without a request leaves the requests alone.
LEMMA BackgroundIsTyped ==
  ASSUME TypeOK, RequestsWellFormed,
         \/ \E i \in Id : Elapse(i)
         \/ SweepUnconfirmed
         \/ \E x \in Race : DeleteRace(x)
  PROVE  TypeOK' /\ RequestsWellFormed' /\ UNCHANGED <<pc, call, base, reply>>
<1>1. UNCHANGED <<pc, call, base, reply>>
  BY DEF Elapse, SweepUnconfirmed, DeleteRace
<1>2. RequestsWellFormed'
  BY <1>1 DEF RequestsWellFormed, GivenCharacter, Answered
<1>3. ASSUME NEW i \in Id, Elapse(i) PROVE TypeOK'
  <2>1. rows[i] \in Row
    BY <1>3 DEF Elapse, Pending, Present, TypeOK
  <2>2. rows' \in [Id -> Row \cup {None}]
    BY <1>3, <2>1 DEF Elapse, TypeOK, Row
  <2> QED
    BY <1>1, <1>3, <2>2 DEF Elapse, TypeOK
<1>4. CASE SweepUnconfirmed
  BY <1>1, <1>2, <1>4 DEF SweepUnconfirmed, Expired, TypeOK
<1>5. ASSUME NEW x \in Race, DeleteRace(x) PROVE TypeOK'
  BY <1>1, <1>5 DEF DeleteRace, TypeOK
<1> QED
  BY <1>1, <1>2, <1>3, <1>4, <1>5

LEMMA InitIsTyped ==
  Init => TypeOK /\ RequestsWellFormed
<1> SUFFICES ASSUME Init PROVE TypeOK /\ RequestsWellFormed
  OBVIOUS
<1>1. rows \in [Id -> Row \cup {None}]
  <2>1. PICK content \in [Existing -> [race : Race, data : [Field -> Value \cup {None}]]] :
          rows = [i \in Id |->
                   IF i \in Existing
                   THEN [key |-> None, race |-> content[i].race, data |-> content[i].data,
                         version |-> 1, confirmed |-> TRUE, deleted |-> FALSE, aged |-> FALSE]
                   ELSE None]
    BY DEF Init
  <2>2. ASSUME NEW i \in Existing
        PROVE  content[i].race \in Race /\ content[i].data \in [Field -> Value \cup {None}]
    OBVIOUS
  <2> QED
    BY <2>1, <2>2 DEF Row
<1>2. TypeOK
  BY <1>1 DEF Init, TypeOK
<1>3. RequestsWellFormed
  <2>1. ASSUME NEW r \in Req
        PROVE  pc[r] = "idle" /\ call[r] = None /\ base[r] = None /\ reply[r] = None
    BY DEF Init
  <2> QED
    BY <2>1 DEF RequestsWellFormed, GivenCharacter, Answered
<1> QED
  BY <1>2, <1>3

LEMMA StepIsTyped ==
  ASSUME TypeOK, RequestsWellFormed, [Next]_vars
  PROVE  TypeOK' /\ RequestsWellFormed'
<1>1. ASSUME NEW r \in Req, Arrive(r) PROVE TypeOK' /\ RequestsWellFormed'
  BY <1>1, ArrivalIsTyped
<1>2. ASSUME NEW r \in Req, Serve(r) PROVE TypeOK' /\ RequestsWellFormed'
  BY <1>2, ServeIsTyped
<1>3. CASE \/ \E i \in Id : Elapse(i)
           \/ SweepUnconfirmed
           \/ \E x \in Race : DeleteRace(x)
  BY <1>3, BackgroundIsTyped
<1>4. CASE UNCHANGED vars
  BY <1>4 DEF vars, TypeOK, RequestsWellFormed, GivenCharacter, Answered
<1> QED
  BY <1>1, <1>2, <1>3, <1>4 DEF Next

\* Every variable keeps its type: no statement, whatever it finds, leaves a row,
\* a call or an answer that the code does not expect.
THEOREM TypeCorrect == Spec => []TypeOK
<1>1. Init => TypeOK /\ RequestsWellFormed
  BY InitIsTyped
<1>2. TypeOK /\ RequestsWellFormed /\ [Next]_vars => (TypeOK /\ RequestsWellFormed)'
  BY StepIsTyped
<1> QED
  BY <1>1, <1>2, PTL DEF Spec

-----------------------------------------------------------------------------
(* What one step may do to a request and to a row.                         *)

Still(r) == pc'[r] = pc[r] /\ call'[r] = call[r] /\ base'[r] = base[r] /\ reply'[r] = reply[r]

\* The row lives on: it keeps its token, what it has become, and what a version means.
SurvivesAs(old, new) ==
  /\ new.key = old.key
  /\ old.confirmed => new.confirmed
  /\ old.deleted => new.deleted
  /\ old.version <= new.version
  /\ ~old.confirmed => new.version = old.version /\ new.deleted = old.deleted
  /\ old.confirmed /\ ~new.deleted /\ new.version = old.version => new = old

Survives(i) == rows'[i] # None /\ SurvivesAs(rows[i], rows'[i])

\* The sweeper takes the row.
Reclaims(i) == ~rows[i].confirmed /\ rows'[i] = None /\ i \in reclaimed'

\* The create request i inserts its row.
Inserts(i) ==
  /\ i \in Req
  /\ pc[i] = "insert" /\ pc'[i] = "done"
  /\ HoldersOf(call[i].key) = {}
  /\ rows'[i] = NewRow(call[i])
  /\ \A j \in Id \ {i} : rows'[j] = rows[j]

\* The row keeps its race, or is given one that exists.
KeepsOrFinds(found, old, new) == new = old \/ new \in found

RefersTo(i) ==
  \/ rows[i] # None /\ KeepsOrFinds(races, rows[i].race, rows'[i].race)
  \/ rows'[i].race \in races

RowStep(i) ==
  /\ rows[i] # None => Survives(i) \/ Reclaims(i)
  /\ rows[i] = None /\ rows'[i] # None => Inserts(i)
  /\ rows'[i] # None => RefersTo(i)
  /\ i \in reclaimed => i \in reclaimed'
  /\ i \in reclaimed' /\ i \notin reclaimed => rows[i] # None /\ Reclaims(i)

\* A step moves one request at most.
LEMMA OneRequestMoves ==
  ASSUME TypeOK, RequestsWellFormed, [Next]_vars
  PROVE  /\ \A q \in Req : Still(q) \/ Arrive(q) \/ Serve(q)
         /\ \A p, q \in Req : p = q \/ Still(p) \/ Still(q)
<1>1. ASSUME NEW r \in Req, NEW q \in Req \ {r}, Arrive(r) PROVE Still(q)
  BY <1>1 DEF Arrive, Dispatch, Still, TypeOK
<1>2. ASSUME NEW r \in Req, NEW q \in Req \ {r}, Serve(r) PROVE Still(q)
  BY <1>2 DEF Serve, SaveInsert, SaveFetchExisting, ConfirmPending, ConfirmRecheck, FindByID,
              UpdateCharacter, SoftDelete, Fail, GoTo, Answer, Refuse, Acknowledge, Still, TypeOK
<1>3. ASSUME UNCHANGED <<pc, call, base, reply>>, NEW q \in Req PROVE Still(q)
  BY <1>3 DEF Still
<1>4. CASE \/ \E i \in Id : Elapse(i)
           \/ SweepUnconfirmed
           \/ \E x \in Race : DeleteRace(x)
  BY <1>3, <1>4, BackgroundIsTyped
<1>5. CASE UNCHANGED vars
  BY <1>3, <1>5 DEF vars
<1> QED
  BY <1>1, <1>2, <1>4, <1>5 DEF Next

\* A row that stays as it is survives.
LEMMA UntouchedRowSteps ==
  ASSUME TypeOK, NEW i \in Id, rows'[i] = rows[i], reclaimed' = reclaimed
  PROVE  RowStep(i)
<1>1. CASE rows[i] = None
  BY <1>1 DEF RowStep
<1>2. CASE rows[i] # None
  <2>1. rows[i].version \in Nat
    BY <1>2 DEF TypeOK, Row
  <2> QED
    BY <1>2, <2>1 DEF RowStep, Survives, SurvivesAs, RefersTo, KeepsOrFinds
<1> QED
  BY <1>1, <1>2

\* A row rewritten in a way that it survives takes a step, and the others stay.
LEMMA RewrittenRowSteps ==
  ASSUME TypeOK, NEW i \in Id, NEW j \in Id, rows[j] \in Row, NEW row \in Row,
         rows' = [rows EXCEPT ![j] = row], reclaimed' = reclaimed,
         SurvivesAs(rows[j], row),
         KeepsOrFinds(races, rows[j].race, row.race)
  PROVE  RowStep(i)
<1>1. rows'[j] = row /\ row # None
  BY NoneIsNoData DEF TypeOK
<1>2. CASE i = j
  BY <1>1, <1>2, NoneIsNoData DEF RowStep, Survives, RefersTo
<1>3. CASE i # j
  BY <1>3, UntouchedRowSteps DEF TypeOK
<1> QED
  BY <1>2, <1>3

\* Every row takes one of the steps above: no statement brings a row back, undoes
\* a confirmation or a deletion, or turns back a version.
LEMMA RowsStep ==
  ASSUME TypeOK, RequestsWellFormed, IdsAreFresh, [Next]_vars
  PROVE  \A i \in Id : RowStep(i)
<1> SUFFICES ASSUME NEW i \in Id PROVE RowStep(i)
  OBVIOUS
<1>1. rows[i] # None => rows[i] \in Row /\ rows[i].version \in Nat
  BY DEF TypeOK, Row
<1>2. CASE rows'[i] = rows[i] /\ reclaimed' = reclaimed
  BY <1>2, UntouchedRowSteps
<1>3. ASSUME NEW r \in Req, SaveInsert(r) PROVE RowStep(i)
  <2>1. CASE rows' = rows
    BY <1>2, <1>3, <2>1 DEF SaveInsert
  <2>2. CASE rows' # rows
    <3>1. /\ pc[r] = "insert" /\ call[r].id = r
          /\ rows' = [rows EXCEPT ![r] = NewRow(call[r])]
          /\ HoldersOf(call[r].key) = {}
          /\ reclaimed' = reclaimed
          /\ call[r].race \in races
      BY <1>3, <2>2, StatementTells DEF SaveInsert
    <3>5. pc'[r] = "done"
      BY <1>3, <2>2, StatementTells DEF SaveInsert, Acknowledge, Refuse, Answer, TypeOK
    <3>2. rows[r] = None
      BY <3>1 DEF IdsAreFresh
    <3>3. CASE i = r
      BY <3>1, <3>2, <3>3, <3>5 DEF RowStep, Inserts, RefersTo, NewRow, TypeOK, Id
    <3>4. CASE i # r
      BY <1>2, <3>1, <3>4 DEF TypeOK
    <3> QED
      BY <3>3, <3>4
  <2> QED
    BY <2>1, <2>2
<1>4. ASSUME NEW r \in Req, ConfirmPending(r) PROVE RowStep(i)
  <2> DEFINE j == call[r].id
             row == [rows[j] EXCEPT !.confirmed = TRUE]
  <2>1. CASE rows' = [rows EXCEPT ![j].confirmed = TRUE] /\ Pending(j)
    <3>1. j \in Id /\ rows[j] \in Row
      BY <1>4, <2>1, StatementTells DEF ConfirmPending, Pending, Present, TypeOK
    <3>2. row \in Row /\ rows' = [rows EXCEPT ![j] = row]
      BY <2>1, <3>1 DEF Row, TypeOK
    <3>3. SurvivesAs(rows[j], row) /\ KeepsOrFinds(races, rows[j].race, row.race)
      BY <2>1, <3>1 DEF Pending, Row, SurvivesAs, KeepsOrFinds
    <3>4. reclaimed' = reclaimed
      BY <1>4 DEF ConfirmPending
    <3> HIDE DEF row, j
    <3> QED
      BY <3>1, <3>2, <3>3, <3>4, RewrittenRowSteps
  <2> QED
    BY <1>2, <1>4, <2>1 DEF ConfirmPending
<1>5. ASSUME NEW r \in Req, UpdateCharacter(r) PROVE RowStep(i)
  <2> DEFINE j == call[r].id
             row == [rows[j] EXCEPT !.race = NewRace(r), !.data = NewData(r), !.version = @ + 1]
  <2>1. CASE /\ rows' = [rows EXCEPT ![j].race = NewRace(r), ![j].data = NewData(r), ![j].version = @ + 1]
             /\ Active(j)
             /\ NewRace(r) \in races
    <3>1. j \in Id /\ rows[j] \in Row /\ call[r] # None /\ base[r] # None
      BY <1>5, <2>1, StatementTells, NoneIsNoData DEF UpdateCharacter, Active, Present, TypeOK
    <3>2. NewRace(r) \in Race /\ NewData(r) \in [Field -> Value \cup {None}]
      BY <2>1, <3>1, MergeIsTyped DEF TypeOK
    <3>3. row \in Row /\ rows' = [rows EXCEPT ![j] = row]
      BY <2>1, <3>1, <3>2 DEF Row, TypeOK
    <3>5. reclaimed' = reclaimed
      BY <1>5 DEF UpdateCharacter
    <3>4. SurvivesAs(rows[j], row) /\ KeepsOrFinds(races, rows[j].race, row.race)
      BY <2>1, <3>1, <3>5 DEF KeepsOrFinds, Active, Row, SurvivesAs
    <3> HIDE DEF row, j
    <3> QED
      BY <3>1, <3>3, <3>4, <3>5, RewrittenRowSteps
  <2> QED
    BY <1>2, <1>5, <2>1 DEF UpdateCharacter
<1>6. ASSUME NEW r \in Req, SoftDelete(r) PROVE RowStep(i)
  <2> DEFINE j == call[r].id
             row == [rows[j] EXCEPT !.deleted = TRUE]
  <2>1. CASE rows' = [rows EXCEPT ![j].deleted = TRUE] /\ Active(j)
    <3>1. j \in Id /\ rows[j] \in Row
      BY <1>6, <2>1, StatementTells DEF SoftDelete, Active, Present, TypeOK
    <3>2. row \in Row /\ rows' = [rows EXCEPT ![j] = row]
      BY <2>1, <3>1 DEF Row, TypeOK
    <3>3. SurvivesAs(rows[j], row) /\ KeepsOrFinds(races, rows[j].race, row.race)
      BY <2>1, <3>1 DEF Active, Row, SurvivesAs, KeepsOrFinds
    <3>4. reclaimed' = reclaimed
      BY <1>6 DEF SoftDelete
    <3> HIDE DEF row, j
    <3> QED
      BY <3>1, <3>2, <3>3, <3>4, RewrittenRowSteps
  <2> QED
    BY <1>2, <1>6, <2>1 DEF SoftDelete
<1>7. ASSUME NEW j \in Id, Elapse(j) PROVE RowStep(i)
  <2> DEFINE row == [rows[j] EXCEPT !.aged = TRUE]
  <2>1. rows[j] \in Row /\ ~rows[j].confirmed /\ rows' = [rows EXCEPT ![j].aged = TRUE]
    BY <1>7 DEF Elapse, Pending, Present, TypeOK
  <2>2. row \in Row /\ rows' = [rows EXCEPT ![j] = row]
    BY <2>1 DEF Row, TypeOK
  <2>3. SurvivesAs(rows[j], row) /\ KeepsOrFinds(races, rows[j].race, row.race)
    BY <2>1 DEF Row, SurvivesAs, KeepsOrFinds
  <2>4. reclaimed' = reclaimed
    BY <1>7 DEF Elapse
  <2> HIDE DEF row
  <2> QED
    BY <2>1, <2>2, <2>3, <2>4, RewrittenRowSteps
<1>8. CASE SweepUnconfirmed
  <2>1. CASE i \in Expired
    BY <1>8, <2>1 DEF SweepUnconfirmed, Expired, Present, RowStep, Reclaims
  <2>2. CASE i \notin Expired
    BY <1>1, <1>8, <2>2 DEF SweepUnconfirmed, RowStep, Survives, SurvivesAs, RefersTo, KeepsOrFinds
  <2> QED
    BY <2>1, <2>2
<1>9. ASSUME NEW r \in Req,
             Arrive(r) \/ SaveFetchExisting(r) \/ ConfirmRecheck(r) \/ FindByID(r) \/ Fail(r)
      PROVE  RowStep(i)
  BY <1>2, <1>9 DEF Arrive, Dispatch, SaveFetchExisting, ConfirmRecheck, FindByID, Fail
<1>10. ASSUME NEW x \in Race, DeleteRace(x) PROVE RowStep(i)
  BY <1>2, <1>10 DEF DeleteRace
<1>11. CASE UNCHANGED vars
  BY <1>2, <1>11 DEF vars
<1> QED
  BY <1>3, <1>4, <1>5, <1>6, <1>7, <1>8, <1>9, <1>10, <1>11 DEF Next, Serve

\* An answer is final, and a request keeps asking the same.
LEMMA AnswersStand ==
  ASSUME TypeOK, RequestsWellFormed, [Next]_vars, NEW q \in Req
  PROVE  /\ reply[q] # None => Still(q)
         /\ call[q] # None => call'[q] = call[q]
         /\ call[q] # None => Still(q) \/ Serve(q)
         /\ Serve(q) => call'[q] = call[q] /\ call[q] # None
<1>1. Serve(q) => call' = call /\ pc[q] \notin {"idle", "done"}
  BY DEF Serve, SaveInsert, SaveFetchExisting, ConfirmPending, ConfirmRecheck, FindByID,
         UpdateCharacter, SoftDelete, Fail, GoTo, Answer, Refuse, Acknowledge
<1>2. Arrive(q) => pc[q] = "idle"
  BY DEF Arrive, Dispatch
<1>3. Still(q) \/ Arrive(q) \/ Serve(q)
  BY OneRequestMoves
<1> QED
  BY <1>1, <1>2, <1>3 DEF RequestsWellFormed, Still

-----------------------------------------------------------------------------
(* What the answer of one statement is worth at the moment it is given.    *)

\* The statement that answers a creation leaves the row there, with the token.
LEMMA GivenNow ==
  ASSUME TypeOK, RequestsWellFormed, NEW q \in Req, Serve(q), GivenCharacter(q)'
  PROVE  rows'[reply'[q].id] # None /\ rows'[reply'[q].id].key = call[q].key
<1>1. (call[q].id \in Id /\ NewRow(call[q]) \in Row) \/ pc[q] # "insert"
  BY StatementTells, NewRowIsTyped
<1>2. CASE SaveInsert(q)
  <2>1. /\ rows' = [rows EXCEPT ![call[q].id] = NewRow(call[q])]
        /\ reply'[q].id = call[q].id
        /\ pc[q] = "insert"
    BY <1>2 DEF SaveInsert, GivenCharacter, Answered, GoTo, Acknowledge, Refuse, Answer, TypeOK,
                RequestsWellFormed
  <2> QED
    BY <1>1, <2>1, NoneIsNoData DEF NewRow, TypeOK
<1>3. CASE SaveFetchExisting(q)
  <2>1. PICK i \in HoldersOf(call[q].key) : Answer(q, "replayed", i, rows[i].version)
    BY <1>3 DEF SaveFetchExisting, GivenCharacter, Answered, Refuse, Answer, TypeOK
  <2>2. reply'[q].id = i /\ rows' = rows
    BY <1>3, <2>1 DEF SaveFetchExisting, Answer, TypeOK
  <2> QED
    BY <2>2 DEF HoldersOf, Present
<1>4. CASE \/ ConfirmPending(q) \/ ConfirmRecheck(q) \/ FindByID(q) \/ UpdateCharacter(q)
           \/ SoftDelete(q) \/ Fail(q)
  BY <1>4 DEF ConfirmPending, ConfirmRecheck, FindByID, UpdateCharacter, SoftDelete, Fail,
              GivenCharacter, Answered, GoTo, Acknowledge, Refuse, Answer, TypeOK, RequestsWellFormed
<1> QED
  BY <1>2, <1>3, <1>4 DEF Serve

\* The statement that answers "confirmed" leaves the row confirmed.
LEMMA ConfirmedNow ==
  ASSUME TypeOK, RequestsWellFormed, NEW q \in Req, Serve(q), Answered(q, "confirmed")'
  PROVE  rows'[reply'[q].id] # None /\ rows'[reply'[q].id].confirmed
<1>1. CASE ConfirmPending(q)
  <2>1. /\ Pending(call[q].id)
        /\ rows' = [rows EXCEPT ![call[q].id].confirmed = TRUE]
        /\ reply'[q].id = call[q].id
        /\ call[q].id \in Id
    BY <1>1, StatementTells
       DEF ConfirmPending, Answered, GoTo, Acknowledge, Refuse, Answer, TypeOK, RequestsWellFormed
  <2>2. rows[call[q].id] \in Row
    BY <2>1 DEF Pending, Present, TypeOK
  <2>3. [rows[call[q].id] EXCEPT !.confirmed = TRUE] \in Row
    BY <2>2 DEF Row
  <2> QED
    BY <2>1, <2>2, <2>3, NoneIsNoData DEF TypeOK, Row
<1>2. CASE ConfirmRecheck(q)
  BY <1>2 DEF ConfirmRecheck, Active, Present, Answered, Refuse, Answer, TypeOK
<1>3. CASE \/ SaveInsert(q) \/ SaveFetchExisting(q) \/ FindByID(q) \/ UpdateCharacter(q)
           \/ SoftDelete(q) \/ Fail(q)
  BY <1>3 DEF SaveInsert, SaveFetchExisting, FindByID, UpdateCharacter, SoftDelete, Fail,
              Answered, GoTo, Acknowledge, Refuse, Answer, TypeOK, RequestsWellFormed
<1> QED
  BY <1>1, <1>2, <1>3 DEF Serve

\* Only the second statement of confirm_character refuses a confirmation.
LEMMA RefusedNow ==
  ASSUME TypeOK, RequestsWellFormed, NEW q \in Req, Serve(q), Answered(q, "notFound")',
         call[q].op = "confirm"
  PROVE  pc[q] = "recheck" /\ ~Active(call[q].id) /\ rows' = rows
<1>1. pc[q] \in {"confirm", "recheck"}
  <2>1. pc[q] \notin {"idle", "done"}
    BY DEF Serve, SaveInsert, SaveFetchExisting, ConfirmPending, ConfirmRecheck, FindByID,
           UpdateCharacter, SoftDelete, Fail
  <2> QED
    BY <2>1, StatementTells
<1>2. ~Fail(q)
  BY DEF Fail, Answered, Refuse, Answer, TypeOK
<1>3. ~ConfirmPending(q)
  BY DEF ConfirmPending, Answered, GoTo, Acknowledge, Refuse, Answer, TypeOK, RequestsWellFormed
<1>4. ConfirmRecheck(q)
  BY <1>1, <1>2, <1>3 DEF Serve, SaveInsert, SaveFetchExisting, FindByID, UpdateCharacter, SoftDelete
<1> QED
  BY <1>4 DEF ConfirmRecheck, Answered, Refuse, Answer, TypeOK

\* An update is answered with the version it has just written.
LEMMA UpdatedNow ==
  ASSUME TypeOK, RequestsWellFormed, NEW q \in Req, Serve(q), Answered(q, "updated")'
  PROVE  LET i == reply'[q].id IN
         /\ i \in Id
         /\ Active(i)
         /\ rows'[i].version = rows[i].version + 1
         /\ reply'[q].version = rows[i].version + 1
<1>1. CASE UpdateCharacter(q)
  <2>1. /\ call[q].id \in Id
        /\ reply'[q].id = call[q].id
        /\ Active(call[q].id)
        /\ rows' = [rows EXCEPT ![call[q].id].race = NewRace(q), ![call[q].id].data = NewData(q),
                                ![call[q].id].version = @ + 1]
        /\ reply'[q].version = rows[call[q].id].version + 1
    BY <1>1, StatementTells DEF UpdateCharacter, Answered, Acknowledge, Refuse, Answer, TypeOK
  <2>2. rows[call[q].id] \in Row
    BY <2>1 DEF Active, Present, TypeOK
  <2> QED
    BY <2>1, <2>2 DEF TypeOK, Row
<1>2. CASE \/ SaveInsert(q) \/ SaveFetchExisting(q) \/ ConfirmPending(q) \/ ConfirmRecheck(q)
           \/ FindByID(q) \/ SoftDelete(q) \/ Fail(q)
  BY <1>2 DEF SaveInsert, SaveFetchExisting, ConfirmPending, ConfirmRecheck, FindByID, SoftDelete,
              Fail, Answered, GoTo, Acknowledge, Refuse, Answer, TypeOK, RequestsWellFormed
<1> QED
  BY <1>1, <1>2 DEF Serve

-----------------------------------------------------------------------------
(* The inductive invariant, one part at a time.                            *)

LEMMA FreshnessStep ==
  ASSUME TypeOK, RequestsWellFormed, IdsAreFresh, [Next]_vars
  PROVE  IdsAreFresh'
<1> SUFFICES ASSUME NEW r \in Req,
                    call'[r] = None \/ call'[r].op # "create" \/ pc'[r] = "insert"
             PROVE  rows'[r] = None /\ r \notin reclaimed'
  BY DEF IdsAreFresh
<1>1. r \in Id /\ RowStep(r)
  BY RowsStep DEF Id
<1>2. TypeOK' /\ RequestsWellFormed'
  BY StepIsTyped
<1>3. pc'[r] = "insert" => call'[r].op = "create" /\ call'[r] # None
  <2> HAVE pc'[r] = "insert"
  <2>1. call'[r] \in Call /\ "insert" \in Statements(call'[r].op)
    BY <1>2 DEF TypeOK, RequestsWellFormed
  <2>2. call'[r].op \in Operation
    BY <2>1 DEF Call
  <2> QED
    BY <2>1, <2>2, NoneIsNoData DEF Statements, Operation
<1>4. call[r] = None \/ call[r].op # "create" \/ pc[r] = "insert"
  <2>1. CASE call[r] = None
    BY <2>1
  <2>2. CASE call[r] # None /\ Still(r)
    BY <2>2 DEF Still
  <2>3. CASE call[r] # None /\ Serve(r)
    <3>1. pc'[r] # "insert"
      BY <2>3 DEF Serve, SaveInsert, SaveFetchExisting, ConfirmPending, ConfirmRecheck, FindByID,
                  UpdateCharacter, SoftDelete, Fail, GoTo, Answer, Refuse, Acknowledge, TypeOK
    <3> QED
      BY <2>3, <3>1, AnswersStand
  <2> QED
    BY <2>1, <2>2, <2>3, AnswersStand
<1>5. rows[r] = None /\ r \notin reclaimed
  BY <1>4 DEF IdsAreFresh
<1>6. rows'[r] = None
  <2> SUFFICES ASSUME rows'[r] # None PROVE FALSE
    OBVIOUS
  <2>1. pc[r] = "insert" /\ pc'[r] = "done"
    BY <1>1, <1>5 DEF RowStep, Inserts
  <2>2. call[r] # None /\ call[r].op = "create" /\ call'[r] = call[r]
    BY <2>1, StatementTells, AnswersStand DEF RequestsWellFormed
  <2> QED
    BY <2>1, <2>2
<1> QED
  BY <1>1, <1>5, <1>6 DEF RowStep

LEMMA RowsWellFormedStep ==
  ASSUME TypeOK, RequestsWellFormed, IdsAreFresh, RowsWellFormed, [Next]_vars
  PROVE  RowsWellFormed'
<1>1. TypeOK' /\ \A i \in Id : RowStep(i)
  BY StepIsTyped, RowsStep
<1>2. ASSUME NEW i \in Id, i \in reclaimed' PROVE rows'[i] = None
  <2>1. CASE i \in reclaimed
    <3>1. rows[i] = None
      BY <2>1 DEF RowsWellFormed
    <3>2. ~Inserts(i)
      BY <2>1 DEF Inserts, IdsAreFresh
    <3> QED
      BY <1>1, <3>1, <3>2 DEF RowStep
  <2>2. CASE i \notin reclaimed
    BY <1>1, <1>2, <2>2 DEF RowStep, Reclaims
  <2> QED
    BY <2>1, <2>2
<1>3. ASSUME NEW i \in Existing PROVE rows'[i] # None /\ rows'[i].confirmed
  <2>1. i \in Id /\ rows[i] # None /\ rows[i].confirmed
    BY DEF RowsWellFormed, Present, Id
  <2> QED
    BY <1>1, <2>1 DEF RowStep, Survives, SurvivesAs, Reclaims
<1>4. ASSUME NEW i \in Id, rows'[i] # None
      PROVE  /\ rows'[i].deleted => rows'[i].confirmed
             /\ ~rows'[i].confirmed => rows'[i].version = 1
  <2>1. CASE rows[i] # None
    <3>1. SurvivesAs(rows[i], rows'[i])
      BY <1>1, <1>4, <2>1 DEF RowStep, Survives, Reclaims
    <3>2. /\ rows[i].deleted => rows[i].confirmed
          /\ ~rows[i].confirmed => rows[i].version = 1
      BY <2>1 DEF RowsWellFormed, Present
    <3>3. rows[i] \in Row /\ rows'[i] \in Row
      BY <1>1, <1>4, <2>1 DEF TypeOK
    <3> QED
      BY <3>1, <3>2, <3>3 DEF SurvivesAs, Row
  <2>2. CASE rows[i] = None
    <3>1. rows'[i] = NewRow(call[i])
      BY <1>1, <1>4, <2>2 DEF RowStep, Inserts
    <3>2. ~NewRow(call[i]).deleted /\ NewRow(call[i]).version = 1
      BY DEF NewRow
    <3> QED
      BY <3>1, <3>2
  <2> QED
    BY <2>1, <2>2
<1> QED
  BY <1>1, <1>2, <1>3, <1>4 DEF RowsWellFormed, Present, TypeOK

LEMMA TokensStep ==
  ASSUME TypeOK, RequestsWellFormed, IdsAreFresh, TokensAreUnique, [Next]_vars
  PROVE  TokensAreUnique'
<1> SUFFICES ASSUME NEW i \in Id, NEW j \in Id, rows'[i] # None, rows'[j] # None,
                    rows'[i].key = rows'[j].key, rows'[i].key # None, i # j
             PROVE  FALSE
  BY DEF TokensAreUnique, Present
<1>1. RowStep(i) /\ RowStep(j)
  BY RowsStep
<1>2. ASSUME NEW k \in Id, NEW l \in Id, k # l, rows'[k].key = rows'[l].key, rows'[k].key # None,
             Inserts(k), rows'[l] # None
      PROVE  FALSE
  <2>1. rows[l] # None /\ rows[l].key = call[k].key
    BY <1>2 DEF Inserts, NewRow
  <2> QED
    BY <1>2, <2>1 DEF Inserts, HoldersOf, Present, NewRow
<1>3. ~Inserts(i) /\ ~Inserts(j)
  BY <1>2
<1>4. /\ rows[i] # None /\ rows[j] # None
      /\ rows[i].key = rows'[i].key /\ rows[j].key = rows'[j].key
  BY <1>1, <1>3 DEF RowStep, Survives, SurvivesAs, Reclaims
<1> QED
  BY <1>4 DEF TokensAreUnique, Present

LEMMA GivenStep ==
  ASSUME TypeOK, RequestsWellFormed, IdsAreFresh, GivenCharactersHoldTheToken, [Next]_vars
  PROVE  GivenCharactersHoldTheToken'
<1> SUFFICES ASSUME NEW q \in Req, GivenCharacter(q)'
             PROVE  \/ reply'[q].id \in reclaimed'
                    \/ rows'[reply'[q].id] # None /\ rows'[reply'[q].id].key = call'[q].key
  BY DEF GivenCharactersHoldTheToken, Present
<1>1. CASE Still(q)
  <2>1. /\ GivenCharacter(q) /\ reply'[q] = reply[q] /\ call'[q] = call[q]
    BY <1>1 DEF Still, GivenCharacter, Answered
  <2>2. reply[q].id \in Id
    BY <2>1 DEF GivenCharacter, Answered, TypeOK, Reply
  <2>3. RowStep(reply[q].id)
    BY <2>2, RowsStep
  <2> QED
    BY <2>1, <2>2, <2>3
       DEF GivenCharactersHoldTheToken, Present, RowStep, Survives, SurvivesAs, Reclaims
<1>2. CASE Serve(q)
  BY <1>2, GivenNow, AnswersStand
<1>3. CASE Arrive(q)
  BY <1>3 DEF Arrive, Dispatch, GivenCharacter, Answered, RequestsWellFormed
<1> QED
  BY <1>1, <1>2, <1>3, OneRequestMoves

\* What the id of a request is while its row is followed from step to step.
LEMMA NamedIdsStep ==
  ASSUME TypeOK, RequestsWellFormed, IdsAreFresh, RowsWellFormed, GivenCharactersHoldTheToken,
         NamedIdsExist, [Next]_vars
  PROVE  NamedIdsExist'
<1> SUFFICES ASSUME NEW q \in Req, call'[q] # None, call'[q].op # "create"
             PROVE  call'[q].id \in reclaimed' \/ rows'[call'[q].id] # None
  BY DEF NamedIdsExist, Present
<1>1. ASSUME NEW i \in Id, i \in reclaimed \/ rows[i] # None
      PROVE  i \in reclaimed' \/ rows'[i] # None
  BY <1>1, RowsStep DEF RowStep, Survives, Reclaims
<1>2. CASE call[q] # None
  <2>1. call'[q] = call[q] /\ call[q].id \in Id
    BY <1>2, AnswersStand DEF TypeOK, Call
  <2> QED
    BY <1>1, <1>2, <2>1 DEF NamedIdsExist, Present
<1>3. CASE call[q] = None
  <2>1. Arrive(q)
    <3>1. Still(q) \/ Arrive(q) \/ Serve(q)
      BY OneRequestMoves
    <3>2. ~Serve(q)
      BY <1>3, AnswersStand
    <3>3. ~Still(q)
      BY <1>3 DEF Still
    <3> QED
      BY <3>1, <3>2, <3>3
  <2>2. PICK c \in CallsOf(q) : call'[q] = c
    BY <2>1 DEF Arrive, Dispatch, TypeOK
  <2>3. c.id \in Known
    BY <2>2, CallsAreTyped
  <2>4. CASE c.id \in Existing
    <3>1. c.id \in Id /\ rows[c.id] # None
      BY <2>4 DEF RowsWellFormed, Present, Id
    <3> QED
      BY <1>1, <2>2, <3>1
  <2>5. CASE c.id \notin Existing
    <3>1. PICK r \in Req : GivenCharacter(r) /\ c.id = reply[r].id
      BY <2>3, <2>5 DEF Known, GivenCharacter, Answered
    <3>2. c.id \in Id
      BY <3>1 DEF GivenCharacter, Answered, TypeOK, Reply
    <3> QED
      BY <1>1, <2>2, <3>1, <3>2 DEF GivenCharactersHoldTheToken, Present
  <2> QED
    BY <2>4, <2>5
<1> QED
  BY <1>2, <1>3

\* Once an id has been named its row is there or gone for good.
LEMMA NamedRows ==
  ASSUME TypeOK, RequestsWellFormed, IdsAreFresh, RowsWellFormed, NamedIdsExist, [Next]_vars,
         NEW q \in Req, call[q] # None, call[q].op # "create"
  PROVE  LET i == call[q].id IN
         /\ i \in Id
         /\ rows'[i] # None => rows[i] # None /\ SurvivesAs(rows[i], rows'[i])
<1> DEFINE i == call[q].id
<1>1. i \in Id
  BY DEF TypeOK, Call
<1>2. RowStep(i)
  BY <1>1, RowsStep
<1>3. CASE i \in reclaimed
  BY <1>1, <1>3, RowsWellFormedStep, <1>2 DEF RowsWellFormed, RowStep
<1>4. CASE rows[i] # None
  BY <1>1, <1>2, <1>4 DEF RowStep, Survives, Reclaims
<1> QED
  BY <1>1, <1>3, <1>4 DEF NamedIdsExist, Present

LEMMA RecheckStep ==
  ASSUME TypeOK, RequestsWellFormed, IdsAreFresh, RowsWellFormed, NamedIdsExist,
         RecheckFindsNoReservation, [Next]_vars
  PROVE  RecheckFindsNoReservation'
<1> SUFFICES ASSUME NEW q \in Req, pc'[q] = "recheck", rows'[call'[q].id] # None
             PROVE  rows'[call'[q].id].confirmed \/ rows'[call'[q].id].deleted
  BY DEF RecheckFindsNoReservation, Pending, Present
<1>1. CASE Still(q)
  <2>1. pc[q] = "recheck" /\ call'[q] = call[q] /\ call[q] # None /\ call[q].op = "confirm"
    BY <1>1, StatementTells DEF Still, RequestsWellFormed
  <2>2. ~Pending(call[q].id)
    BY <2>1 DEF RecheckFindsNoReservation
  <2>3. rows'[call[q].id] # None =>
          rows[call[q].id] # None /\ SurvivesAs(rows[call[q].id], rows'[call[q].id])
    BY <2>1, NamedRows
  <2> QED
    BY <2>1, <2>2, <2>3 DEF Pending, Present, SurvivesAs
<1>2. CASE Serve(q)
  <2>1. rows' = rows /\ call' = call /\ ~Pending(call[q].id)
    BY <1>2 DEF Serve, SaveInsert, SaveFetchExisting, ConfirmPending, ConfirmRecheck, FindByID,
                UpdateCharacter, SoftDelete, Fail, GoTo, Answer, Refuse, Acknowledge, TypeOK
  <2> QED
    BY <2>1 DEF Pending, Present
<1>3. CASE Arrive(q)
  <2>1. PICK c \in CallsOf(q) : pc'[q] = FirstStatement(c.op)
    BY <1>3 DEF Arrive, Dispatch, TypeOK
  <2>2. c.op \in Operation
    BY CallsAreTyped DEF Call
  <2> QED
    BY <2>1, <2>2 DEF FirstStatement, Operation
<1> QED
  BY <1>1, <1>2, <1>3, OneRequestMoves

LEMMA IfMatchStep ==
  ASSUME TypeOK, RequestsWellFormed, IdsAreFresh, RowsWellFormed, NamedIdsExist,
         IfMatchWasSeen, [Next]_vars
  PROVE  IfMatchWasSeen'
<1> SUFFICES ASSUME NEW q \in Req, pc'[q] \in {"find", "write"}, call'[q].ifMatch # None,
                    rows'[call'[q].id] # None
             PROVE  call'[q].ifMatch <= rows'[call'[q].id].version
  BY DEF IfMatchWasSeen, Present
<1>1. TypeOK'
  BY StepIsTyped
<1>2. CASE Still(q)
  <2>1. /\ pc[q] \in {"find", "write"} /\ call'[q] = call[q] /\ call[q] \in Call
        /\ call[q] # None /\ call[q].op # "create"
    BY <1>2, StatementTells DEF Still, RequestsWellFormed
  <2>2. /\ call[q].id \in Id
        /\ rows[call[q].id] # None /\ SurvivesAs(rows[call[q].id], rows'[call[q].id])
    BY <2>1, NamedRows
  <2>3. call[q].ifMatch <= rows[call[q].id].version
    BY <2>1, <2>2 DEF IfMatchWasSeen, Present
  <2>4. /\ call[q].ifMatch \in Nat
        /\ rows[call[q].id].version \in Nat
        /\ rows'[call[q].id].version \in Nat
    BY <1>1, <2>1, <2>2 DEF TypeOK, Row, Call
  <2> QED
    BY <2>1, <2>2, <2>3, <2>4 DEF SurvivesAs
<1>3. CASE Serve(q)
  <2>1. pc[q] = "find" /\ rows' = rows /\ call' = call
    BY <1>3 DEF Serve, SaveInsert, SaveFetchExisting, ConfirmPending, ConfirmRecheck, FindByID,
                UpdateCharacter, SoftDelete, Fail, GoTo, Answer, Refuse, Acknowledge, TypeOK
  <2> QED
    BY <2>1 DEF IfMatchWasSeen, Present
<1>4. CASE Arrive(q)
  <2>1. PICK c \in CallsOf(q) : call'[q] = c /\ pc'[q] = FirstStatement(c.op)
    BY <1>4 DEF Arrive, Dispatch, TypeOK
  <2>2. /\ c.op \in Operation
        /\ c.op # "create" => c.ifMatch \in IfMatch(c.id)
    BY CallsAreTyped DEF Call
  <2>3. c.op # "create"
    BY <2>1, <2>2 DEF FirstStatement, Operation
  <2>4. rows' = rows
    BY <1>4 DEF Arrive, Dispatch
  <2> QED
    BY <2>1, <2>2, <2>3, <2>4 DEF IfMatch, Present
<1> QED
  BY <1>2, <1>3, <1>4, OneRequestMoves

LEMMA BaseStep ==
  ASSUME TypeOK, RequestsWellFormed, IdsAreFresh, RowsWellFormed, NamedIdsExist,
         IfMatchWasSeen, BaseIsAPastRow, [Next]_vars
  PROVE  BaseIsAPastRow'
<1> SUFFICES ASSUME NEW q \in Req, pc'[q] = "write"
             PROVE  LET row == rows'[call'[q].id] IN
                    /\ row # None
                    /\ row.confirmed
                    /\ base'[q].version <= row.version
                    /\ call'[q].ifMatch # None => call'[q].ifMatch <= base'[q].version
                    /\ base'[q].version = row.version /\ ~row.deleted => base'[q] = row
  BY DEF BaseIsAPastRow
<1>1. TypeOK'
  BY StepIsTyped
<1>2. CASE Still(q)
  <2> DEFINE i == call[q].id
  <2>1. /\ pc[q] = "write" /\ call'[q] = call[q] /\ base'[q] = base[q] /\ base[q] \in Row
        /\ i \in Id
    BY <1>2, StatementTells DEF Still
  <2>2. /\ rows[i] # None /\ rows[i].confirmed
        /\ base[q].version <= rows[i].version
        /\ call[q].ifMatch # None => call[q].ifMatch <= base[q].version
        /\ base[q].version = rows[i].version /\ ~rows[i].deleted => base[q] = rows[i]
    BY <2>1 DEF BaseIsAPastRow
  <2>3. rows'[i] # None /\ SurvivesAs(rows[i], rows'[i])
    BY <2>1, <2>2, RowsStep DEF RowStep, Survives, Reclaims
  <2>4. base[q].version \in Nat /\ rows[i].version \in Nat /\ rows'[i].version \in Nat
    BY <1>1, <2>1, <2>2, <2>3 DEF TypeOK, Row
  <2>5. base[q].version <= rows'[i].version
    BY <2>2, <2>3, <2>4 DEF SurvivesAs
  <2>6. ASSUME base[q].version = rows'[i].version, ~rows'[i].deleted PROVE base[q] = rows'[i]
    <3>1. rows[i].version = rows'[i].version
      BY <2>2, <2>3, <2>4, <2>6 DEF SurvivesAs
    <3>2. rows'[i] = rows[i]
      BY <2>2, <2>3, <2>6, <3>1 DEF SurvivesAs
    <3> QED
      BY <2>2, <2>6, <3>2
  <2> QED
    BY <2>1, <2>2, <2>3, <2>5, <2>6 DEF SurvivesAs
<1>3. CASE Serve(q)
  <2>1. /\ pc[q] = "find" /\ rows' = rows /\ call' = call
        /\ base'[q] = rows[call[q].id] /\ Active(call[q].id)
    BY <1>3 DEF Serve, SaveInsert, SaveFetchExisting, ConfirmPending, ConfirmRecheck, FindByID,
                UpdateCharacter, SoftDelete, Fail, GoTo, Answer, Refuse, Acknowledge, TypeOK
  <2>2. call[q].id \in Id
    BY <2>1, StatementTells
  <2>3. rows[call[q].id] # None /\ rows[call[q].id].version \in Nat
    BY <2>1, <2>2 DEF Active, Present, TypeOK, Row
  <2> QED
    BY <2>1, <2>3 DEF IfMatchWasSeen, Active, Present
<1>4. CASE Arrive(q)
  <2>1. PICK c \in CallsOf(q) : pc'[q] = FirstStatement(c.op)
    BY <1>4 DEF Arrive, Dispatch, TypeOK
  <2>2. c.op \in Operation
    BY CallsAreTyped DEF Call
  <2> QED
    BY <2>1, <2>2 DEF FirstStatement, Operation
<1> QED
  BY <1>2, <1>3, <1>4, OneRequestMoves

LEMMA RacesStep ==
  ASSUME TypeOK, RequestsWellFormed, IdsAreFresh, RaceReferencesHold, [Next]_vars
  PROVE  RaceReferencesHold'
<1> SUFFICES ASSUME NEW i \in Id, rows'[i] # None
             PROVE  rows'[i].race \in races'
  BY DEF RaceReferencesHold, Present
<1>1. ASSUME NEW x \in Race, DeleteRace(x) PROVE rows'[i].race \in races'
  BY <1>1 DEF DeleteRace, Present, RaceReferencesHold
<1>2. CASE races' = races
  <2>1. RefersTo(i)
    BY RowsStep DEF RowStep
  <2>2. rows[i] # None => rows[i].race \in races
    BY DEF RaceReferencesHold, Present
  <2> QED
    BY <1>2, <2>1, <2>2 DEF RefersTo, KeepsOrFinds
<1>3. races' = races \/ \E x \in Race : DeleteRace(x)
  BY DEF Next, vars, Arrive, Dispatch, Serve, SaveInsert, SaveFetchExisting, ConfirmPending, ConfirmRecheck,
         FindByID, UpdateCharacter, SoftDelete, Fail, Elapse, SweepUnconfirmed
<1> QED
  BY <1>1, <1>2, <1>3

\* A confirmed row outlives every step.
LEMMA ConfirmedRowsStay ==
  ASSUME TypeOK, RequestsWellFormed, IdsAreFresh, [Next]_vars,
         NEW i \in Id, rows[i] # None, rows[i].confirmed
  PROVE  rows'[i] # None /\ rows'[i].confirmed /\ SurvivesAs(rows[i], rows'[i])
  BY RowsStep DEF RowStep, Survives, SurvivesAs, Reclaims

LEMMA ConfirmedStep ==
  ASSUME TypeOK, RequestsWellFormed, IdsAreFresh, ConfirmedIsDurable, [Next]_vars
  PROVE  ConfirmedIsDurable'
<1> SUFFICES ASSUME NEW q \in Req, Answered(q, "confirmed")'
             PROVE  rows'[reply'[q].id] # None /\ rows'[reply'[q].id].confirmed
  BY DEF ConfirmedIsDurable, Present
<1>1. CASE Still(q)
  <2>1. Answered(q, "confirmed") /\ reply'[q] = reply[q] /\ reply[q].id \in Id
    BY <1>1 DEF Still, Answered, TypeOK, Reply
  <2> QED
    BY <2>1, ConfirmedRowsStay DEF ConfirmedIsDurable, Present
<1>2. CASE Serve(q)
  BY <1>2, ConfirmedNow
<1>3. CASE Arrive(q)
  BY <1>3 DEF Arrive, Dispatch, Answered, RequestsWellFormed
<1> QED
  BY <1>1, <1>2, <1>3, OneRequestMoves

LEMMA RefusalStep ==
  ASSUME TypeOK, RequestsWellFormed, IdsAreFresh, RowsWellFormed, NamedIdsExist,
         RecheckFindsNoReservation, ConfirmRefusalIsFinal, [Next]_vars
  PROVE  ConfirmRefusalIsFinal'
<1> SUFFICES ASSUME NEW q \in Req, Answered(q, "notFound")', call'[q].op = "confirm"
             PROVE  \/ call'[q].id \in reclaimed'
                    \/ rows'[call'[q].id] # None /\ rows'[call'[q].id].deleted
  BY DEF ConfirmRefusalIsFinal, Present
<1>1. CASE Still(q)
  <2>1. /\ Answered(q, "notFound") /\ call'[q] = call[q] /\ call[q].op = "confirm"
        /\ call[q] \in Call
    BY <1>1 DEF Still, Answered, TypeOK, RequestsWellFormed
  <2>2. call[q].id \in Id
    BY <2>1 DEF Call
  <2>3. RowStep(call[q].id)
    BY <2>2, RowsStep
  <2>4. CASE call[q].id \in reclaimed
    BY <2>1, <2>3, <2>4 DEF RowStep
  <2>5. CASE Present(call[q].id) /\ rows[call[q].id].deleted
    <3>1. rows[call[q].id].confirmed
      BY <2>2, <2>5 DEF RowsWellFormed
    <3> QED
      BY <2>1, <2>2, <2>5, <3>1, ConfirmedRowsStay DEF Present, SurvivesAs
  <2> QED
    BY <2>1, <2>4, <2>5 DEF ConfirmRefusalIsFinal
<1>2. CASE Serve(q)
  <2>1. call'[q] = call[q] /\ call[q] # None
    BY <1>2, AnswersStand
  <2>2. pc[q] = "recheck" /\ ~Active(call[q].id) /\ rows' = rows
    BY <1>2, <2>1, RefusedNow
  <2>3. call[q].id \in reclaimed \/ Present(call[q].id)
    BY <2>1 DEF NamedIdsExist
  <2>4. call[q].id \in reclaimed => call[q].id \in reclaimed'
    BY <2>1, RowsStep DEF RowStep, TypeOK, Call
  <2> QED
    BY <2>1, <2>2, <2>3, <2>4 DEF RecheckFindsNoReservation, Pending, Active, Present
<1>3. CASE Arrive(q)
  BY <1>3 DEF Arrive, Dispatch, Answered, RequestsWellFormed
<1> QED
  BY <1>1, <1>2, <1>3, OneRequestMoves

\* The updates answered so far, before and after a step.
LEMMA UpdateAnswers ==
  ASSUME TypeOK, RequestsWellFormed, [Next]_vars, NEW q \in Req, Answered(q, "updated")'
  PROVE  \/ Still(q) /\ Answered(q, "updated") /\ reply'[q] = reply[q]
         \/ ~Still(q) /\ Serve(q)
<1>1. Still(q) => Answered(q, "updated") /\ reply'[q] = reply[q]
  BY DEF Still, Answered
<1>2. ~Arrive(q)
  BY DEF Arrive, Dispatch, Answered, RequestsWellFormed
<1> QED
  BY <1>1, <1>2, OneRequestMoves

LEMMA UpdatesStep ==
  ASSUME TypeOK, RequestsWellFormed, IdsAreFresh, UpdatesAreConfirmed, EachVersionHasOneWriter,
         [Next]_vars
  PROVE  UpdatesAreConfirmed' /\ EachVersionHasOneWriter'
<1>1. TypeOK'
  BY StepIsTyped
<1>2. ASSUME NEW q \in Req, Answered(q, "updated")'
      PROVE  LET i == reply'[q].id IN
             /\ i \in Id
             /\ rows'[i] # None /\ rows'[i].confirmed
             /\ rows[i] # None /\ rows[i].version \in Nat /\ rows'[i].version \in Nat
             /\ rows[i].version <= rows'[i].version
             /\ reply'[q].version \in 2 .. rows'[i].version
             /\ Still(q) => reply'[q].version <= rows[i].version
             /\ ~Still(q) => reply'[q].version = rows[i].version + 1
  <2> DEFINE i == reply'[q].id
  <2>1. i \in Id /\ Present(i) /\ rows[i].confirmed
    <3>1. CASE Still(q) /\ Answered(q, "updated") /\ reply'[q] = reply[q]
      BY <3>1 DEF UpdatesAreConfirmed, Answered, TypeOK, Reply
    <3>2. CASE Serve(q)
      BY <1>2, <3>2, UpdatedNow DEF Active
    <3> QED
      BY <1>2, <3>1, <3>2, UpdateAnswers
  <2>2. rows'[i] # None /\ rows'[i].confirmed /\ rows[i].version <= rows'[i].version
    BY <2>1, ConfirmedRowsStay DEF Present, SurvivesAs
  <2>3. rows[i].version \in Nat \ {0} /\ rows'[i].version \in Nat
    BY <1>1, <2>1, <2>2 DEF Present, TypeOK, Row
  <2>4. CASE Still(q) /\ Answered(q, "updated") /\ reply'[q] = reply[q]
    <3>1. reply'[q].version \in 2 .. rows[i].version
      BY <2>4 DEF EachVersionHasOneWriter
    <3> QED
      BY <2>1, <2>2, <2>3, <2>4, <3>1 DEF Present
  <2>5. CASE ~Still(q) /\ Serve(q)
    <3>1. rows'[i].version = rows[i].version + 1 /\ reply'[q].version = rows[i].version + 1
      BY <1>2, <2>5, UpdatedNow
    <3> QED
      BY <2>1, <2>2, <2>3, <2>5, <3>1 DEF Present
  <2> QED
    BY <1>2, <2>4, <2>5, UpdateAnswers
<1>3. UpdatesAreConfirmed'
  BY <1>2 DEF UpdatesAreConfirmed, Present
<1>4. ASSUME NEW p \in Req, NEW q \in Req, p # q, Answered(p, "updated")', Answered(q, "updated")',
             reply'[p].id = reply'[q].id
      PROVE  reply'[p].version # reply'[q].version
  <2>1. CASE Still(p) /\ Still(q)
    <3>1. Answered(p, "updated") /\ Answered(q, "updated") /\ reply'[p] = reply[p] /\ reply'[q] = reply[q]
      BY <1>4, <2>1 DEF Still, Answered
    <3> QED
      BY <1>4, <3>1 DEF EachVersionHasOneWriter
  <2>2. CASE ~(Still(p) <=> Still(q))
    <3>1. CASE Still(p) /\ ~Still(q)
      BY <1>2, <1>4, <3>1
    <3>2. CASE ~Still(p) /\ Still(q)
      BY <1>2, <1>4, <3>2
    <3> QED
      BY <2>2, <3>1, <3>2
  <2> QED
    BY <1>4, <2>1, <2>2, OneRequestMoves
<1>5. EachVersionHasOneWriter'
  BY <1>2, <1>4 DEF EachVersionHasOneWriter, Present
<1> QED
  BY <1>3, <1>5

-----------------------------------------------------------------------------
(* The invariant, and what follows from it in every state.                 *)

LEMMA InitInv == Init => Inv
<1> SUFFICES ASSUME Init PROVE Inv
  OBVIOUS
<1>1. TypeOK /\ RequestsWellFormed
  BY InitIsTyped
<1>2. \A r \in Req : pc[r] = "idle" /\ call[r] = None /\ base[r] = None /\ reply[r] = None
  BY DEF Init
<1>3. PICK content \in [Existing -> [race : Race, data : [Field -> Value \cup {None}]]] :
        rows = [i \in Id |->
                 IF i \in Existing
                 THEN [key |-> None, race |-> content[i].race, data |-> content[i].data,
                       version |-> 1, confirmed |-> TRUE, deleted |-> FALSE, aged |-> FALSE]
                 ELSE None]
  BY DEF Init
<1>4. /\ \A i \in Id : rows[i] # None <=> i \in Existing
      /\ \A i \in Existing : /\ rows[i].key = None /\ rows[i].race \in Race
                             /\ rows[i].confirmed /\ ~rows[i].deleted
  <2>1. ASSUME NEW i \in Existing
        PROVE  /\ rows[i] # None /\ rows[i].key = None /\ rows[i].race \in Race
               /\ rows[i].confirmed /\ ~rows[i].deleted
    <3>1. i \in Id /\ content[i].race \in Race /\ content[i].data \in [Field -> Value \cup {None}]
      BY DEF Id
    <3>2. rows[i] = [key |-> None, race |-> content[i].race, data |-> content[i].data, version |-> 1,
                     confirmed |-> TRUE, deleted |-> FALSE, aged |-> FALSE]
      BY <1>3, <3>1
    <3>3. rows[i] \in Row
      BY <3>1, <3>2 DEF Row
    <3>4. rows[i] # None
      BY <3>3, NoneIsNoData
    <3>5. rows[i].key = None /\ rows[i].race = content[i].race
      BY <3>2
    <3>6. rows[i].confirmed
      BY <3>2
    <3>7. ~rows[i].deleted
      BY <3>2
    <3> QED
      BY <3>1, <3>4, <3>5, <3>6, <3>7
  <2>2. ASSUME NEW i \in Id, i \notin Existing PROVE rows[i] = None
    BY <1>3, <2>2
  <2> QED
    BY <2>1, <2>2
<1>5. IdsAreFresh
  BY <1>4, RequestsAreFresh DEF IdsAreFresh, Init, Id
<1>6. RowsWellFormed /\ TokensAreUnique /\ RaceReferencesHold
  BY <1>4 DEF RowsWellFormed, TokensAreUnique, RaceReferencesHold, Present, Init, Id
<1>7. /\ GivenCharactersHoldTheToken /\ NamedIdsExist /\ RecheckFindsNoReservation
      /\ IfMatchWasSeen /\ BaseIsAPastRow /\ UpdatesAreConfirmed
      /\ ConfirmedIsDurable /\ ConfirmRefusalIsFinal /\ EachVersionHasOneWriter
  BY <1>2 DEF GivenCharactersHoldTheToken, NamedIdsExist, RecheckFindsNoReservation, IfMatchWasSeen,
              BaseIsAPastRow, UpdatesAreConfirmed, ConfirmedIsDurable, ConfirmRefusalIsFinal,
              EachVersionHasOneWriter, GivenCharacter, Answered
<1> QED
  BY <1>1, <1>5, <1>6, <1>7 DEF Inv

LEMMA StepInv == Inv /\ [Next]_vars => Inv'
<1> SUFFICES ASSUME Inv, [Next]_vars PROVE Inv'
  OBVIOUS
<1>1. /\ TypeOK /\ RequestsWellFormed /\ IdsAreFresh /\ RowsWellFormed /\ TokensAreUnique
      /\ GivenCharactersHoldTheToken /\ NamedIdsExist /\ RecheckFindsNoReservation
      /\ IfMatchWasSeen /\ BaseIsAPastRow /\ UpdatesAreConfirmed /\ RaceReferencesHold
      /\ ConfirmedIsDurable /\ ConfirmRefusalIsFinal /\ EachVersionHasOneWriter
  BY DEF Inv
<1>2. TypeOK' /\ RequestsWellFormed'
  BY <1>1, StepIsTyped
<1>3. IdsAreFresh' /\ RowsWellFormed' /\ TokensAreUnique'
  BY <1>1, FreshnessStep, RowsWellFormedStep, TokensStep
<1>4. GivenCharactersHoldTheToken' /\ NamedIdsExist'
  BY <1>1, GivenStep, NamedIdsStep
<1>5. RecheckFindsNoReservation' /\ IfMatchWasSeen' /\ BaseIsAPastRow'
  BY <1>1, RecheckStep, IfMatchStep, BaseStep
<1>6. RaceReferencesHold' /\ ConfirmedIsDurable' /\ ConfirmRefusalIsFinal'
  BY <1>1, RacesStep, ConfirmedStep, RefusalStep
<1>7. UpdatesAreConfirmed' /\ EachVersionHasOneWriter'
  BY <1>1, UpdatesStep
<1> QED
  BY <1>2, <1>3, <1>4, <1>5, <1>6, <1>7 DEF Inv

\* Inv holds in every reachable state: what a request relies on between two of
\* its statements stays true while the others, the clock and the sweeper run.
THEOREM Invariance == Spec => []Inv
  BY InitInv, StepInv, PTL DEF Spec

\* Two creations with one token are given one character, or the sweeper came between.
THEOREM SameKey == Spec => []SameKeySameCharacter
<1>1. Inv => SameKeySameCharacter
  <2> SUFFICES ASSUME Inv, NEW q \in Req, NEW r \in Req, GivenCharacter(q), GivenCharacter(r),
                      call[q].key = call[r].key, call[q].key # None,
                      reply[q].id \notin reclaimed, reply[r].id \notin reclaimed
               PROVE  reply[q].id = reply[r].id
    BY DEF SameKeySameCharacter
  <2>1. reply[q].id \in Id /\ reply[r].id \in Id
    BY DEF Inv, TypeOK, Reply, GivenCharacter, Answered
  <2> QED
    BY <2>1 DEF Inv, GivenCharactersHoldTheToken, TokensAreUnique
<1> QED
  BY <1>1, Invariance, PTL

\* A confirmation answered 200 is durable against every statement and sweep.
THEOREM Durability == Spec => []ConfirmedIsDurable
<1>1. Inv => ConfirmedIsDurable
  BY DEF Inv
<1> QED
  BY <1>1, Invariance, PTL

\* A confirmation answered 404 can never be made good.
THEOREM RefusalIsFinal == Spec => []ConfirmRefusalIsFinal
<1>1. Inv => ConfirmRefusalIsFinal
  BY DEF Inv
<1> QED
  BY <1>1, Invariance, PTL

\* An ETag names one update, and an update answered 200 is never undone.
THEOREM OneWriterPerVersion == Spec => []EachVersionHasOneWriter
<1>1. Inv => EachVersionHasOneWriter
  BY DEF Inv
<1> QED
  BY <1>1, Invariance, PTL

\* Races in use cannot vanish under a row, nor be written by a stale merge.
THEOREM RaceIntegrity == Spec => []RaceReferencesHold
<1>1. Inv => RaceReferencesHold
  BY DEF Inv
<1> QED
  BY <1>1, Invariance, PTL

-----------------------------------------------------------------------------
(* What a step may never do.                                               *)

\* A row of the expected version is the row that was read.
LEMMA ExpectedRowIsTheBase ==
  ASSUME Inv, NEW r \in Req, pc[r] = "write", Active(call[r].id),
         rows[call[r].id].version = Expected(r)
  PROVE  call[r].id \in Id /\ rows[call[r].id] = base[r] /\ rows[call[r].id] \in Row
<1> DEFINE i == call[r].id
<1>1. i \in Id /\ base[r] \in Row /\ call[r] \in Call
  BY StatementTells DEF Inv
<1>2. rows[i] \in Row
  BY <1>1 DEF Active, Present, Inv, TypeOK
<1>3. /\ base[r].version <= rows[i].version
      /\ call[r].ifMatch # None => call[r].ifMatch <= base[r].version
      /\ base[r].version = rows[i].version /\ ~rows[i].deleted => base[r] = rows[i]
  BY DEF Inv, BaseIsAPastRow
<1>4. base[r].version = rows[i].version
  <2>1. CASE call[r].ifMatch = None
    BY <2>1 DEF Expected, Coalesce
  <2>2. CASE call[r].ifMatch # None
    <3>1. base[r].version \in Nat /\ rows[i].version \in Nat /\ call[r].ifMatch = rows[i].version
      BY <1>1, <1>2, <2>2 DEF Expected, Coalesce, Row
    <3> QED
      BY <1>3, <2>2, <3>1
  <2> QED
    BY <2>1, <2>2
<1> QED
  BY <1>1, <1>2, <1>3, <1>4 DEF Active

LEMMA WriteSeesItsRead ==
  ASSUME Inv, NEW r \in Req, Writes(r)
  PROVE  /\ call[r].id \in Id
         /\ rows[call[r].id] = base[r]
         /\ rows[call[r].id] \in Row
         /\ rows' = [rows EXCEPT ![call[r].id].race = NewRace(r), ![call[r].id].data = NewData(r),
                                 ![call[r].id].version = @ + 1]
<1>1. /\ pc[r] = "write" /\ Active(call[r].id) /\ rows[call[r].id].version = Expected(r)
      /\ rows' = [rows EXCEPT ![call[r].id].race = NewRace(r), ![call[r].id].data = NewData(r),
                              ![call[r].id].version = @ + 1]
  BY DEF Writes, UpdateCharacter
<1> QED
  BY <1>1, ExpectedRowIsTheBase

\* No PUT or PATCH overwrites a row other than the one it has read, whether or
\* not it carries an If-Match (one that an ETag of the character has shown).
THEOREM LostUpdatesAreImpossible == Spec => NoLostUpdate
<1>1. Inv /\ [Next]_vars => [\A r \in Req : Writes(r) => rows[call[r].id] = base[r]]_vars
  BY WriteSeesItsRead
<1> QED
  BY <1>1, Invariance, PTL DEF NoLostUpdate, Spec

\* A PATCH changes no column it does not carry, although it writes all of them.
THEOREM PatchIsPartial == Spec => PatchKeepsOtherFields
<1>1. ASSUME Inv, NEW r \in Req, Writes(r), call[r].op = "patch"
      PROVE  LET i == call[r].id IN
             /\ call[r].race = None => rows'[i].race = rows[i].race
             /\ \A f \in Field : call[r].data[f] = None => rows'[i].data[f] = rows[i].data[f]
  <2> DEFINE i == call[r].id
  <2>1. /\ i \in Id /\ rows[i] = base[r] /\ rows[i] \in Row
        /\ rows' = [rows EXCEPT ![i].race = NewRace(r), ![i].data = NewData(r), ![i].version = @ + 1]
    BY <1>1, WriteSeesItsRead
  <2>2. rows'[i].race = NewRace(r) /\ rows'[i].data = NewData(r)
    BY <1>1, <2>1 DEF Inv, TypeOK, Row
  <2>3. call[r].race = None => NewRace(r) = rows[i].race
    BY <1>1, <2>1 DEF NewRace, Coalesce
  <2>4. ASSUME NEW f \in Field, call[r].data[f] = None PROVE NewData(r)[f] = rows[i].data[f]
    <3>1. rows[i].data[f] # Empty
      BY <2>1, EmptyIsNoValue DEF Row
    <3> QED
      BY <1>1, <2>1, <2>4, <3>1 DEF NewData, Coalesce, Stored
  <2> QED
    BY <2>2, <2>3, <2>4
<1>2. Inv /\ [Next]_vars =>
        [\A r \in Req :
           Writes(r) /\ call[r].op = "patch" =>
             LET i == call[r].id IN
             /\ call[r].race = None => rows'[i].race = rows[i].race
             /\ \A f \in Field : call[r].data[f] = None => rows'[i].data[f] = rows[i].data[f]]_vars
  BY <1>1
<1> QED
  BY <1>2, Invariance, PTL DEF PatchKeepsOtherFields, Spec
=============================================================================
