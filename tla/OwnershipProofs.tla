--------------------------- MODULE OwnershipProofs ---------------------------
(***************************************************************************)
(* A visible character has an owner, although no transaction spans the two *)
(* stores.  The argument: only a statement of a confirmation makes a       *)
(* character visible; the consumer confirms what it has linked; and it     *)
(* unlinks only what has gone for good, which a confirmation under way     *)
(* cannot bring back.                                                      *)
(***************************************************************************)
EXTENDS Ownership, CharacterServiceProofs

\* The consumer's steps are those of some client, or none of the service's.
LEMMA OwnStepsAreServiceSteps ==
  ASSUME [OwnNext]_ownVars
  PROVE  [Next]_vars
<1>1. ASSUME NEW r \in Req, Send(r) PROVE Next
  <2>1. Arrive(r)
    BY <1>1 DEF Send, Arrive
  <2> QED
    BY <2>1 DEF Next
<1>2. ASSUME NEW r \in Req, Link(r) \/ Unlink(r) PROVE UNCHANGED vars
  BY <1>2 DEF Link, Unlink
<1>3. CASE Work
  BY <1>3 DEF Work, Next
<1>4. CASE UNCHANGED ownVars
  BY <1>4 DEF ownVars
<1> QED
  BY <1>1, <1>2, <1>3, <1>4 DEF OwnNext

\* Gone(i) after the step.
IsGoneThen(i) == i \in reclaimed' \/ (rows'[i] # None /\ rows'[i].deleted)

\* What is gone stays gone.
LEMMA GoneForGood ==
  ASSUME TypeOK, RequestsWellFormed, IdsAreFresh, RowsWellFormed, [Next]_vars, NEW i \in Id, Gone(i)
  PROVE  IsGoneThen(i)
<1>1. RowStep(i)
  BY RowsStep
<1>2. CASE i \in reclaimed
  BY <1>1, <1>2 DEF RowStep, IsGoneThen
<1>3. CASE Present(i) /\ rows[i].deleted
  <2>1. rows[i].confirmed
    BY <1>3 DEF RowsWellFormed
  <2> QED
    BY <1>3, <2>1, ConfirmedRowsStay DEF IsGoneThen, Present, SurvivesAs
<1> QED
  BY <1>2, <1>3 DEF Gone

\* A deletion answered 204 has just deleted the row.
LEMMA DeletedNow ==
  ASSUME TypeOK, RequestsWellFormed, NEW q \in Req, Serve(q), Answered(q, "deleted")'
  PROVE  IsGoneThen(call[q].id)
<1>1. CASE SoftDelete(q)
  <2>1. /\ Active(call[q].id)
        /\ rows' = [rows EXCEPT ![call[q].id].deleted = TRUE]
        /\ call[q].id \in Id
    BY <1>1, StatementTells DEF SoftDelete, Answered, Acknowledge, Refuse, Answer, TypeOK
  <2>2. rows[call[q].id] \in Row
    BY <2>1 DEF Active, Present, TypeOK
  <2>3. [rows[call[q].id] EXCEPT !.deleted = TRUE] \in Row
    BY <2>2 DEF Row
  <2>4. rows'[call[q].id] = [rows[call[q].id] EXCEPT !.deleted = TRUE]
    BY <2>1 DEF TypeOK
  <2>5. rows'[call[q].id] # None /\ rows'[call[q].id].deleted
    BY <2>2, <2>3, <2>4, NoneIsNoData DEF Row
  <2> QED
    BY <2>5 DEF IsGoneThen
<1>2. CASE \/ SaveInsert(q) \/ SaveFetchExisting(q) \/ ConfirmPending(q) \/ ConfirmRecheck(q)
           \/ FindByID(q) \/ UpdateCharacter(q) \/ Fail(q)
  BY <1>2 DEF SaveInsert, SaveFetchExisting, ConfirmPending, ConfirmRecheck, FindByID, UpdateCharacter,
              Fail, Answered, GoTo, Acknowledge, Refuse, Answer, TypeOK, RequestsWellFormed
<1> QED
  BY <1>1, <1>2 DEF Serve

\* The one way to become visible.
LEMMA OnlyConfirmationsShow ==
  ASSUME TypeOK, RequestsWellFormed, IdsAreFresh, [Next]_vars, NEW i \in Id, Active(i)', ~Active(i)
  PROVE  \E r \in Req : pc[r] = "confirm" /\ call[r].id = i /\ Pending(i)
<1>1. rows[i] # None /\ rows'[i] # None /\ rows'[i].confirmed /\ ~rows'[i].deleted
  <2>1. rows'[i] # None /\ rows'[i].confirmed /\ ~rows'[i].deleted
    BY DEF Active, Present
  <2>2. RowStep(i)
    BY RowsStep
  <2> QED
    BY <2>1, <2>2 DEF RowStep, Inserts, NewRow
<1>2. ~rows[i].confirmed /\ ~rows[i].deleted /\ rows[i] \in Row
  <2>1. RowStep(i)
    BY RowsStep
  <2> QED
    BY <1>1, <2>1 DEF RowStep, Survives, Reclaims, SurvivesAs, Active, Present, TypeOK
<1>3. rows'[i] # rows[i]
  BY <1>1, <1>2
<1>4. ASSUME NEW r \in Req, ConfirmPending(r)
      PROVE  pc[r] = "confirm" /\ call[r].id = i
  <2>1. call[r].id \in Id
    BY <1>4, StatementTells DEF ConfirmPending
  <2> QED
    BY <1>3, <1>4, <2>1 DEF ConfirmPending, TypeOK
<1>5. ASSUME NEW r \in Req, SaveInsert(r) \/ UpdateCharacter(r) \/ SoftDelete(r)
      PROVE  FALSE
  <2>1. call[r].id \in Id /\ (pc[r] = "insert" => call[r].id = r)
    BY <1>5, StatementTells DEF SaveInsert, UpdateCharacter, SoftDelete
  <2>2. CASE SaveInsert(r)
    BY <1>1, <1>3, <2>1, <2>2 DEF SaveInsert, IdsAreFresh, TypeOK
  <2>3. CASE UpdateCharacter(r) \/ SoftDelete(r)
    BY <1>2, <1>3, <2>1, <2>3 DEF UpdateCharacter, SoftDelete, Active, TypeOK
  <2> QED
    BY <1>5, <2>2, <2>3
<1>6. ASSUME NEW r \in Req,
             Arrive(r) \/ SaveFetchExisting(r) \/ ConfirmRecheck(r) \/ FindByID(r) \/ Fail(r)
      PROVE  FALSE
  BY <1>3, <1>6 DEF Arrive, Dispatch, SaveFetchExisting, ConfirmRecheck, FindByID, Fail
<1>7. ASSUME NEW j \in Id, Elapse(j) PROVE FALSE
  BY <1>1, <1>2, <1>7 DEF Elapse, TypeOK, Row
<1>8. ~SweepUnconfirmed
  BY <1>1, <1>3 DEF SweepUnconfirmed
<1>9. ASSUME NEW x \in Race, DeleteRace(x) PROVE FALSE
  BY <1>3, <1>9 DEF DeleteRace
<1>10. ~UNCHANGED vars
  BY <1>3 DEF vars
<1> QED
  BY <1>1, <1>2, <1>4, <1>5, <1>6, <1>7, <1>8, <1>9, <1>10 DEF Next, Serve, Pending, Present

-----------------------------------------------------------------------------
\* What is unlinked has gone.
LEMMA UnlinkedIsGone ==
  ASSUME Inv, DeletionsStand, NEW r \in Req, Unlink(r)
  PROVE  Gone(call[r].id)
<1>1. CASE call[r].op = "confirm" /\ Answered(r, "notFound")
  BY <1>1 DEF Inv, ConfirmRefusalIsFinal, Gone
<1>2. CASE Answered(r, "deleted")
  BY <1>2 DEF DeletionsStand
<1> QED
  BY <1>1, <1>2 DEF Unlink

\* A link goes by an Unlink alone.
LEMMA LinksStay ==
  ASSUME Inv, DeletionsStand, [OwnNext]_ownVars, NEW i \in owned
  PROVE  i \in owned' \/ (Gone(i) /\ UNCHANGED vars)
<1>1. ASSUME NEW r \in Req, Unlink(r) PROVE i \in owned' \/ (Gone(i) /\ UNCHANGED vars)
  BY <1>1, UnlinkedIsGone DEF Unlink
<1>2. ASSUME NEW r \in Req, Send(r) \/ Link(r) PROVE i \in owned'
  BY <1>2 DEF Send, Link
<1>3. CASE Work \/ UNCHANGED ownVars
  BY <1>3 DEF Work, ownVars
<1> QED
  BY <1>1, <1>2, <1>3 DEF OwnNext

\* A confirmation that has just been sent is of a linked character.
LEMMA SentIsOwned ==
  ASSUME Inv, [OwnNext]_ownVars, NEW q \in Req, Arrive(q), pc'[q] \in {"confirm", "recheck"}
  PROVE  call'[q].id \in owned'
<1>1. call'[q] # call[q] /\ pc[q] = "idle"
  <2>1. PICK c \in CallsOf(q) : Dispatch(q, c)
    BY DEF Arrive
  <2>2. c \in Call /\ call[q] = None /\ pc[q] = "idle"
    BY <2>1, CallsAreTyped DEF Inv, RequestsWellFormed, Dispatch
  <2> QED
    BY <2>1, <2>2, NoneIsNoData DEF Dispatch, Inv, TypeOK
<1>2. ASSUME NEW r \in Req, Send(r) PROVE call'[q].id \in owned'
  <2>1. PICK c \in CallsOf(r) : (c.op = "confirm" => c.id \in owned) /\ Dispatch(r, c)
    BY <1>2 DEF Send
  <2>2. r = q
    BY <1>1, <2>1 DEF Dispatch, Inv, TypeOK
  <2>3. call'[q] = c /\ pc'[q] = FirstStatement(c.op)
    BY <2>1, <2>2 DEF Dispatch, Inv, TypeOK
  <2>4. c.op = "confirm"
    <3>1. c \in Call
      BY <2>2, CallsAreTyped DEF Inv
    <3> QED
      BY <2>3, <3>1 DEF FirstStatement, Call, Operation
  <2> QED
    BY <1>2, <2>1, <2>3, <2>4 DEF Send
<1>3. ASSUME NEW r \in Req, Link(r) \/ Unlink(r) PROVE FALSE
  BY <1>1, <1>3 DEF Link, Unlink, vars
<1>4. ~Work
  BY <1>1 DEF Work, Serve, SaveInsert, SaveFetchExisting, ConfirmPending, ConfirmRecheck, FindByID,
              UpdateCharacter, SoftDelete, Fail, GoTo, Answer, Refuse, Acknowledge, Elapse,
              SweepUnconfirmed, DeleteRace
<1>5. ~UNCHANGED ownVars
  BY <1>1 DEF ownVars, vars
<1> QED
  BY <1>2, <1>3, <1>4, <1>5 DEF OwnNext

LEMMA InitOwnInv == OwnInit => OwnInv
<1> SUFFICES ASSUME OwnInit PROVE OwnInv
  OBVIOUS
<1>1. Inv
  BY InitInv DEF OwnInit
<1>2. owned = Existing /\ Existing \subseteq Id
  BY DEF OwnInit, Id
<1>3. \A r \in Req : pc[r] = "idle" /\ reply[r] = None
  BY DEF OwnInit, Init
<1>4. ASSUME NEW i \in Id, Active(i) PROVE i \in owned
  <2>1. rows[i] # None
    BY <1>4 DEF Active, Present
  <2>2. i \in Req => rows[i] = None
    BY <1>1, <1>3 DEF Inv, IdsAreFresh, RequestsWellFormed
  <2> QED
    BY <1>2, <2>1, <2>2 DEF Id
<1>5. VisibleHasOwner
  BY <1>4 DEF VisibleHasOwner
<1>6. ConfirmationsAreOwned /\ DeletionsStand
  BY <1>3 DEF ConfirmationsAreOwned, DeletionsStand, Answered
<1> QED
  BY <1>1, <1>2, <1>5, <1>6 DEF OwnInv, OwnTypeOK, Inv

LEMMA StepOwnInv == OwnInv /\ [OwnNext]_ownVars => OwnInv'
<1> SUFFICES ASSUME OwnInv, [OwnNext]_ownVars PROVE OwnInv'
  OBVIOUS
<1>1. /\ Inv /\ TypeOK /\ owned \subseteq Id
      /\ VisibleHasOwner /\ ConfirmationsAreOwned /\ DeletionsStand
      /\ RequestsWellFormed /\ IdsAreFresh /\ RowsWellFormed
  BY DEF OwnInv, OwnTypeOK, Inv
<1>2. [Next]_vars /\ Inv'
  BY <1>1, OwnStepsAreServiceSteps, StepInv
<1>3. OwnTypeOK'
  <2>1. ASSUME NEW r \in Req, Link(r) PROVE owned' \subseteq Id
    BY <1>1, <2>1 DEF Link, GivenCharacter, Answered, TypeOK, Reply
  <2>2. owned' \subseteq Id
    BY <1>1, <2>1 DEF OwnNext, ownVars, Send, Unlink, Work
  <2> QED
    BY <1>2, <2>2 DEF OwnTypeOK, Inv
<1>4. VisibleHasOwner'
  <2> SUFFICES ASSUME NEW i \in Id, Active(i)' PROVE i \in owned'
    BY DEF VisibleHasOwner
  <2>1. ~IsGoneThen(i)
    <3>1. rows'[i] # None /\ ~rows'[i].deleted
      BY DEF Active, Present
    <3>2. i \notin reclaimed'
      BY <1>2, <3>1 DEF Inv, RowsWellFormed
    <3> QED
      BY <3>1, <3>2 DEF IsGoneThen
  <2>2. ~Gone(i)
    BY <1>1, <1>2, <2>1, GoneForGood
  <2>3. i \in owned
    <3>1. CASE Active(i)
      BY <1>1, <3>1 DEF VisibleHasOwner
    <3>2. CASE ~Active(i)
      BY <1>1, <1>2, <2>2, <3>2, OnlyConfirmationsShow DEF ConfirmationsAreOwned
    <3> QED
      BY <3>1, <3>2
  <2> QED
    BY <1>1, <2>2, <2>3, LinksStay
<1>5. ConfirmationsAreOwned'
  <2> SUFFICES ASSUME NEW q \in Req, pc'[q] \in {"confirm", "recheck"}
               PROVE  call'[q].id \in owned' \/ IsGoneThen(call'[q].id)
    BY DEF ConfirmationsAreOwned, IsGoneThen, Gone, Present
  <2>1. CASE Arrive(q)
    BY <1>1, <2>1, SentIsOwned
  <2>2. CASE ~Arrive(q)
    <3>1. /\ pc[q] \in {"confirm", "recheck"} /\ call'[q] = call[q] /\ call[q].id \in Id
      <4>1. CASE Still(q)
        BY <1>1, <4>1, StatementTells DEF Still
      <4>2. CASE Serve(q)
        <5>1. call'[q] = call[q] /\ call[q] # None
          BY <1>1, <1>2, <4>2, AnswersStand
        <5>2. pc[q] \notin {"idle", "done"} /\ pc'[q] \notin {"idle", "done"}
          BY <4>2 DEF Serve, SaveInsert, SaveFetchExisting, ConfirmPending, ConfirmRecheck, FindByID,
                      UpdateCharacter, SoftDelete, Fail
        <5>3. call'[q].op = "confirm"
          <6>1. pc'[q] \in Statements(call'[q].op) /\ call'[q] \in Call
            BY <1>2, <5>1, <5>2 DEF Inv, RequestsWellFormed, TypeOK
          <6> QED
            BY <6>1 DEF Statements, Call, Operation
        <5> QED
          BY <1>1, <5>1, <5>2, <5>3, StatementTells
      <4> QED
        BY <1>1, <1>2, <2>2, <4>1, <4>2, OneRequestMoves
    <3>2. call[q].id \in owned \/ Gone(call[q].id)
      BY <1>1, <3>1 DEF ConfirmationsAreOwned
    <3>3. Gone(call[q].id) => IsGoneThen(call[q].id)
      BY <1>1, <1>2, <3>1, GoneForGood
    <3>4. call[q].id \in owned => call[q].id \in owned' \/ (Gone(call[q].id) /\ UNCHANGED vars)
      BY <1>1, LinksStay
    <3> QED
      BY <3>1, <3>2, <3>3, <3>4
  <2> QED
    BY <2>1, <2>2
<1>6. DeletionsStand'
  <2> SUFFICES ASSUME NEW q \in Req, Answered(q, "deleted")' PROVE IsGoneThen(call'[q].id)
    BY DEF DeletionsStand, IsGoneThen, Gone, Present
  <2>1. CASE Still(q)
    <3>1. Answered(q, "deleted") /\ call'[q] = call[q] /\ call[q] \in Call
      BY <1>1, <2>1 DEF Still, Answered, TypeOK, RequestsWellFormed
    <3>2. call[q].id \in Id /\ Gone(call[q].id)
      BY <1>1, <3>1 DEF DeletionsStand, Call
    <3> QED
      BY <1>1, <1>2, <3>1, <3>2, GoneForGood
  <2>2. CASE Serve(q)
    BY <1>1, <1>2, <2>2, DeletedNow, AnswersStand
  <2>3. CASE Arrive(q)
    BY <1>1, <2>3 DEF Arrive, Dispatch, Answered, RequestsWellFormed
  <2> QED
    BY <1>1, <1>2, <2>1, <2>2, <2>3, OneRequestMoves
<1> QED
  BY <1>2, <1>3, <1>4, <1>5, <1>6 DEF OwnInv

\* The conjunction that the promise of the reservation pattern rests on is inductive.
THEOREM OwnInvariance == OwnSpec => []OwnInv
  BY InitOwnInv, StepOwnInv, PTL DEF OwnSpec

\* A character that readers see has an owner, whatever is retried, lost, swept or
\* deleted, and wherever the consumer stops.
THEOREM NoVisibleOrphans == OwnSpec => []VisibleHasOwner
<1>1. OwnInv => VisibleHasOwner
  BY DEF OwnInv
<1> QED
  BY <1>1, OwnInvariance, PTL

\* With the consumer in it, the service is still the service.
THEOREM OwnImplementsService == OwnSpec => Spec
<1>1. OwnInit => Init
  BY DEF OwnInit
<1>2. [OwnNext]_ownVars => [Next]_vars
  BY OwnStepsAreServiceSteps
<1> QED
  BY <1>1, <1>2, PTL DEF OwnSpec, Spec
=============================================================================
