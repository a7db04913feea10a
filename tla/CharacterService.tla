-------------------------- MODULE CharacterService --------------------------
(***************************************************************************)
(* The write path of character-api: the HTTP handlers, the usecase service *)
(* and the Postgres repository (each request runs in a goroutine of its    *)
(* own, on any instance of the API), the DB functions that hold the write  *)
(* invariants, and the background sweeper.                                 *)
(*                                                                         *)
(* One action is one SQL statement: a statement is atomic in Postgres, and *)
(* everything a request keeps between two statements (what it read, which  *)
(* statement is next) is its own state.  A row is what the statements can  *)
(* tell apart: created_at is kept as "old enough to reclaim", updated_at   *)
(* and the wording of errors are left out.  Requests that validation       *)
(* rejects (400) never reach this code.                                    *)
(***************************************************************************)
EXTENDS Integers, FiniteSets

CONSTANTS
  Req,        \* requests; the id uuid.NewV7 gives to the create of r is r
  Existing,   \* ids of characters confirmed before the behaviour starts
  Key,        \* Idempotency-Key values (the creation tokens)
  Race,       \* race ids
  Field,      \* the optional columns
  TextField,  \* those of type text: description, birth_place
  Value,      \* their values
  Ops,        \* the operations the clients use
  None,       \* Go's nil, SQL's NULL, "no row"
  Empty       \* the empty string sent for a text field

Operation == {"create", "confirm", "put", "patch", "delete"}

ASSUME RequestsAreFresh == Req \cap Existing = {}
ASSUME TextFieldsAreFields == TextField \subseteq Field
ASSUME OpsAreOperations == Ops \subseteq Operation
ASSUME EmptyIsNoValue == Empty \notin Value \cup {None}

VARIABLES
  rows,       \* rows[i]: the row of core_characters with id i, None if there is none
  races,      \* the ids in table races
  reclaimed,  \* history: the ids whose row the sweeper has deleted
  pc,         \* pc[r]: the statement request r runs next
  call,       \* call[r]: what request r asks
  base,       \* base[r]: the row a PUT or PATCH has read, None outside it
  reply       \* reply[r]: the HTTP answer to r, None before it

vars == <<rows, races, reclaimed, pc, call, base, reply>>

Id == Req \cup Existing

Row ==
  [key : Key \cup {None}, race : Race, data : [Field -> Value \cup {None}],
   version : Nat \ {0}, confirmed : BOOLEAN, deleted : BOOLEAN, aged : BOOLEAN]

Call ==
  [op : Operation, id : Id, key : Key \cup {None}, race : Race \cup {None},
   data : [Field -> Value \cup {None, Empty}], ifMatch : {None} \cup Nat]

\* The status of an answer: 201, 201 with Idempotent-Replayed, 409, 422, 200,
\* 200, 204, 404, 412, and 500 (or no answer at all).
Status ==
  {"created", "replayed", "consumed", "raceNotFound", "confirmed", "updated",
   "deleted", "notFound", "versionConflict", "error"}

Reply == [status : Status, id : Id, version : Nat]

Statement ==
  {"insert", "fetch", "confirm", "recheck", "find", "write", "delete"}

ASSUME NoneIsNoData ==
  /\ None \notin Key \cup Race \cup Value
  /\ None \notin Row
  /\ None \notin Call
  /\ None \notin Reply
  /\ None \notin Nat

TypeOK ==
  /\ rows \in [Id -> Row \cup {None}]
  /\ races \subseteq Race
  /\ reclaimed \subseteq Id
  /\ pc \in [Req -> Statement \cup {"idle", "done"}]
  /\ call \in [Req -> Call \cup {None}]
  /\ base \in [Req -> Row \cup {None}]
  /\ reply \in [Req -> Reply \cup {None}]

-----------------------------------------------------------------------------
(* The rows as the WHERE clauses see them.                                 *)

Present(i) == rows[i] # None

\* deleted_at IS NULL AND confirmed_at IS NULL
Pending(i) == Present(i) /\ ~rows[i].confirmed /\ ~rows[i].deleted

\* Mutation of Active: confirmed_at is not looked at.
NotDeleted(i) == Present(i) /\ ~rows[i].deleted

\* deleted_at IS NULL AND confirmed_at IS NOT NULL: what readers can see
Active(i) == Present(i) /\ rows[i].confirmed /\ ~rows[i].deleted

\* Mutation of HoldersOf: the unique index leaves deleted rows out.
UndeletedHoldersOf(k) == {i \in Id : NotDeleted(i) /\ k # None /\ rows[i].key = k}

\* The rows (at most one: the column has a unique index) that hold token k.
HoldersOf(k) == {i \in Id : Present(i) /\ k # None /\ rows[i].key = k}

\* Mutation of Stored: '' is stored as it is.
StoredVerbatim(v) == v

\* pgTextOrNull: '' is stored as NULL.
Stored(v) == IF v = Empty THEN None ELSE v

Coalesce(patch, current) == IF patch # None THEN patch ELSE current

NoData == [f \in Field |-> None]

Init ==
  /\ \E content \in [Existing -> [race : Race, data : [Field -> Value \cup {None}]]] :
       rows = [i \in Id |->
                IF i \in Existing
                THEN [key |-> None, race |-> content[i].race, data |-> content[i].data,
                      version |-> 1, confirmed |-> TRUE, deleted |-> FALSE, aged |-> FALSE]
                ELSE None]
  /\ races = Race
  /\ reclaimed = {}
  /\ pc = [r \in Req |-> "idle"]
  /\ call = [r \in Req |-> None]
  /\ base = [r \in Req |-> None]
  /\ reply = [r \in Req |-> None]

-----------------------------------------------------------------------------
(* What clients ask.                                                       *)

\* The ids a client can name: those an answer has shown it.
Known ==
  Existing \cup
  {reply[r].id : r \in {q \in Req : reply[q] # None /\ reply[q].status \in {"created", "replayed"}}}

\* If-Match is absent (or *), or a version that an ETag of this id has carried.
IfMatch(i) == {None} \cup 1 .. (IF Present(i) THEN rows[i].version ELSE 1)

CreateCalls(r) ==
  [op : {"create"}, id : {r}, key : Key \cup {None}, race : Race,
   data : [Field -> Value \cup {None}], ifMatch : {None}]

ConfirmCalls(i) ==
  [op : {"confirm"}, id : {i}, key : {None}, race : {None}, data : {NoData}, ifMatch : {None}]

\* PUT carries the whole representation; a field not sent is nil (or '').
PutCalls(i) ==
  [op : {"put"}, id : {i}, key : {None}, race : Race,
   data : [Field -> Value \cup {None}], ifMatch : IfMatch(i)]

\* PATCH carries some fields; None is a field not sent.
PatchCalls(i) ==
  [op : {"patch"}, id : {i}, key : {None}, race : Race \cup {None},
   data : {d \in [Field -> Value \cup {None, Empty}] :
             \A f \in Field \ TextField : d[f] # Empty},
   ifMatch : IfMatch(i)]

DeleteCalls(i) ==
  [op : {"delete"}, id : {i}, key : {None}, race : {None}, data : {NoData}, ifMatch : {None}]

CallsOf(r) ==
  CreateCalls(r) \cup
  UNION {ConfirmCalls(i) \cup PutCalls(i) \cup PatchCalls(i) \cup DeleteCalls(i) : i \in Known}

FirstStatement(op) ==
  CASE op = "create"            -> "insert"
    [] op = "confirm"           -> "confirm"
    [] op \in {"put", "patch"}  -> "find"
    [] op = "delete"            -> "delete"

\* The handler begins to serve c.
Dispatch(r, c) ==
  /\ pc[r] = "idle"
  /\ call' = [call EXCEPT ![r] = c]
  /\ pc' = [pc EXCEPT ![r] = FirstStatement(c.op)]
  /\ UNCHANGED <<rows, races, reclaimed, base, reply>>

Arrive(r) == \E c \in CallsOf(r) : c.op \in Ops /\ Dispatch(r, c)

-----------------------------------------------------------------------------
(* How a statement ends: with the next statement, or with the answer.      *)

GoTo(r, statement) ==
  /\ pc' = [pc EXCEPT ![r] = statement]
  /\ UNCHANGED <<call, reply>>

Answer(r, status, i, version) ==
  /\ reply' = [reply EXCEPT ![r] = [status |-> status, id |-> i, version |-> version]]
  /\ pc' = [pc EXCEPT ![r] = "done"]
  /\ base' = [base EXCEPT ![r] = None]
  /\ UNCHANGED call

Refuse(r, status) == Answer(r, status, call[r].id, 0)

\* A committed write is acknowledged, or its acknowledgement is lost (the
\* connection drops, the request context ends, the process dies).
Acknowledge(r, status, version) ==
  \/ Answer(r, status, call[r].id, version)
  \/ Refuse(r, "error")

\* The request dies before its next statement takes effect.
Fail(r) ==
  /\ pc[r] \notin {"idle", "done"}
  /\ Refuse(r, "error")
  /\ UNCHANGED <<rows, races, reclaimed>>

-----------------------------------------------------------------------------
(* POST /characters                                                        *)

NewRow(c) ==
  [key |-> c.key, race |-> c.race, data |-> [f \in Field |-> Stored(c.data[f])],
   version |-> 1, confirmed |-> FALSE, deleted |-> FALSE, aged |-> FALSE]

\* INSERT ... ON CONFLICT (creation_token) DO NOTHING.  The arbiter index is
\* looked at before the foreign key is; a soft-deleted row conflicts as well.
SaveInsert(r) ==
  /\ pc[r] = "insert"
  /\ \/ /\ HoldersOf(call[r].key) # {}
        /\ GoTo(r, "fetch")
        /\ UNCHANGED <<rows, base>>
     \/ /\ HoldersOf(call[r].key) = {}
        /\ call[r].race \notin races
        /\ Refuse(r, "raceNotFound")
        /\ UNCHANGED rows
     \/ /\ HoldersOf(call[r].key) = {}
        /\ call[r].race \in races
        /\ rows' = [rows EXCEPT ![call[r].id] = NewRow(call[r])]
        /\ Acknowledge(r, "created", 1)
  /\ UNCHANGED <<races, reclaimed>>

\* GetCharacterByToken, a second statement: the row may be gone by now.
SaveFetchExisting(r) ==
  /\ pc[r] = "fetch"
  /\ \/ \E i \in HoldersOf(call[r].key) :
          ~rows[i].deleted /\ Answer(r, "replayed", i, rows[i].version)
     \/ /\ \A i \in HoldersOf(call[r].key) : rows[i].deleted
        /\ Refuse(r, "consumed")
  /\ UNCHANGED <<rows, races, reclaimed>>

-----------------------------------------------------------------------------
(* POST /characters/:id/confirm, the function confirm_character            *)

ConfirmPending(r) ==
  /\ pc[r] = "confirm"
  /\ \/ /\ Pending(call[r].id)
        /\ rows' = [rows EXCEPT ![call[r].id].confirmed = TRUE]
        /\ Acknowledge(r, "confirmed", rows[call[r].id].version)
     \/ /\ ~Pending(call[r].id)
        /\ GoTo(r, "recheck")
        /\ UNCHANGED <<rows, base>>
  /\ UNCHANGED <<races, reclaimed>>

\* Mutation of ConfirmRecheck: a row that is no reservation any more is not found.
ConfirmedOnlyOnce(r) ==
  /\ pc[r] = "recheck"
  /\ Refuse(r, "notFound")
  /\ UNCHANGED <<rows, races, reclaimed>>

\* The function's second statement has a snapshot of its own (READ COMMITTED).
ConfirmRecheck(r) ==
  /\ pc[r] = "recheck"
  /\ \/ /\ Active(call[r].id)
        /\ Answer(r, "confirmed", call[r].id, rows[call[r].id].version)
     \/ /\ ~Active(call[r].id)
        /\ Refuse(r, "notFound")
  /\ UNCHANGED <<rows, races, reclaimed>>

-----------------------------------------------------------------------------
(* PUT and PATCH /characters/:id: read, merge, update_character            *)

FindByID(r) ==
  /\ pc[r] = "find"
  /\ \/ /\ Active(call[r].id)
        /\ base' = [base EXCEPT ![r] = rows[call[r].id]]
        /\ GoTo(r, "write")
     \/ /\ ~Active(call[r].id)
        /\ Refuse(r, "notFound")
  /\ UNCHANGED <<rows, races, reclaimed>>

\* Mutation of Expected: without If-Match whatever is there is overwritten.
WhateverIsThere(r) == Coalesce(call[r].ifMatch, rows[call[r].id].version)

\* Without If-Match the version that was read is expected.
Expected(r) == Coalesce(call[r].ifMatch, base[r].version)

\* Character.Replace and Character.Update: the race and data to write.
NewRace(r) ==
  IF call[r].op = "put" THEN call[r].race ELSE Coalesce(call[r].race, base[r].race)

NewData(r) ==
  [f \in Field |->
     Stored(IF call[r].op = "put"
            THEN call[r].data[f]
            ELSE Coalesce(call[r].data[f], base[r].data[f]))]

\* Mutation of UpdateCharacter: the version is checked when the row is read, and
\* the row is not locked until it is written.
UnlockedUpdate(r) ==
  LET i == call[r].id IN
  /\ pc[r] = "write"
  /\ Active(i)
  /\ base[r].version = Expected(r)
  /\ rows' = [rows EXCEPT ![i].data = NewData(r), ![i].version = base[r].version + 1]
  /\ Acknowledge(r, "updated", base[r].version + 1)
  /\ UNCHANGED <<races, reclaimed>>

\* update_character, with the row locked from the check to the update.
UpdateCharacter(r) ==
  LET i == call[r].id IN
  /\ pc[r] = "write"
  /\ \/ /\ ~Active(i)
        /\ Refuse(r, "notFound")
        /\ UNCHANGED rows
     \/ /\ Active(i)
        /\ rows[i].version # Expected(r)
        /\ Refuse(r, "versionConflict")
        /\ UNCHANGED rows
     \/ /\ Active(i)
        /\ rows[i].version = Expected(r)
        /\ NewRace(r) \notin races
        /\ Refuse(r, "raceNotFound")
        /\ UNCHANGED rows
     \/ /\ Active(i)
        /\ rows[i].version = Expected(r)
        /\ NewRace(r) \in races
        /\ rows' = [rows EXCEPT ![i].race = NewRace(r), ![i].data = NewData(r), ![i].version = @ + 1]
        /\ Acknowledge(r, "updated", rows[i].version + 1)
  /\ UNCHANGED <<races, reclaimed>>

-----------------------------------------------------------------------------
(* DELETE /characters/:id, the function soft_delete_character              *)

SoftDelete(r) ==
  /\ pc[r] = "delete"
  /\ \/ /\ Active(call[r].id)
        /\ rows' = [rows EXCEPT ![call[r].id].deleted = TRUE]
        /\ Acknowledge(r, "deleted", rows[call[r].id].version)
     \/ /\ ~Active(call[r].id)
        /\ Refuse(r, "notFound")
        /\ UNCHANGED rows
  /\ UNCHANGED <<races, reclaimed>>

-----------------------------------------------------------------------------
(* What happens without a request.                                         *)

\* created_at (the API's clock, read before the INSERT) falls behind NOW() - TTL.
Elapse(i) ==
  /\ Pending(i)
  /\ ~rows[i].aged
  /\ rows' = [rows EXCEPT ![i].aged = TRUE]
  /\ UNCHANGED <<races, reclaimed, pc, call, base, reply>>

\* Mutation of Expired: the condition on confirmed_at is the wrong way round.
ExpiredConfirmed == {i \in Id : Present(i) /\ rows[i].confirmed /\ rows[i].aged}

\* The rows one gc_unconfirmed_characters deletes.
Expired == {i \in Id : Present(i) /\ ~rows[i].confirmed /\ rows[i].aged}

\* The sweeper of any instance; to readers its DELETE takes effect at once.
SweepUnconfirmed ==
  /\ Expired # {}
  /\ rows' = [i \in Id |-> IF i \in Expired THEN None ELSE rows[i]]
  /\ reclaimed' = reclaimed \cup Expired
  /\ UNCHANGED <<races, pc, call, base, reply>>

\* Mutation of DeleteRace: only the characters that readers see are looked at.
DeleteUnseenRace(x) ==
  /\ x \in races
  /\ \A i \in Id : Active(i) => rows[i].race # x
  /\ races' = races \ {x}
  /\ UNCHANGED <<rows, reclaimed, pc, call, base, reply>>

\* DELETE /races/:id: refused while any row, deleted or pending too, refers to it.
DeleteRace(x) ==
  /\ x \in races
  /\ \A i \in Id : Present(i) => rows[i].race # x
  /\ races' = races \ {x}
  /\ UNCHANGED <<rows, reclaimed, pc, call, base, reply>>

-----------------------------------------------------------------------------
Serve(r) ==
  \/ SaveInsert(r)
  \/ SaveFetchExisting(r)
  \/ ConfirmPending(r)
  \/ ConfirmRecheck(r)
  \/ FindByID(r)
  \/ UpdateCharacter(r)
  \/ SoftDelete(r)
  \/ Fail(r)

Next ==
  \/ \E r \in Req : Arrive(r) \/ Serve(r)
  \/ \E i \in Id : Elapse(i)
  \/ SweepUnconfirmed
  \/ \E x \in Race : DeleteRace(x)

Spec == Init /\ [][Next]_vars

-----------------------------------------------------------------------------
(* Safety.                                                                 *)

Answered(r, status) == reply[r] # None /\ reply[r].status = status

GivenCharacter(r) == Answered(r, "created") \/ Answered(r, "replayed")

\* The race a row refers to exists, also for pending and deleted rows that no
\* reader sees: the guard of DeleteRace against every path that writes race_id
\* (a PATCH writes back the race it read some statements earlier).
RaceReferencesHold == \A i \in Id : Present(i) => rows[i].race \in races

\* Two creations with one Idempotency-Key are given one character, however
\* their INSERTs and SELECTs interleave, unless the sweeper has reclaimed one
\* of the two (and with it the token) in between.
SameKeySameCharacter ==
  \A q, r \in Req :
    /\ GivenCharacter(q) /\ GivenCharacter(r)
    /\ call[q].key = call[r].key /\ call[q].key # None
    /\ reply[q].id # reply[r].id
    => reply[q].id \in reclaimed \/ reply[r].id \in reclaimed

\* Once a confirmation is answered 200 the row stays, whatever the sweeper does:
\* a confirmed character is deleted only logically.
ConfirmedIsDurable ==
  \A r \in Req : Answered(r, "confirmed") => Present(reply[r].id) /\ rows[reply[r].id].confirmed

\* A 404 to a confirmation is final (the consumer unlinks the character on it):
\* the row is reclaimed or deleted for good, never confirmed by somebody else
\* between the two statements of confirm_character.
ConfirmRefusalIsFinal ==
  \A r \in Req :
    Answered(r, "notFound") /\ call[r].op = "confirm"
    => \/ call[r].id \in reclaimed
       \/ Present(call[r].id) /\ rows[call[r].id].deleted

\* No two updates are answered with the same version of a character (the ETag
\* names one content), and an answered version is never undone.
EachVersionHasOneWriter ==
  \A q, r \in Req :
    Answered(q, "updated") /\ Answered(r, "updated") /\ reply[q].id = reply[r].id
    => /\ q # r => reply[q].version # reply[r].version
       /\ Present(reply[r].id) /\ reply[r].version \in 2 .. rows[reply[r].id].version

\* Lost update: a PUT or PATCH overwrites exactly the row it has read, with
\* If-Match and without it, although read and write are two transactions.
Writes(r) == UpdateCharacter(r) /\ rows' # rows

NoLostUpdate == [][\A r \in Req : Writes(r) => rows[call[r].id] = base[r]]_vars

\* A PATCH leaves every field it does not carry as the database has it at the
\* moment of the write, although it writes back all the columns.
PatchKeepsOtherFields ==
  [][\A r \in Req :
       Writes(r) /\ call[r].op = "patch" =>
         LET i == call[r].id IN
         /\ call[r].race = None => rows'[i].race = rows[i].race
         /\ \A f \in Field : call[r].data[f] = None => rows'[i].data[f] = rows[i].data[f]]_vars

\* Refinement: every statement is a step in the life of one character.
stage ==
  [i \in Id |->
     IF Present(i)
     THEN IF rows[i].deleted THEN "deleted" ELSE IF rows[i].confirmed THEN "active" ELSE "pending"
     ELSE IF i \in reclaimed THEN "reclaimed" ELSE "none"]

version == [i \in Id |-> IF Present(i) THEN rows[i].version ELSE IF i \in reclaimed THEN 1 ELSE 0]

Lifecycle ==
  INSTANCE CharacterLifecycle WITH
    stage <- stage, version <- version, Id <- Id, Existing <- Existing

\* The service implements CharacterLifecycle: reservations alone are physically
\* deleted, only visible characters are edited or removed, every edit has a number.
ImplementsLifecycle == Lifecycle!Spec

\* Refinement: what a request keeps from its first statement to its second.
noted == [r \in Req |-> IF base[r] = None THEN None ELSE base[r].version]

met == {r \in Req : pc[r] = "fetch"}

Atomic == INSTANCE AtomicCharacters WITH asked <- call, answer <- reply

\* The service implements AtomicCharacters: every request for a character takes
\* effect at one moment, as if it had merged with the row it overwrites, although
\* creations, confirmations, PUT and PATCH each are two statements.
ImplementsAtomicCharacters == Atomic!Spec

-----------------------------------------------------------------------------
(* The inductive invariant: what a request may rely on between two of its  *)
(* statements, and what an answer keeps meaning after it is sent.          *)

Statements(op) ==
  CASE op = "create"            -> {"insert", "fetch"}
    [] op = "confirm"           -> {"confirm", "recheck"}
    [] op \in {"put", "patch"}  -> {"find", "write"}
    [] op = "delete"            -> {"delete"}

RequestsWellFormed ==
  \A r \in Req :
    /\ call[r] = None <=> pc[r] = "idle"
    /\ reply[r] = None <=> pc[r] # "done"
    /\ base[r] = None <=> pc[r] # "write"
    /\ pc[r] \notin {"idle", "done"} => pc[r] \in Statements(call[r].op)
    /\ call[r] # None /\ call[r].op = "create" => call[r].id = r /\ call[r].race \in Race
    /\ call[r] # None /\ call[r].op = "put" => call[r].race \in Race
    /\ GivenCharacter(r) => call[r].op = "create"
    /\ reply[r] # None /\ ~GivenCharacter(r) => reply[r].id = call[r].id

\* Nothing has been stored under an id before its INSERT.
IdsAreFresh ==
  \A r \in Req :
    call[r] = None \/ call[r].op # "create" \/ pc[r] = "insert"
    => rows[r] = None /\ r \notin reclaimed

RowsWellFormed ==
  /\ \A i \in reclaimed : rows[i] = None
  /\ \A i \in Existing : Present(i) /\ rows[i].confirmed
  /\ \A i \in Id : Present(i) /\ rows[i].deleted => rows[i].confirmed
  /\ \A i \in Id : Present(i) /\ ~rows[i].confirmed => rows[i].version = 1

TokensAreUnique ==
  \A i, j \in Id :
    Present(i) /\ Present(j) /\ rows[i].key = rows[j].key /\ rows[i].key # None => i = j

\* The character a creation has answered with holds its token until the sweeper takes it.
GivenCharactersHoldTheToken ==
  \A r \in Req :
    GivenCharacter(r) =>
      \/ reply[r].id \in reclaimed
      \/ Present(reply[r].id) /\ rows[reply[r].id].key = call[r].key

\* An id a client names has, or has had, a row.
NamedIdsExist ==
  \A r \in Req :
    call[r] # None /\ call[r].op # "create" => call[r].id \in reclaimed \/ Present(call[r].id)

\* Between its two statements confirm_character knows the row is no reservation any more.
RecheckFindsNoReservation == \A r \in Req : pc[r] = "recheck" => ~Pending(call[r].id)

\* An If-Match is never ahead of the row, so a version that matches it later on
\* is one the request has read.
IfMatchWasSeen ==
  \A r \in Req :
    pc[r] \in {"find", "write"} /\ call[r].ifMatch # None /\ Present(call[r].id)
    => call[r].ifMatch <= rows[call[r].id].version

\* What a PUT or PATCH has read is the row, or an earlier version of it.
BaseIsAPastRow ==
  \A r \in Req :
    pc[r] = "write" =>
      LET row == rows[call[r].id] IN
      /\ row # None
      /\ row.confirmed
      /\ base[r].version <= row.version
      /\ call[r].ifMatch # None => call[r].ifMatch <= base[r].version
      /\ base[r].version = row.version /\ ~row.deleted => base[r] = row

UpdatesAreConfirmed ==
  \A r \in Req :
    Answered(r, "updated") => Present(reply[r].id) /\ rows[reply[r].id].confirmed

Inv ==
  /\ TypeOK
  /\ RequestsWellFormed
  /\ IdsAreFresh
  /\ RowsWellFormed
  /\ TokensAreUnique
  /\ GivenCharactersHoldTheToken
  /\ NamedIdsExist
  /\ RecheckFindsNoReservation
  /\ IfMatchWasSeen
  /\ BaseIsAPastRow
  /\ UpdatesAreConfirmed
  /\ RaceReferencesHold
  /\ ConfirmedIsDurable
  /\ ConfirmRefusalIsFinal
  /\ EachVersionHasOneWriter

-----------------------------------------------------------------------------
(* Liveness, under the fairness of IdempotentApi.                          *)

\* A reservation does not stay one for ever: somebody confirms it or the sweeper
\* reclaims it, although each sweep may come just before its time.
ReservationsResolve == \A i \in Id : Pending(i) ~> ~Pending(i)

-----------------------------------------------------------------------------
(* What comments say and the code does not do.                             *)

\* character_repo.go:69-71: the 409 "token consumed" means that a soft-deleted
\* row holds the token.
ConsumedMeansDeleted ==
  \A r \in Req :
    Answered(r, "consumed") => \E i \in HoldersOf(call[r].key) : rows[i].deleted

\* service.go:168: a PATCH cannot clear a field.
PatchNeverClears ==
  [][\A r \in Req :
       Writes(r) /\ call[r].op = "patch" =>
         \A f \in Field : rows[call[r].id].data[f] # None => rows'[call[r].id].data[f] # None]_vars
=============================================================================
