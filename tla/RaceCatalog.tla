----------------------------- MODULE RaceCatalog -----------------------------
(***************************************************************************)
(* The races: handler, usecase and repository, statement by statement,     *)
(* with as much of the characters as meets them: rows refer to a race, the *)
(* foreign key watches over it, and answers about a character join in the  *)
(* name of its race.                                                       *)
(*                                                                         *)
(* That join is made by the statement that calls the DB function, in the   *)
(* snapshot it takes when it begins, while the statements inside the       *)
(* function take later ones: the name in an answer can be older than the   *)
(* row.  `past` records what the table of races has been since a request   *)
(* arrived, to say how old.                                                *)
(***************************************************************************)
EXTENDS Integers, Sequences

CONSTANTS
  Req,        \* requests; the id of the race or character r creates is r
  Seeded,     \* the races of seeds/01_races.sql
  Existing,   \* the characters there are from the beginning
  Name,       \* race names after normalizeName
  Ops,        \* the operations the clients use
  None        \* NULL, nil, "no row"

RaceOps == {"create", "rename", "delete", "get", "list"}
CharacterOps == {"reserve", "confirm", "patch", "show"}

ASSUME RequestsAreFresh == Req \cap (Seeded \cup Existing) = {}
ASSUME OpsAreOperations == Ops \subseteq RaceOps \cup CharacterOps

VARIABLES
  names,      \* names[i]: the name of race i, None if there is none
  rows,       \* rows[c]: the row of character c, None if there is none
  pc,         \* pc[r]: the statement request r runs next
  call,       \* call[r]: what request r asks
  base,       \* base[r]: the row that a PATCH has read
  snapshot,   \* snapshot[r]: the races as the statement in progress sees them
  past,       \* history: past[r], the races from the arrival of r to its answer
  reply       \* reply[r]: the answer to r

vars == <<names, rows, pc, call, base, snapshot, past, reply>>

RaceId == Req \cup Seeded
CharacterId == Req \cup Existing

Table == [RaceId -> Name \cup {None}]

Row ==
  [race : RaceId, version : Nat \ {0}, stage : {"pending", "active", "deleted"}]

Call ==
  [op : RaceOps \cup CharacterOps, id : RaceId \cup CharacterId,
   name : Name \cup {None}, race : RaceId \cup {None}]

\* 201, 200, 204, 404, 409 (name taken), 409 (in use), 412, 422 and 500.
Outcome ==
  {"created", "shown", "deleted", "notFound", "duplicate", "inUse",
   "versionConflict", "raceNotFound", "error"}

\* shown: the pairs of race and name that the body of the answer carries
Reply == [outcome : Outcome, shown : SUBSET (RaceId \X Name)]

ASSUME NoneIsNoData ==
  /\ None \notin Name \cup RaceId
  /\ None \notin Row
  /\ None \notin Call
  /\ None \notin Reply
  /\ None \notin Table

ASSUME NoneIsNoQuestion == None \notin [op : RaceOps, id : RaceId, name : Name \cup {None}]

Statement ==
  {"insertRace", "findRace", "updateRace", "deleteRace", "getRace", "listRaces",
   "insert", "getCharacter", "begin", "write", "confirm", "recheck"}

TypeOK ==
  /\ names \in Table
  /\ rows \in [CharacterId -> Row \cup {None}]
  /\ pc \in [Req -> Statement \cup {"idle", "done"}]
  /\ call \in [Req -> Call \cup {None}]
  /\ base \in [Req -> Row \cup {None}]
  /\ snapshot \in [Req -> Table \cup {None}]
  /\ past \in [Req -> Seq(Table)]
  /\ reply \in [Req -> Reply \cup {None}]

-----------------------------------------------------------------------------
Listed(i) == names[i] # None

\* UNIQUE (name), for a row other than i
Taken(n, i) == \E j \in RaceId \ {i} : names[j] = n

Present(c) == rows[c] # None

Active(c) == Present(c) /\ rows[c].stage = "active"

Pending(c) == Present(c) /\ rows[c].stage = "pending"

\* Mutation of Referenced: only the characters that readers see are looked at.
ReferencedVisibly(i) == \E c \in CharacterId : Active(c) /\ rows[c].race = i

\* The foreign key sees every row: pending and deleted ones hold their race.
Referenced(i) == \E c \in CharacterId : Present(c) /\ rows[c].race = i

Init ==
  /\ names \in {t \in Table :
       /\ \A i \in RaceId : t[i] = None <=> i \notin Seeded
       /\ \A i, j \in Seeded : t[i] = t[j] => i = j}
  /\ \E row \in [Existing -> [race : Seeded, version : {1}, stage : {"pending", "active"}]] :
       rows = [c \in CharacterId |-> IF c \in Existing THEN row[c] ELSE None]
  /\ pc = [r \in Req |-> "idle"]
  /\ call = [r \in Req |-> None]
  /\ base = [r \in Req |-> None]
  /\ snapshot = [r \in Req |-> None]
  /\ past = [r \in Req |-> <<>>]
  /\ reply = [r \in Req |-> None]

-----------------------------------------------------------------------------
(* What clients ask: they know the ids that answers have shown.            *)

KnownRaces ==
  Seeded \cup
  {shown[1] : shown \in UNION {reply[r].shown : r \in {q \in Req : reply[q] # None}}}

KnownCharacters ==
  Existing \cup
  {r \in Req : call[r] # None /\ call[r].op = "reserve" /\ reply[r] # None /\ reply[r].outcome = "created"}

CallsOf(r) ==
  [op : {"create"}, id : {r}, name : Name, race : {None}] \cup
  [op : {"rename"}, id : KnownRaces, name : Name, race : {None}] \cup
  [op : {"delete", "get"}, id : KnownRaces, name : {None}, race : {None}] \cup
  [op : {"list"}, id : {r}, name : {None}, race : {None}] \cup
  [op : {"reserve"}, id : {r}, name : {None}, race : KnownRaces] \cup
  [op : {"confirm", "show"}, id : KnownCharacters, name : {None}, race : {None}] \cup
  [op : {"patch"}, id : KnownCharacters, name : {None}, race : KnownRaces \cup {None}]

FirstStatement(op) ==
  CASE op = "create" -> "insertRace"   [] op = "rename"  -> "findRace"
    [] op = "delete" -> "deleteRace"   [] op = "get"     -> "getRace"
    [] op = "list"   -> "listRaces"    [] op = "reserve" -> "insert"
    [] op = "show"   -> "getCharacter" [] op = "patch"   -> "getCharacter"
    [] op = "confirm" -> "begin"

Arrive(r) ==
  /\ pc[r] = "idle"
  /\ \E c \in CallsOf(r) :
       /\ c.op \in Ops
       /\ call' = [call EXCEPT ![r] = c]
       /\ pc' = [pc EXCEPT ![r] = FirstStatement(c.op)]
  /\ past' = [past EXCEPT ![r] = <<names>>]
  /\ UNCHANGED <<names, rows, base, snapshot, reply>>

GoTo(r, statement) == pc' = [pc EXCEPT ![r] = statement] /\ UNCHANGED reply

Answer(r, outcome, shown) ==
  /\ reply' = [reply EXCEPT ![r] = [outcome |-> outcome, shown |-> shown]]
  /\ pc' = [pc EXCEPT ![r] = "done"]

Refuse(r, outcome) == Answer(r, outcome, {})

\* The statement has committed; the answer may be lost on its way.
Acknowledge(r, outcome, shown) == Answer(r, outcome, shown) \/ Refuse(r, "error")

\* Another table of races: a moment in the life of every request under way.
Becomes(table) ==
  /\ names' = table
  /\ past' = [q \in Req |-> IF pc[q] \in {"idle", "done"} \/ table = names
                            THEN past[q] ELSE Append(past[q], table)]

SameRaces == UNCHANGED <<names, past>>

-----------------------------------------------------------------------------
(* /races.  One statement each, except that PUT reads before it writes.    *)

CreateRace(r) ==
  LET i == call[r].id  n == call[r].name IN
  /\ pc[r] = "insertRace"
  /\ \/ Taken(n, i) /\ Refuse(r, "duplicate") /\ SameRaces
     \/ /\ ~Taken(n, i)
        /\ Becomes([names EXCEPT ![i] = n])
        /\ Acknowledge(r, "created", {<<i, n>>})
  /\ UNCHANGED <<rows, call, base, snapshot>>

\* Service.Update reads the race; of what it read, only that it is there matters.
FindRace(r) ==
  /\ pc[r] = "findRace"
  /\ IF Listed(call[r].id) THEN GoTo(r, "updateRace") ELSE Refuse(r, "notFound")
  /\ UNCHANGED <<names, rows, call, base, snapshot, past>>

\* Mutation of UpdateRace: the number of rows is not looked at.
UpdateRaceUncounted(r) ==
  LET i == call[r].id  n == call[r].name IN
  /\ pc[r] = "updateRace"
  /\ \/ ~Listed(i) /\ Acknowledge(r, "shown", {<<i, n>>}) /\ SameRaces
     \/ Listed(i) /\ Taken(n, i) /\ Refuse(r, "duplicate") /\ SameRaces
     \/ /\ Listed(i)
        /\ ~Taken(n, i)
        /\ Becomes([names EXCEPT ![i] = n])
        /\ Acknowledge(r, "shown", {<<i, n>>})
  /\ UNCHANGED <<rows, call, base, snapshot>>

\* UPDATE ... WHERE id: no row if the race was deleted since it was read.
UpdateRace(r) ==
  LET i == call[r].id  n == call[r].name IN
  /\ pc[r] = "updateRace"
  /\ \/ ~Listed(i) /\ Refuse(r, "notFound") /\ SameRaces
     \/ Listed(i) /\ Taken(n, i) /\ Refuse(r, "duplicate") /\ SameRaces
     \/ /\ Listed(i)
        /\ ~Taken(n, i)
        /\ Becomes([names EXCEPT ![i] = n])
        /\ Acknowledge(r, "shown", {<<i, n>>})
  /\ UNCHANGED <<rows, call, base, snapshot>>

DeleteRace(r) ==
  LET i == call[r].id IN
  /\ pc[r] = "deleteRace"
  /\ \/ ~Listed(i) /\ Refuse(r, "notFound") /\ SameRaces
     \/ Listed(i) /\ Referenced(i) /\ Refuse(r, "inUse") /\ SameRaces
     \/ /\ Listed(i)
        /\ ~Referenced(i)
        /\ Becomes([names EXCEPT ![i] = None])
        /\ Acknowledge(r, "deleted", {})
  /\ UNCHANGED <<rows, call, base, snapshot>>

GetRace(r) ==
  /\ pc[r] = "getRace"
  /\ IF Listed(call[r].id)
     THEN Answer(r, "shown", {<<call[r].id, names[call[r].id]>>})
     ELSE Refuse(r, "notFound")
  /\ UNCHANGED <<names, rows, call, base, snapshot, past>>

ListRaces(r) ==
  /\ pc[r] = "listRaces"
  /\ Answer(r, "shown", {<<i, names[i]>> : i \in {j \in RaceId : Listed(j)}})
  /\ UNCHANGED <<names, rows, call, base, snapshot, past>>

-----------------------------------------------------------------------------
(* /characters, as far as races are concerned.                             *)

\* What LEFT JOIN races adds to a row of race i: a name, or NULL ('').
Joined(table, i) == IF table[i] = None THEN {} ELSE {<<i, table[i]>>}

\* POST: the answer is the domain object, which carries no name of the race.
InsertCharacter(r) ==
  /\ pc[r] = "insert"
  /\ IF Listed(call[r].race)
     THEN /\ rows' = [rows EXCEPT ![call[r].id] = [race |-> call[r].race, version |-> 1, stage |-> "pending"]]
          /\ Acknowledge(r, "created", {})
     ELSE Refuse(r, "raceNotFound") /\ UNCHANGED rows
  /\ UNCHANGED <<names, call, base, snapshot, past>>

\* FindByID for GET, where it is the answer, and for PATCH, where it is the base.
GetCharacter(r) ==
  LET c == call[r].id IN
  /\ pc[r] = "getCharacter"
  /\ \/ ~Active(c) /\ Refuse(r, "notFound") /\ UNCHANGED base
     \/ /\ Active(c)
        /\ call[r].op = "show"
        /\ Answer(r, "shown", Joined(names, rows[c].race))
        /\ UNCHANGED base
     \/ /\ Active(c)
        /\ call[r].op = "patch"
        /\ base' = [base EXCEPT ![r] = rows[c]]
        /\ GoTo(r, "begin")
  /\ UNCHANGED <<names, rows, call, snapshot, past>>

\* SELECT ... FROM update_character(...) or confirm_character(...) begins.
BeginStatement(r) ==
  /\ pc[r] = "begin"
  /\ snapshot' = [snapshot EXCEPT ![r] = names]
  /\ GoTo(r, IF call[r].op = "patch" THEN "write" ELSE "confirm")
  /\ UNCHANGED <<names, rows, call, base, past>>

NewRace(r) == IF call[r].race = None THEN base[r].race ELSE call[r].race

VersionMatches(r) == rows[call[r].id].version = base[r].version

\* update_character; the foreign key is checked against the races of now.
UpdateCharacter(r) ==
  LET c == call[r].id IN
  /\ pc[r] = "write"
  /\ \/ ~Active(c) /\ Refuse(r, "notFound") /\ UNCHANGED rows
     \/ Active(c) /\ ~VersionMatches(r) /\ Refuse(r, "versionConflict") /\ UNCHANGED rows
     \/ /\ Active(c)
        /\ VersionMatches(r)
        /\ ~Listed(NewRace(r))
        /\ Refuse(r, "raceNotFound")
        /\ UNCHANGED rows
     \/ /\ Active(c)
        /\ VersionMatches(r)
        /\ Listed(NewRace(r))
        /\ rows' = [rows EXCEPT ![c].race = NewRace(r), ![c].version = @ + 1]
        /\ Acknowledge(r, "shown", Joined(snapshot[r], NewRace(r)))
  /\ UNCHANGED <<names, call, base, snapshot, past>>

ConfirmPending(r) ==
  LET c == call[r].id IN
  /\ pc[r] = "confirm"
  /\ \/ /\ Pending(c)
        /\ rows' = [rows EXCEPT ![c].stage = "active"]
        /\ Acknowledge(r, "shown", Joined(snapshot[r], rows[c].race))
     \/ ~Pending(c) /\ GoTo(r, "recheck") /\ UNCHANGED rows
  /\ UNCHANGED <<names, call, base, snapshot, past>>

ConfirmRecheck(r) ==
  LET c == call[r].id IN
  /\ pc[r] = "recheck"
  /\ \/ Active(c) /\ Answer(r, "shown", Joined(snapshot[r], rows[c].race))
     \/ ~Active(c) /\ Refuse(r, "notFound")
  /\ UNCHANGED <<names, rows, call, base, snapshot, past>>

\* The sweeper takes a reservation, and with it its hold on the race.
Reclaim(c) ==
  /\ Pending(c)
  /\ rows' = [rows EXCEPT ![c] = None]
  /\ UNCHANGED <<names, pc, call, base, snapshot, past, reply>>

\* DELETE /characters/:id: the row stays, and so does its hold on the race.
SoftDelete(c) ==
  /\ Active(c)
  /\ rows' = [rows EXCEPT ![c].stage = "deleted"]
  /\ UNCHANGED <<names, pc, call, base, snapshot, past, reply>>

Fail(r) ==
  /\ pc[r] \notin {"idle", "done"}
  /\ Refuse(r, "error")
  /\ UNCHANGED <<names, rows, call, base, snapshot, past>>

Serve(r) ==
  \/ CreateRace(r) \/ FindRace(r) \/ UpdateRace(r) \/ DeleteRace(r)
  \/ GetRace(r) \/ ListRaces(r)
  \/ InsertCharacter(r) \/ GetCharacter(r) \/ BeginStatement(r)
  \/ UpdateCharacter(r) \/ ConfirmPending(r) \/ ConfirmRecheck(r)
  \/ Fail(r)

Next ==
  \/ \E r \in Req : Arrive(r) \/ Serve(r)
  \/ \E c \in CharacterId : Reclaim(c) \/ SoftDelete(c)

Spec == Init /\ [][Next]_vars

-----------------------------------------------------------------------------
(* Properties.                                                             *)

Answered(r, outcome) == reply[r] # None /\ reply[r].outcome = outcome

\* Every name an answer gives to a race is one the race had while the request
\* was under way: never one from before it, and never one the race did not get.
ShownNamesWereTrue ==
  \A r \in Req : reply[r] # None =>
    \A shown \in reply[r].shown : \E k \in DOMAIN past[r] : past[r][k][shown[1]] = shown[2]

\* GET and PATCH never answer with a nameless race, although a PATCH joins with a
\* snapshot older than the row it has written.  A confirmation may, but only if a
\* race has been created while it was under way.
AnswersNameTheRace ==
  \A r \in Req :
    Answered(r, "shown") /\ reply[r].shown = {} =>
      \/ call[r].op = "list"
      \/ /\ call[r].op = "confirm"
         /\ \E i \in RaceId : \E j, k \in DOMAIN past[r] :
              j < k /\ past[r][j][i] = None /\ past[r][k][i] # None

\* The rows that the foreign key guards, whoever deletes and writes meanwhile.
ReferencesHold == \A c \in CharacterId : Present(c) => Listed(rows[c].race)

\* What a request carries from one of its statements to the next.
StatementsOf(op) ==
  CASE op = "create"  -> {"insertRace"}
    [] op = "rename"  -> {"findRace", "updateRace"}
    [] op = "delete"  -> {"deleteRace"}
    [] op = "get"     -> {"getRace"}
    [] op = "list"    -> {"listRaces"}
    [] op = "reserve" -> {"insert"}
    [] op = "show"    -> {"getCharacter"}
    [] op = "patch"   -> {"getCharacter", "begin", "write"}
    [] op = "confirm" -> {"begin", "confirm", "recheck"}

CallFits(r, c) ==
  /\ c.op \in RaceOps => c.id \in RaceId
  /\ c.op \in CharacterOps => c.id \in CharacterId
  /\ c.op \in {"create", "reserve"} => c.id = r
  /\ c.op \in {"create", "rename"} => c.name \in Name
  /\ c.op = "reserve" => c.race \in RaceId

RequestsFit ==
  \A r \in Req :
    /\ call[r] = None <=> pc[r] = "idle"
    /\ reply[r] = None <=> pc[r] # "done"
    /\ call[r] # None => CallFits(r, call[r])
    /\ pc[r] \notin {"idle", "done"} => pc[r] \in StatementsOf(call[r].op)
    /\ pc[r] \in {"begin", "write"} /\ call[r].op = "patch" => base[r] # None

\* The history of a request under way ends with the races of now, and the
\* snapshot of its statement is in it.
HistoriesAreTrue ==
  \A r \in Req :
    /\ pc[r] \notin {"idle", "done"} => \E k \in DOMAIN past[r] : past[r][k] = names
    /\ pc[r] \in {"write", "confirm", "recheck"} => \E k \in DOMAIN past[r] : past[r][k] = snapshot[r]

\* The invariant of the table, the foreign key and the histories.
BaseInv == TypeOK /\ RequestsFit /\ HistoriesAreTrue /\ ShownNamesWereTrue /\ ReferencesHold

\* The one request that can put this race or character into its table is done.
Spent(i) == i \in Seeded \cup Existing \/ (i \in Req /\ pc[i] = "done")

\* No id comes back: one that is or was in the table of races is spent, so a
\* race that is gone stays gone.
RacesAreSpent ==
  \A i \in RaceId :
    /\ Listed(i) => Spent(i)
    /\ \A r \in Req : \A k \in DOMAIN past[r] : past[r][k][i] # None => Spent(i)

\* What a request for a character names is spent, too.
NamedIdsAreSpent ==
  \A r \in Req :
    /\ call[r] # None /\ call[r].op \in {"confirm", "show", "patch"} => Spent(call[r].id)
    /\ call[r] # None /\ call[r].op = "patch" /\ call[r].race # None => Spent(call[r].race)
    /\ base[r] # None => Spent(base[r].race)

\* The races of now are the last in the history of a request under way.
HistoriesEndNow ==
  \A r \in Req :
    pc[r] \notin {"idle", "done"} => past[r] # <<>> /\ past[r][Len(past[r])] = names

\* A statement that has begun knows the race it is about to write, if it is still
\* there, and the race of a reservation, which nothing can move.
SnapshotsKnowTheRace ==
  \A r \in Req :
    /\ pc[r] = "write" /\ Listed(NewRace(r)) => snapshot[r][NewRace(r)] # None
    /\ pc[r] = "confirm" /\ Pending(call[r].id) => snapshot[r][rows[call[r].id].race] # None

\* The inductive invariant.
Inv ==
  /\ BaseInv
  /\ RacesAreSpent
  /\ NamedIdsAreSpent
  /\ HistoriesEndNow
  /\ SnapshotsKnowTheRace
  /\ AnswersNameTheRace

\* What the requests for races ask and are told, and what the characters hold.
inUse == {i \in RaceId : Referenced(i)}

asked ==
  [r \in Req |->
     IF call[r] # None /\ call[r].op \in RaceOps
     THEN [op |-> call[r].op, id |-> call[r].id, name |-> call[r].name]
     ELSE None]

answer == [r \in Req |-> IF call[r] # None /\ call[r].op \in RaceOps THEN reply[r] ELSE None]

Registry == INSTANCE RaceRegistry WITH inUse <- inUse, asked <- asked, answer <- answer

\* The service implements RaceRegistry: every race request has its effect, and
\* sees the table, at one moment, although PUT reads and writes in two
\* transactions and nothing like a version ties them together.
ImplementsRegistry == Registry!Spec
=============================================================================
