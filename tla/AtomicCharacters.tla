--------------------------- MODULE AtomicCharacters ---------------------------
(***************************************************************************)
(* What the write endpoints of characters promise: each request takes      *)
(* effect, and sees the tables, at one moment between its arrival and its  *)
(* answer.  A PUT or PATCH is one step that merges what it carries with    *)
(* the character of that moment; a confirmation is one step; so is the     *)
(* creation, or the replay, of a character.  A client that gets no answer, *)
(* or a 500, does not know which it was.                                   *)
(*                                                                         *)
(* Two answers speak of a moment before that one, and the specification    *)
(* says so: 412 without If-Match (the character has changed since the      *)
(* request noted its version) and 409 "token consumed" (the request has    *)
(* met a character with its token, which may be gone by now).              *)
(*                                                                         *)
(* CharacterService, where each of these is two statements, is shown to    *)
(* implement this.                                                         *)
(***************************************************************************)
EXTENDS Integers

CONSTANTS
  Req,        \* requests; the character that r creates has the id r
  Existing,   \* the characters there are from the beginning
  Key,        \* creation tokens
  Race,       \* race ids
  Field,      \* the optional columns
  Value,      \* their values
  None,       \* no character, no value, no request, no answer
  Empty       \* the empty text

VARIABLES
  rows,       \* rows[i]: character i, None if there is none
  races,      \* the races there are
  asked,      \* asked[r]: what request r asks
  noted,      \* noted[r]: the version that r has seen of the character it edits
  met,        \* the creations that have met a character with their token
  answer      \* answer[r]: what r was told

vars == <<rows, races, asked, noted, met, answer>>

Id == Req \cup Existing

Question ==
  [op : {"create", "confirm", "put", "patch", "delete"}, id : Id, key : Key \cup {None},
   race : Race \cup {None}, data : [Field -> Value \cup {None, Empty}], ifMatch : Nat \cup {None}]

Confirmed ==
  [key : {None}, race : Race, data : [Field -> Value \cup {None}], version : {1},
   confirmed : {TRUE}, deleted : {FALSE}, aged : {FALSE}]

Init ==
  /\ DOMAIN rows = Id
  /\ \A i \in Id : IF i \in Existing THEN rows[i] \in Confirmed ELSE rows[i] = None
  /\ races = Race
  /\ asked = [r \in Req |-> None]
  /\ noted = [r \in Req |-> None]
  /\ met = {}
  /\ answer = [r \in Req |-> None]

-----------------------------------------------------------------------------
Present(i) == rows[i] # None

Pending(i) == Present(i) /\ ~rows[i].confirmed /\ ~rows[i].deleted

Active(i) == Present(i) /\ rows[i].confirmed /\ ~rows[i].deleted

Holders(k) == {i \in Id : Present(i) /\ k # None /\ rows[i].key = k}

Either(v, w) == IF v # None THEN v ELSE w

\* A text that is sent empty is no text.
Kept(v) == IF v = Empty THEN None ELSE v

Reservation(q) ==
  [key |-> q.key, race |-> q.race, data |-> [f \in Field |-> Kept(q.data[f])],
   version |-> 1, confirmed |-> FALSE, deleted |-> FALSE, aged |-> FALSE]

\* A PUT replaces every optional column, a PATCH those it carries.
Edited(row, q) ==
  [row EXCEPT
     !.race = Either(q.race, @),
     !.data = [f \in Field |-> Kept(IF q.op = "put" THEN q.data[f] ELSE Either(q.data[f], row.data[f]))],
     !.version = @ + 1]

-----------------------------------------------------------------------------
Ask(r) ==
  /\ asked[r] = None
  /\ asked'[r] \in Question
  /\ asked'[r].op = "create" => asked'[r].id = r
  /\ asked' = [asked EXCEPT ![r] = asked'[r]]
  /\ UNCHANGED <<rows, races, noted, met, answer>>

Waits(r) == asked[r] # None /\ answer[r] = None

\* What a request may see of its character before its moment comes.
Note(r) ==
  /\ Waits(r)
  /\ asked[r].op \in {"put", "patch"}
  /\ Active(asked[r].id)
  /\ noted' = [noted EXCEPT ![r] = rows[asked[r].id].version]
  /\ UNCHANGED <<rows, races, asked, met, answer>>

Meet(r) ==
  /\ Waits(r)
  /\ asked[r].op = "create"
  /\ Holders(asked[r].key) # {}
  /\ met' = met \cup {r}
  /\ UNCHANGED <<rows, races, asked, noted, answer>>

-----------------------------------------------------------------------------
Tell(r, status, i, version) ==
  answer' = [answer EXCEPT ![r] = [status |-> status, id |-> i, version |-> version]]

Refuse(r, status) == Tell(r, status, asked[r].id, 0) /\ UNCHANGED rows

\* The effect is there, and the client may not be told.
Effect(r, row, status) ==
  /\ rows' = [rows EXCEPT ![asked[r].id] = row]
  /\ \/ Tell(r, status, asked[r].id, row.version)
     \/ Tell(r, "error", asked[r].id, 0)

Create(r) ==
  LET q == asked[r]
      H == Holders(q.key) IN
  \/ H = {} /\ q.race \notin races /\ Refuse(r, "raceNotFound")
  \/ H = {} /\ q.race \in races /\ ~Present(q.id) /\ Effect(r, Reservation(q), "created")
  \/ \E i \in H : ~rows[i].deleted /\ Tell(r, "replayed", i, rows[i].version) /\ UNCHANGED rows
  \/ /\ \A i \in H : rows[i].deleted
     /\ H # {} \/ r \in met
     /\ Refuse(r, "consumed")

Confirm(r) ==
  LET i == asked[r].id IN
  \/ Pending(i) /\ Effect(r, [rows[i] EXCEPT !.confirmed = TRUE], "confirmed")
  \/ Active(i) /\ Tell(r, "confirmed", i, rows[i].version) /\ UNCHANGED rows
  \/ ~Pending(i) /\ ~Active(i) /\ Refuse(r, "notFound")

\* The version r asks for, or has noted; without either, any will do.
VersionFits(r) ==
  LET version == rows[asked[r].id].version IN
  version = Either(asked[r].ifMatch, Either(noted[r], version))

Edit(r) ==
  LET q == asked[r] IN
  \/ ~Active(q.id) /\ Refuse(r, "notFound")
  \/ Active(q.id) /\ ~VersionFits(r) /\ Refuse(r, "versionConflict")
  \/ Active(q.id) /\ VersionFits(r) /\ q.race \notin races \cup {None} /\ Refuse(r, "raceNotFound")
  \/ /\ Active(q.id)
     /\ VersionFits(r)
     /\ q.race \in races \cup {None}
     /\ Effect(r, Edited(rows[q.id], q), "updated")

Delete(r) ==
  LET i == asked[r].id IN
  \/ Active(i) /\ Effect(r, [rows[i] EXCEPT !.deleted = TRUE], "deleted")
  \/ ~Active(i) /\ Refuse(r, "notFound")

GiveUp(r) == Refuse(r, "error")

\* The moment of r.
Resolve(r) ==
  /\ Waits(r)
  /\ \/ asked[r].op = "create" /\ Create(r)
     \/ asked[r].op = "confirm" /\ Confirm(r)
     \/ asked[r].op \in {"put", "patch"} /\ Edit(r)
     \/ asked[r].op = "delete" /\ Delete(r)
     \/ GiveUp(r)
  /\ noted' = [noted EXCEPT ![r] = None]
  /\ met' = met \ {r}
  /\ UNCHANGED <<races, asked>>

-----------------------------------------------------------------------------
(* What happens without a request.                                         *)

Age(i) ==
  /\ Pending(i)
  /\ rows' = [rows EXCEPT ![i].aged = TRUE]
  /\ UNCHANGED <<races, asked, noted, met, answer>>

\* Old reservations go, and nothing else ever does.
Reclaim ==
  LET old == {i \in Id : Pending(i) /\ rows[i].aged} IN
  /\ rows' = [i \in Id |-> IF i \in old THEN None ELSE rows[i]]
  /\ UNCHANGED <<races, asked, noted, met, answer>>

\* A race goes when no character refers to it.
DropRace(x) ==
  /\ \A i \in Id : Present(i) => rows[i].race # x
  /\ races' = races \ {x}
  /\ UNCHANGED <<rows, asked, noted, met, answer>>

Next ==
  \/ \E r \in Req : Ask(r) \/ Note(r) \/ Meet(r) \/ Resolve(r)
  \/ \E i \in Id : Age(i)
  \/ Reclaim
  \/ \E x \in races : DropRace(x)

Spec == Init /\ [][Next]_vars
=============================================================================
