---------------------------- MODULE RaceRegistry ----------------------------
(***************************************************************************)
(* What the race endpoints promise: each request takes effect, and sees    *)
(* the table, at one moment between its arrival and its answer.  Names     *)
(* are unique, an id that is gone stays gone, and a race in use stays.     *)
(* A client that gets no answer, or a 500, does not know which it was.     *)
(*                                                                         *)
(* RaceCatalog, whose PUT is two statements, is shown to implement this.   *)
(***************************************************************************)
CONSTANTS
  Req,      \* requests; the id of the race that r creates is r
  Seeded,   \* the ids of races there are from the beginning
  Name,     \* race names, trimmed and of legal length
  None      \* no race, no request, no answer

VARIABLES
  names,    \* names[i]: the name of race i, None if there is no race i
  inUse,    \* the races that characters refer to
  asked,    \* asked[r]: what request r asks
  answer    \* answer[r]: what r was told

vars == <<names, inUse, asked, answer>>

RaceId == Req \cup Seeded

Question ==
  [op : {"create", "rename", "delete", "get", "list"}, id : RaceId, name : Name \cup {None}]

Unique(table) ==
  \A i, j \in RaceId : table[i] = table[j] /\ table[i] # None => i = j

Listed(i) == names[i] # None

Taken(n, i) == \E j \in RaceId \ {i} : names[j] = n

Init ==
  /\ names \in {t \in [RaceId -> Name \cup {None}] :
                  Unique(t) /\ \A i \in RaceId : t[i] = None <=> i \notin Seeded}
  /\ inUse \subseteq Seeded
  /\ asked = [r \in Req |-> None]
  /\ answer = [r \in Req |-> None]

Ask(r) ==
  /\ asked[r] = None
  /\ \E q \in Question :
       /\ q.op = "create" => q.id = r
       /\ asked' = [asked EXCEPT ![r] = q]
  /\ UNCHANGED <<names, inUse, answer>>

Waits(r) == asked[r] # None /\ answer[r] = None

Tell(r, outcome, shown) ==
  answer' = [answer EXCEPT ![r] = [outcome |-> outcome, shown |-> shown]]

\* The effect is there, and the client may not be told.
TellOrLose(r, outcome, shown) == Tell(r, outcome, shown) \/ Tell(r, "error", {})

Create(r, i, n) ==
  \/ Taken(n, i) /\ Tell(r, "duplicate", {}) /\ UNCHANGED names
  \/ /\ ~Taken(n, i)
     /\ names' = [names EXCEPT ![i] = n]
     /\ TellOrLose(r, "created", {<<i, n>>})

Rename(r, i, n) ==
  \/ ~Listed(i) /\ Tell(r, "notFound", {}) /\ UNCHANGED names
  \/ Listed(i) /\ Taken(n, i) /\ Tell(r, "duplicate", {}) /\ UNCHANGED names
  \/ /\ Listed(i)
     /\ ~Taken(n, i)
     /\ names' = [names EXCEPT ![i] = n]
     /\ TellOrLose(r, "shown", {<<i, n>>})

Delete(r, i) ==
  \/ i \in inUse /\ Tell(r, "inUse", {}) /\ UNCHANGED names
  \/ ~Listed(i) /\ Tell(r, "notFound", {}) /\ UNCHANGED names
  \/ /\ Listed(i)
     /\ i \notin inUse
     /\ names' = [names EXCEPT ![i] = None]
     /\ TellOrLose(r, "deleted", {})

Get(r, i) ==
  /\ \/ Listed(i) /\ Tell(r, "shown", {<<i, names[i]>>})
     \/ ~Listed(i) /\ Tell(r, "notFound", {})
  /\ UNCHANGED names

List(r) ==
  /\ Tell(r, "shown", {<<i, names[i]>> : i \in {j \in RaceId : Listed(j)}})
  /\ UNCHANGED names

GiveUp(r) == Tell(r, "error", {}) /\ UNCHANGED names

Resolve(r) ==
  LET q == asked[r] IN
  /\ Waits(r)
  /\ \/ q.op = "create" /\ Create(r, q.id, q.name)
     \/ q.op = "rename" /\ Rename(r, q.id, q.name)
     \/ q.op = "delete" /\ Delete(r, q.id)
     \/ q.op = "get" /\ Get(r, q.id)
     \/ q.op = "list" /\ List(r)
     \/ GiveUp(r)
  /\ UNCHANGED <<inUse, asked>>

\* Characters come and go, and refer to races that exist.
Refer ==
  /\ UNCHANGED <<names, asked, answer>>
  /\ inUse' \in SUBSET {i \in RaceId : Listed(i)}

Next ==
  \/ Refer
  \/ \E r \in Req : Ask(r) \/ Resolve(r)

Spec == Init /\ [][Next]_vars
=============================================================================
