--------------------------- MODULE CharacterList ---------------------------
(***************************************************************************)
(* GET /characters: a page of the visible characters and their total, read *)
(* by two statements (two snapshots), and a reader that walks through the  *)
(* pages by offset while characters are confirmed and deleted.             *)
(*                                                                         *)
(* Characters are numbered in the order of the list (created_at, id), which *)
(* is total, so a page is the set of the characters in it.  A character is *)
(* visible from its confirmation to its deletion; a confirmation can put it *)
(* in front of others, for created_at is the time of the reservation.      *)
(***************************************************************************)
EXTENDS Integers, FiniteSets

CONSTANTS
  Characters,        \* how many characters there are, visible or not yet
  DefaultListLimit,  \* the limit of a query that names none
  MaxListLimit,      \* the most a query can name
  None               \* a parameter that is not sent

ASSUME LimitsAreSane ==
  /\ Characters \in Nat
  /\ DefaultListLimit \in 1 .. MaxListLimit
  /\ MaxListLimit \in Nat
  /\ None \notin Nat
  /\ \A I \in SUBSET (1 .. Characters) : None # I

VARIABLES
  status,   \* status[i]: "pending", "active" or "deleted"
  pc,       \* what the reader's request does next, "answered" when it is answered
  params,   \* the ListParams of the request, None before the first
  page,     \* the items it has read
  total,    \* the total it was answered with
  seen,     \* history: the characters in the pages answered so far
  repeated, \* history: those that were in two of them
  owed,     \* history: those visible ever since a walk from offset 0 began
  events,   \* history: what has happened to characters since the walk began
  quiet     \* history: nothing has happened since the page was read

walk == <<seen, repeated, owed, events, quiet>>

vars == <<status, pc, params, page, total, walk>>

Id == 1 .. Characters

\* limit 0 is no limit, ids = None no restriction.
ListParams ==
  [ids : {None} \cup SUBSET Id, limit : 0 .. MaxListLimit, offset : Nat]

ASSUME NoneIsNoParams == None \notin ListParams

TypeOK ==
  /\ status \in [Id -> {"pending", "active", "deleted"}]
  /\ pc \in {"idle", "list", "count", "answered"}
  /\ params \in ListParams \cup {None}
  /\ page \subseteq Id
  /\ total \in 0 .. Characters
  /\ seen \subseteq Id /\ repeated \subseteq Id /\ owed \subseteq Id
  /\ events \subseteq {"confirmed", "deleted"}
  /\ quiet \in BOOLEAN

Init ==
  /\ status \in [Id -> {"pending", "active"}]
  /\ pc = "idle"
  /\ params = None
  /\ page = {} /\ total = 0
  /\ seen = {} /\ repeated = {} /\ owed = {} /\ events = {} /\ quiet = FALSE

-----------------------------------------------------------------------------
(* The queries and what they read.                                         *)

\* The queries that are not answered 400.  A list of ids may name nobody (",").
ListQueries ==
  [ids : {I \in SUBSET Id : Cardinality(I) <= MaxListLimit} \cup {None},
   limit : 1 .. MaxListLimit \cup {None}, offset : 0 .. Characters \cup {None}]

Or(parameter, default) == IF parameter = None THEN default ELSE parameter

\* Mutation of ParseListParams: parameters are handed on as they are sent.
ParamsAsSent(q) == q

\* Mutation of ParseListParams: no default for the limit.
ParamsWithoutDefault(q) == [q EXCEPT !.limit = Or(@, 0), !.offset = Or(@, 0)]

\* The number of ids is the limit of a query that names ids.
ParseListParams(q) ==
  [ids    |-> q.ids,
   limit  |-> Or(q.limit, IF q.ids = None THEN DefaultListLimit ELSE 0),
   offset |-> Or(q.offset, 0)]

Visible == {i \in Id : status[i] = "active"}

\* Mutation of Matching: no ids are no restriction.
MatchingAny(p) == IF p.ids \in {None, {}} THEN Visible ELSE Visible \cap p.ids

\* The WHERE clause that the page and the total share.
Matching(p) == IF p.ids = None THEN Visible ELSE Visible \cap p.ids

Position(i, I) == Cardinality({j \in I : j <= i})

\* Mutation of Page: OFFSET counts from the wrong end of the row.
PageFromOffset(p) ==
  {i \in Matching(p) :
     /\ Position(i, Matching(p)) >= p.offset
     /\ p.limit # 0 => Position(i, Matching(p)) <= p.offset + p.limit}

\* ORDER BY created_at, id LIMIT NULLIF(lim, 0) OFFSET off.
Page(p) ==
  {i \in Matching(p) :
     /\ Position(i, Matching(p)) > p.offset
     /\ p.limit # 0 => Position(i, Matching(p)) <= p.offset + p.limit}

-----------------------------------------------------------------------------
(* The request: parseListParams, ListCharacters, CountCharacters.          *)

Ask ==
  /\ pc = "idle"
  /\ \E q \in ListQueries : params' = ParseListParams(q)
  /\ owed' = IF params'.offset = 0 THEN Visible ELSE {}
  /\ pc' = "list"
  /\ UNCHANGED <<status, page, total, seen, repeated, events, quiet>>

Answer(items) ==
  /\ pc' = "answered"
  /\ seen' = seen \cup items
  /\ repeated' = repeated \cup (seen \cap items)

\* The repository does without the statements where ids name nobody: they would
\* find nothing.
ListCharacters ==
  /\ pc = "list"
  /\ page' = Page(params)
  /\ quiet' = TRUE
  /\ pc' = "count"
  /\ UNCHANGED <<total, seen, repeated>>

\* A snapshot of its own.
CountCharacters ==
  /\ pc = "count"
  /\ total' = Cardinality(Matching(params))
  /\ Answer(page)
  /\ UNCHANGED <<page, quiet>>

\* Mutation of List: the total is read before the page.
CountFirst ==
  /\ \/ /\ pc = "list"
        /\ total' = Cardinality(Matching(params))
        /\ pc' = "count"
        /\ UNCHANGED <<page, seen, repeated, quiet>>
     \/ /\ pc = "count"
        /\ page' = Page(params)
        /\ Answer(Page(params))
        /\ UNCHANGED <<total, quiet>>
  /\ UNCHANGED <<status, params, owed, events>>

List == (ListCharacters \/ CountCharacters) /\ UNCHANGED <<status, params, owed, events>>

\* A statement fails: the reader is answered 500 and asks again.
Fail ==
  /\ pc \in {"list", "count"}
  /\ pc' = "list"
  /\ UNCHANGED <<status, params, page, total, walk>>

\* What a pager does with items and total.
Walks == params # None /\ params.ids = None

LastPage == params.offset + params.limit >= total

NextPage ==
  /\ pc = "answered"
  /\ Walks
  /\ ~LastPage
  /\ params' = [params EXCEPT !.offset = @ + params.limit]
  /\ pc' = "list"
  /\ UNCHANGED <<status, page, total, walk>>

-----------------------------------------------------------------------------
(* Meanwhile.                                                              *)

Happens(i, from, to, event) ==
  /\ status[i] = from
  /\ status' = [status EXCEPT ![i] = to]
  /\ events' = IF pc = "idle" THEN events ELSE events \cup {event}
  /\ quiet' = FALSE
  /\ UNCHANGED <<pc, params, page, total, seen, repeated>>

Confirm(i) == Happens(i, "pending", "active", "confirmed") /\ UNCHANGED owed

Delete(i) == Happens(i, "active", "deleted", "deleted") /\ owed' = owed \ {i}

Next ==
  \/ Ask
  \/ List
  \/ Fail
  \/ NextPage
  \/ \E i \in Id : Confirm(i) \/ Delete(i)

Spec == Init /\ [][Next]_vars

-----------------------------------------------------------------------------
(* Safety.                                                                 *)

\* No query reads the whole table: a page has at most MaxListLimit items, also
\* when ids are named and no limit is, or the limit is left out.
PagesAreBounded == Cardinality(page) <= MaxListLimit

\* Ids that name nobody find nobody, instead of being no restriction at all.
BatchesAreRestricted ==
  params # None /\ params.ids # None => page \subseteq params.ids

\* Page and total come from two snapshots; if nothing was confirmed or deleted
\* in between, they fit: the page is as full as the total says.
PageFitsTotal ==
  LET rest == IF total > params.offset THEN total - params.offset ELSE 0
  IN pc = "answered" /\ quiet =>
       Cardinality(page) = IF params.limit = 0 \/ rest < params.limit THEN rest ELSE params.limit

\* A walk that starts at the front and stops when the total says so has shown
\* every character that was visible all the while, whatever was confirmed
\* meanwhile: only deletions shift characters to pages already read.  It hangs
\* on the order of the two statements: a total read before its page could be
\* too small for it.
NothingMissed ==
  pc = "answered" /\ Walks /\ LastPage /\ "deleted" \notin events => owed \subseteq seen

\* A walk shows no character twice unless one was confirmed meanwhile.
NothingTwice == Walks /\ "confirmed" \notin events => repeated = {}

\* A query that names no ids has a limit, one that does has few of them; what is
\* asked and read is there when it is needed.
ParamsFit ==
  /\ params = None <=> pc = "idle"
  /\ params # None =>
       IF params.ids = None THEN params.limit # 0 ELSE Cardinality(params.ids) <= MaxListLimit
  /\ pc = "idle" => seen = {} /\ repeated = {} /\ page = {} /\ owed = {} /\ events = {}
  /\ pc = "count" /\ quiet => page = Page(params)

WhereIs(i) == Position(i, Visible)

\* Unless a character is confirmed, those that have been shown, and are still
\* there, are in front of what is read next.
NothingShiftsBack ==
  Walks /\ "confirmed" \notin events =>
    /\ repeated = {}
    /\ pc \in {"list", "count"} => \A i \in seen \cap Visible : WhereIs(i) <= params.offset
    /\ pc = "count" =>
         /\ seen \cap page = {}
         /\ \A i \in page \cap Visible : WhereIs(i) <= params.offset + params.limit
    /\ pc = "answered" => \A i \in seen \cap Visible : WhereIs(i) <= params.offset + params.limit

\* Unless one is deleted, those that are owed are behind what has been read.
NothingShiftsForth ==
  Walks /\ "deleted" \notin events =>
    /\ owed \subseteq Visible
    /\ pc \in {"list", "count"} => \A i \in owed \ seen : WhereIs(i) > params.offset
    /\ pc = "count" => \A i \in owed \ (seen \cup page) : WhereIs(i) > params.offset + params.limit
    /\ pc = "answered" =>
         \A i \in owed \ seen :
           WhereIs(i) > params.offset + params.limit /\ total > params.offset + params.limit

\* The inductive invariant.
Inv ==
  /\ TypeOK /\ ParamsFit
  /\ PagesAreBounded /\ BatchesAreRestricted /\ PageFitsTotal
  /\ NothingShiftsBack /\ NothingShiftsForth
=============================================================================
