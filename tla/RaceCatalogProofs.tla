-------------------------- MODULE RaceCatalogProofs --------------------------
(***************************************************************************)
(* The races: the invariant of the catalogue is inductive, whatever names  *)
(* an answer shows were true, every answer about a character names its     *)
(* race unless one has just been created, and every request for a race     *)
(* takes effect at one moment (RaceCatalog implements RaceRegistry).       *)
(***************************************************************************)
EXTENDS RaceCatalog, TLAPS

UnderWay(r) == pc[r] \notin {"idle", "done"}

-----------------------------------------------------------------------------
(* What clients can ask.                                                   *)

LEMMA KnownIdsAreIds ==
  ASSUME TypeOK
  PROVE  KnownRaces \subseteq RaceId /\ KnownCharacters \subseteq CharacterId
<1>1. ASSUME NEW q \in Req, reply[q] # None, NEW shown \in reply[q].shown
      PROVE  shown[1] \in RaceId
  <2>1. reply[q] \in Reply
    BY <1>1 DEF TypeOK
  <2>2. shown \in RaceId \X Name
    BY <1>1, <2>1 DEF Reply
  <2> QED
    BY <2>2
<1>2. KnownRaces \subseteq RaceId
  BY <1>1 DEF KnownRaces, RaceId
<1> QED
  BY <1>2 DEF KnownCharacters, CharacterId

LEMMA CallsAreTyped ==
  ASSUME TypeOK, NEW r \in Req, NEW c \in CallsOf(r)
  PROVE  c \in Call /\ c # None /\ CallFits(r, c)
<1>1. KnownRaces \subseteq RaceId /\ KnownCharacters \subseteq CharacterId
  BY KnownIdsAreIds
<1>2. r \in RaceId /\ r \in CharacterId
  BY DEF RaceId, CharacterId
<1>3. c \in Call
  BY <1>1, <1>2 DEF CallsOf, Call, RaceOps, CharacterOps
<1>4. CallFits(r, c)
  BY <1>1, <1>2 DEF CallsOf, CallFits, RaceOps, CharacterOps
<1> QED
  BY <1>3, <1>4, NoneIsNoData

-----------------------------------------------------------------------------
(* The table of races moves on, and histories with it.                     *)

RacesMove == SameRaces \/ \E table \in Table : Becomes(table)

\* Histories only grow; those of requests under way end with the races of now.
LEMMA HistoriesGrow ==
  ASSUME TypeOK, HistoriesAreTrue, RacesMove, NEW q \in Req
  PROVE  /\ names' \in Table
         /\ past'[q] \in Seq(Table)
         /\ \A k \in DOMAIN past[q] : k \in DOMAIN past'[q] /\ past'[q][k] = past[q][k]
         /\ UnderWay(q) => \E k \in DOMAIN past'[q] : past'[q][k] = names'
<1>1. names \in Table /\ past[q] \in Seq(Table)
  BY DEF TypeOK
<1> HIDE DEF Table
<1>2. CASE SameRaces
  BY <1>1, <1>2 DEF SameRaces, HistoriesAreTrue, UnderWay
<1>3. ASSUME NEW table \in Table, Becomes(table)
      PROVE  /\ names' \in Table
             /\ past'[q] \in Seq(Table)
             /\ \A k \in DOMAIN past[q] : k \in DOMAIN past'[q] /\ past'[q][k] = past[q][k]
             /\ UnderWay(q) => \E k \in DOMAIN past'[q] : past'[q][k] = names'
  <2>1. names' = table
    BY <1>3 DEF Becomes
  <2>2. CASE past'[q] = past[q] /\ (~UnderWay(q) \/ table = names)
    BY <1>1, <1>3, <2>1, <2>2 DEF HistoriesAreTrue, UnderWay
  <2>3. CASE past'[q] = Append(past[q], table)
    <3>1. past'[q] \in Seq(Table) /\ Len(past'[q]) = Len(past[q]) + 1 /\ Len(past[q]) \in Nat
      BY <1>1, <1>3, <2>3
    <3>2. DOMAIN past'[q] = 1 .. Len(past[q]) + 1 /\ DOMAIN past[q] = 1 .. Len(past[q])
      BY <1>1, <3>1
    <3>3. past'[q][Len(past[q]) + 1] = table
      BY <1>1, <2>3
    <3>4. \A k \in 1 .. Len(past[q]) : past'[q][k] = past[q][k]
      BY <1>1, <2>3
    <3>5. Len(past[q]) + 1 \in DOMAIN past'[q]
      BY <3>1, <3>2
    <3> QED
      BY <1>3, <2>1, <3>1, <3>2, <3>3, <3>4, <3>5
  <2> QED
    BY <1>3, <2>2, <2>3 DEF Becomes, UnderWay
<1> QED
  BY <1>2, <1>3 DEF RacesMove

LEMMA HistoriesAreTyped ==
  ASSUME TypeOK, HistoriesAreTrue, RacesMove
  PROVE  names' \in Table /\ past' \in [Req -> Seq(Table)]
<1>1. past' = [q \in Req |-> past'[q]]
  BY DEF TypeOK, RacesMove, SameRaces, Becomes
<1>2. names' \in Table
  BY DEF TypeOK, RacesMove, SameRaces, Becomes
<1>3. \A q \in Req : past'[q] \in Seq(Table)
  BY HistoriesGrow
<1> HIDE DEF Table
<1> QED
  BY <1>1, <1>2, <1>3

-----------------------------------------------------------------------------
(* How a statement can end.                                                *)

\* With the next statement of the request.
LEMMA GoingOnKeepsInv ==
  ASSUME BaseInv, NEW r \in Req, UnderWay(r),
         NEW statement \in StatementsOf(call[r].op), GoTo(r, statement),
         UNCHANGED <<names, rows, call, past>>,
         \/ UNCHANGED base
         \/ \E row \in Row : base' = [base EXCEPT ![r] = row],
         UNCHANGED snapshot \/ snapshot' = [snapshot EXCEPT ![r] = names],
         statement \in {"begin", "write"} /\ call[r].op = "patch" => base'[r] # None,
         statement \in {"write", "confirm", "recheck"} =>
           \/ snapshot'[r] = names
           \/ snapshot' = snapshot /\ pc[r] \in {"write", "confirm", "recheck"}
  PROVE  BaseInv'
<1>1. /\ TypeOK /\ RequestsFit /\ HistoriesAreTrue /\ ShownNamesWereTrue /\ ReferencesHold
      /\ pc' = [pc EXCEPT ![r] = statement] /\ reply' = reply
      /\ pc[r] \notin {"idle", "done"}
  BY DEF BaseInv, GoTo, UnderWay
<1>2. call[r] # None /\ call[r] \in Call
  BY <1>1 DEF RequestsFit, TypeOK
<1>3. statement \in Statement
  BY <1>2 DEF StatementsOf, Call, RaceOps, CharacterOps, Statement
<1>4. statement \notin {"idle", "done"}
  BY <1>3 DEF Statement
<1> HIDE DEF Table
<1>5. TypeOK'
  BY <1>1, <1>3 DEF TypeOK
<1>6. \A q \in Req \ {r} : pc'[q] = pc[q] /\ base'[q] = base[q] /\ snapshot'[q] = snapshot[q]
  BY <1>1 DEF TypeOK
<1>7. pc'[r] = statement
  BY <1>1 DEF TypeOK
<1>8. RequestsFit'
  <2>1. ASSUME NEW q \in Req, q # r
        PROVE  /\ call'[q] = None <=> pc'[q] = "idle"
               /\ reply'[q] = None <=> pc'[q] # "done"
               /\ call'[q] # None => CallFits(q, call'[q])
               /\ pc'[q] \notin {"idle", "done"} => pc'[q] \in StatementsOf(call'[q].op)
               /\ pc'[q] \in {"begin", "write"} /\ call'[q].op = "patch" => base'[q] # None
    BY <1>1, <1>6, <2>1 DEF RequestsFit
  <2>2. /\ call'[r] = None <=> pc'[r] = "idle"
        /\ reply'[r] = None <=> pc'[r] # "done"
        /\ call'[r] # None => CallFits(r, call'[r])
        /\ pc'[r] \notin {"idle", "done"} => pc'[r] \in StatementsOf(call'[r].op)
        /\ pc'[r] \in {"begin", "write"} /\ call'[r].op = "patch" => base'[r] # None
    BY <1>1, <1>2, <1>4, <1>7 DEF RequestsFit
  <2> QED
    BY <2>1, <2>2 DEF RequestsFit, CallFits
<1>9. HistoriesAreTrue'
  BY <1>1, <1>6, <1>7 DEF HistoriesAreTrue
<1>10. ShownNamesWereTrue'
  BY <1>1 DEF ShownNamesWereTrue
<1>11. ReferencesHold'
  BY <1>1 DEF ReferencesHold, Present, Listed
<1> QED
  BY <1>5, <1>8, <1>9, <1>10, <1>11 DEF BaseInv

\* The names shown are in the history of r after the step.
WereTrueThen(r, shown) == \A s \in shown : \E k \in DOMAIN past'[r] : past'[r][k][s[1]] = s[2]

\* With the answer.
LEMMA AnswersKeepInv ==
  ASSUME BaseInv, NEW r \in Req, UnderWay(r), RacesMove,
         NEW outcome \in Outcome, NEW shown \in SUBSET (RaceId \X Name),
         Answer(r, outcome, shown), WereTrueThen(r, shown),
         UNCHANGED <<call, base, snapshot>>,
         rows' \in [CharacterId -> Row \cup {None}], ReferencesHold'
  PROVE  BaseInv'
<1>1. /\ TypeOK /\ RequestsFit /\ HistoriesAreTrue /\ ShownNamesWereTrue
      /\ pc' = [pc EXCEPT ![r] = "done"]
      /\ reply' = [reply EXCEPT ![r] = [outcome |-> outcome, shown |-> shown]]
      /\ pc[r] \notin {"idle", "done"}
  BY DEF BaseInv, Answer, UnderWay
<1>2. [outcome |-> outcome, shown |-> shown] \in Reply
  BY DEF Reply
<1>3. names' \in Table /\ past' \in [Req -> Seq(Table)]
  BY <1>1, HistoriesAreTyped
<1> HIDE DEF Table
<1>4. TypeOK'
  BY <1>1, <1>2, <1>3 DEF TypeOK
<1>5. \A q \in Req \ {r} : pc'[q] = pc[q] /\ reply'[q] = reply[q]
  BY <1>1 DEF TypeOK
<1>6. pc'[r] = "done" /\ reply'[r] # None /\ reply'[r].shown = shown
  BY <1>1, <1>2, NoneIsNoData DEF TypeOK
<1>7. RequestsFit'
  <2>1. ASSUME NEW q \in Req
        PROVE  /\ call'[q] = None <=> pc'[q] = "idle"
               /\ reply'[q] = None <=> pc'[q] # "done"
               /\ call'[q] # None => CallFits(q, call'[q])
               /\ pc'[q] \notin {"idle", "done"} => pc'[q] \in StatementsOf(call'[q].op)
               /\ pc'[q] \in {"begin", "write"} /\ call'[q].op = "patch" => base'[q] # None
    BY <1>1, <1>5, <1>6 DEF RequestsFit
  <2> QED
    BY <2>1 DEF RequestsFit, CallFits
<1>8. HistoriesAreTrue'
  <2> SUFFICES ASSUME NEW q \in Req
               PROVE  /\ pc'[q] \notin {"idle", "done"} => \E k \in DOMAIN past'[q] : past'[q][k] = names'
                      /\ pc'[q] \in {"write", "confirm", "recheck"} =>
                           \E k \in DOMAIN past'[q] : past'[q][k] = snapshot'[q]
    BY DEF HistoriesAreTrue
  <2>1. /\ \A k \in DOMAIN past[q] : k \in DOMAIN past'[q] /\ past'[q][k] = past[q][k]
        /\ UnderWay(q) => \E k \in DOMAIN past'[q] : past'[q][k] = names'
    BY <1>1, HistoriesGrow
  <2> QED
    BY <1>1, <1>5, <1>6, <2>1 DEF HistoriesAreTrue, UnderWay
<1>9. ShownNamesWereTrue'
  <2> SUFFICES ASSUME NEW q \in Req, reply'[q] # None, NEW s \in reply'[q].shown
               PROVE  \E k \in DOMAIN past'[q] : past'[q][k][s[1]] = s[2]
    BY DEF ShownNamesWereTrue
  <2>1. CASE q = r
    BY <1>6, <2>1 DEF WereTrueThen
  <2>2. CASE q # r
    <3>1. PICK k \in DOMAIN past[q] : past[q][k][s[1]] = s[2]
      BY <1>1, <1>5, <2>2 DEF ShownNamesWereTrue
    <3> QED
      BY <1>1, <3>1, HistoriesGrow
  <2> QED
    BY <2>1, <2>2
<1> QED
  BY <1>4, <1>7, <1>8, <1>9 DEF BaseInv

\* The rows stay: their races do, too, unless the table loses one of them.
LEMMA SameRowsHold ==
  ASSUME BaseInv, UNCHANGED rows, \A i \in RaceId : Listed(i) /\ Referenced(i) => names'[i] # None
  PROVE  rows' \in [CharacterId -> Row \cup {None}] /\ ReferencesHold'
<1>1. TypeOK /\ ReferencesHold
  BY DEF BaseInv
<1>2. ASSUME NEW c \in CharacterId, rows[c] # None PROVE names'[rows[c].race] # None
  <2>1. rows[c].race \in RaceId
    BY <1>1, <1>2 DEF TypeOK, Row
  <2> QED
    BY <1>1, <1>2, <2>1 DEF ReferencesHold, Present, Referenced
<1> QED
  BY <1>1, <1>2 DEF TypeOK, ReferencesHold, Present, Listed

\* One row is written, with a race that is there.
LEMMA WrittenRowHolds ==
  ASSUME BaseInv, UNCHANGED names, NEW c \in CharacterId, NEW row \in Row, Listed(row.race),
         rows' = [rows EXCEPT ![c] = row]
  PROVE  rows' \in [CharacterId -> Row \cup {None}] /\ ReferencesHold'
<1>1. TypeOK /\ ReferencesHold
  BY DEF BaseInv
<1>2. rows' \in [CharacterId -> Row \cup {None}]
  BY <1>1 DEF TypeOK
<1>3. ASSUME NEW d \in CharacterId, rows'[d] # None PROVE names[rows'[d].race] # None
  <2>1. CASE d = c
    BY <1>1, <2>1 DEF TypeOK, Listed
  <2>2. CASE d # c
    BY <1>1, <1>3, <2>2 DEF TypeOK, ReferencesHold, Present, Listed
  <2> QED
    BY <2>1, <2>2
<1> QED
  BY <1>2, <1>3 DEF ReferencesHold, Present, Listed

\* A refusal shows nothing and changes nothing.
LEMMA RefusalsKeepInv ==
  ASSUME BaseInv, NEW r \in Req, UnderWay(r), NEW outcome \in Outcome, Refuse(r, outcome),
         UNCHANGED <<names, rows, call, base, snapshot, past>>
  PROVE  BaseInv'
<1>1. rows' \in [CharacterId -> Row \cup {None}] /\ ReferencesHold'
  BY SameRowsHold DEF Listed
<1>2. RacesMove /\ WereTrueThen(r, {}) /\ {} \in SUBSET (RaceId \X Name)
  BY DEF RacesMove, SameRaces, WereTrueThen
<1> QED
  BY <1>1, <1>2, AnswersKeepInv DEF Refuse
-----------------------------------------------------------------------------
(* The statements of /races.                                               *)

LEMMA RequestsAreTyped ==
  ASSUME BaseInv, NEW r \in Req, UnderWay(r)
  PROVE  call[r] \in Call /\ CallFits(r, call[r]) /\ pc[r] \in StatementsOf(call[r].op)
  BY DEF BaseInv, TypeOK, RequestsFit, UnderWay

\* What a name of the table or of the past is worth in an answer.
LEMMA NewNameIsTrue ==
  ASSUME BaseInv, NEW r \in Req, UnderWay(r), NEW i \in RaceId, NEW n \in Name,
         Becomes([names EXCEPT ![i] = n])
  PROVE  /\ RacesMove
         /\ WereTrueThen(r, {<<i, n>>})
         /\ {<<i, n>>} \in SUBSET (RaceId \X Name)
<1>1. [names EXCEPT ![i] = n] \in Table
  BY DEF BaseInv, TypeOK, Table
<1>2. RacesMove
  BY <1>1 DEF RacesMove
<1>3. \E k \in DOMAIN past'[r] : past'[r][k] = names'
  BY <1>2, HistoriesGrow DEF BaseInv
<1>4. names'[i] = n
  BY DEF Becomes, BaseInv, TypeOK, Table
<1> QED
  BY <1>2, <1>3, <1>4 DEF WereTrueThen

LEMMA TableOfNowIsTrue ==
  ASSUME BaseInv, NEW r \in Req, UnderWay(r), SameRaces, NEW shown \in SUBSET (RaceId \X Name),
         \A s \in shown : names[s[1]] = s[2]
  PROVE  RacesMove /\ WereTrueThen(r, shown)
<1>1. \E k \in DOMAIN past[r] : past[r][k] = names
  BY DEF BaseInv, HistoriesAreTrue, UnderWay
<1> QED
  BY <1>1 DEF RacesMove, SameRaces, WereTrueThen

LEMMA CreateRaceKeepsInv ==
  ASSUME BaseInv, NEW r \in Req, CreateRace(r)
  PROVE  BaseInv'
<1> DEFINE i == call[r].id
           n == call[r].name
<1>1. UnderWay(r)
  BY DEF CreateRace, UnderWay
<1>2. i \in RaceId /\ n \in Name
  BY <1>1, RequestsAreTyped DEF CreateRace, StatementsOf, CallFits, Call, RaceOps, CharacterOps
<1>3. CASE Refuse(r, "duplicate") /\ SameRaces
  BY <1>1, <1>3, RefusalsKeepInv DEF CreateRace, SameRaces, Outcome
<1>4. CASE Becomes([names EXCEPT ![i] = n]) /\ Acknowledge(r, "created", {<<i, n>>})
  <2>1. /\ RacesMove /\ WereTrueThen(r, {<<i, n>>}) /\ {<<i, n>>} \in SUBSET (RaceId \X Name)
        /\ WereTrueThen(r, {}) /\ {} \in SUBSET (RaceId \X Name)
    BY <1>1, <1>2, <1>4, NewNameIsTrue DEF WereTrueThen
  <2>2. \A j \in RaceId : Listed(j) /\ Referenced(j) => names'[j] # None
    BY <1>2, <1>4, NoneIsNoData DEF Becomes, Listed, BaseInv, TypeOK, Table
  <2>3. rows' \in [CharacterId -> Row \cup {None}] /\ ReferencesHold' /\ UNCHANGED <<call, base, snapshot>>
    BY <2>2, SameRowsHold DEF CreateRace
  <2> QED
    BY <1>1, <1>4, <2>1, <2>3, AnswersKeepInv DEF Acknowledge, Refuse, Outcome
<1> QED
  BY <1>3, <1>4 DEF CreateRace

LEMMA FindRaceKeepsInv ==
  ASSUME BaseInv, NEW r \in Req, FindRace(r)
  PROVE  BaseInv'
<1>1. UnderWay(r)
  BY DEF FindRace, UnderWay
<1>2. call[r].op = "rename"
  BY <1>1, RequestsAreTyped DEF FindRace, StatementsOf, Call, RaceOps, CharacterOps
<1>3. CASE Refuse(r, "notFound")
  BY <1>1, <1>3, RefusalsKeepInv DEF FindRace, Outcome
<1>4. CASE GoTo(r, "updateRace")
  BY <1>1, <1>2, <1>4, GoingOnKeepsInv DEF FindRace, StatementsOf
<1> QED
  BY <1>3, <1>4 DEF FindRace

LEMMA UpdateRaceKeepsInv ==
  ASSUME BaseInv, NEW r \in Req, UpdateRace(r)
  PROVE  BaseInv'
<1> DEFINE i == call[r].id
           n == call[r].name
<1>1. UnderWay(r)
  BY DEF UpdateRace, UnderWay
<1>2. i \in RaceId /\ n \in Name
  BY <1>1, RequestsAreTyped DEF UpdateRace, StatementsOf, CallFits, Call, RaceOps, CharacterOps
<1>3. CASE (Refuse(r, "duplicate") \/ Refuse(r, "notFound")) /\ SameRaces
  BY <1>1, <1>3, RefusalsKeepInv DEF UpdateRace, SameRaces, Outcome
<1>4. CASE Becomes([names EXCEPT ![i] = n]) /\ Acknowledge(r, "shown", {<<i, n>>})
  <2>1. /\ RacesMove /\ WereTrueThen(r, {<<i, n>>}) /\ {<<i, n>>} \in SUBSET (RaceId \X Name)
        /\ WereTrueThen(r, {}) /\ {} \in SUBSET (RaceId \X Name)
    BY <1>1, <1>2, <1>4, NewNameIsTrue DEF WereTrueThen
  <2>2. \A j \in RaceId : Listed(j) /\ Referenced(j) => names'[j] # None
    BY <1>2, <1>4, NoneIsNoData DEF Becomes, Listed, BaseInv, TypeOK, Table
  <2>3. rows' \in [CharacterId -> Row \cup {None}] /\ ReferencesHold' /\ UNCHANGED <<call, base, snapshot>>
    BY <2>2, SameRowsHold DEF UpdateRace
  <2> QED
    BY <1>1, <1>4, <2>1, <2>3, AnswersKeepInv DEF Acknowledge, Refuse, Outcome
<1> QED
  BY <1>3, <1>4 DEF UpdateRace

LEMMA DeleteRaceKeepsInv ==
  ASSUME BaseInv, NEW r \in Req, DeleteRace(r)
  PROVE  BaseInv'
<1> DEFINE i == call[r].id
<1>1. UnderWay(r)
  BY DEF DeleteRace, UnderWay
<1>2. i \in RaceId
  BY <1>1, RequestsAreTyped DEF DeleteRace, StatementsOf, CallFits, Call, RaceOps, CharacterOps
<1>3. CASE (Refuse(r, "inUse") \/ Refuse(r, "notFound")) /\ SameRaces
  BY <1>1, <1>3, RefusalsKeepInv DEF DeleteRace, SameRaces, Outcome
<1>4. CASE ~Referenced(i) /\ Becomes([names EXCEPT ![i] = None]) /\ Acknowledge(r, "deleted", {})
  <2>1. [names EXCEPT ![i] = None] \in Table
    BY DEF BaseInv, TypeOK, Table
  <2>2. RacesMove /\ WereTrueThen(r, {}) /\ {} \in SUBSET (RaceId \X Name)
    BY <1>4, <2>1 DEF RacesMove, WereTrueThen
  <2>3. \A j \in RaceId : Listed(j) /\ Referenced(j) => names'[j] # None
    BY <1>2, <1>4 DEF Becomes, Listed, BaseInv, TypeOK, Table
  <2>4. rows' \in [CharacterId -> Row \cup {None}] /\ ReferencesHold' /\ UNCHANGED <<call, base, snapshot>>
    BY <2>3, SameRowsHold DEF DeleteRace
  <2> QED
    BY <1>1, <1>4, <2>2, <2>4, AnswersKeepInv DEF Acknowledge, Refuse, Outcome
<1> QED
  BY <1>3, <1>4 DEF DeleteRace

LEMMA ReadersKeepInv ==
  ASSUME BaseInv, NEW r \in Req, GetRace(r) \/ ListRaces(r)
  PROVE  BaseInv'
<1>1. UnderWay(r) /\ UNCHANGED <<names, rows, call, base, snapshot, past>> /\ SameRaces
  BY DEF GetRace, ListRaces, UnderWay, SameRaces
<1>2. rows' \in [CharacterId -> Row \cup {None}] /\ ReferencesHold'
  BY <1>1, SameRowsHold DEF Listed
<1>3. \A i \in RaceId : Listed(i) => names[i] \in Name
  BY DEF BaseInv, TypeOK, Table, Listed
<1>4. CASE Refuse(r, "notFound")
  BY <1>1, <1>4, RefusalsKeepInv DEF Outcome
<1>5. CASE GetRace(r) /\ ~Refuse(r, "notFound")
  <2> DEFINE shown == {<<call[r].id, names[call[r].id]>>}
  <2>1. Listed(call[r].id) /\ Answer(r, "shown", shown)
    BY <1>5 DEF GetRace
  <2>2. call[r].id \in RaceId
    BY <1>1, <1>5, RequestsAreTyped DEF GetRace, StatementsOf, CallFits, Call, RaceOps, CharacterOps
  <2>3. shown \in SUBSET (RaceId \X Name) /\ \A s \in shown : names[s[1]] = s[2]
    BY <1>3, <2>1, <2>2
  <2> HIDE DEF shown
  <2> QED
    BY <1>1, <1>2, <2>1, <2>3, TableOfNowIsTrue, AnswersKeepInv DEF Outcome
<1>6. CASE ListRaces(r)
  <2> DEFINE shown == {<<i, names[i]>> : i \in {j \in RaceId : Listed(j)}}
  <2>1. Answer(r, "shown", shown)
    BY <1>6 DEF ListRaces
  <2>2. shown \in SUBSET (RaceId \X Name) /\ \A s \in shown : names[s[1]] = s[2]
    BY <1>3
  <2> HIDE DEF shown
  <2> QED
    BY <1>1, <1>2, <2>1, <2>2, TableOfNowIsTrue, AnswersKeepInv DEF Outcome
<1> QED
  BY <1>4, <1>5, <1>6

-----------------------------------------------------------------------------
(* The statements of /characters.                                          *)

LEMMA JoinedIsTrue ==
  ASSUME BaseInv, NEW r \in Req, UnderWay(r), SameRaces, NEW i \in RaceId, NEW table \in Table,
         \E k \in DOMAIN past[r] : past[r][k] = table
  PROVE  /\ RacesMove
         /\ WereTrueThen(r, Joined(table, i)) /\ Joined(table, i) \in SUBSET (RaceId \X Name)
         /\ WereTrueThen(r, {}) /\ {} \in SUBSET (RaceId \X Name)
<1>1. Joined(table, i) = {} \/ (Joined(table, i) = {<<i, table[i]>>} /\ table[i] \in Name)
  BY DEF Joined, Table
<1>2. WereTrueThen(r, {<<i, table[i]>>})
  BY DEF SameRaces, WereTrueThen
<1> QED
  BY <1>1, <1>2 DEF RacesMove, WereTrueThen

LEMMA SnapshotIsTrue ==
  ASSUME BaseInv, NEW r \in Req, pc[r] \in {"write", "confirm", "recheck"}
  PROVE  snapshot[r] \in Table /\ \E k \in DOMAIN past[r] : past[r][k] = snapshot[r]
<1>1. PICK k \in DOMAIN past[r] : past[r][k] = snapshot[r]
  BY DEF BaseInv, HistoriesAreTrue
<1>2. past[r] \in Seq(Table)
  BY DEF BaseInv, TypeOK
<1> HIDE DEF Table
<1> QED
  BY <1>1, <1>2

LEMMA InsertKeepsInv ==
  ASSUME BaseInv, NEW r \in Req, InsertCharacter(r)
  PROVE  BaseInv'
<1>1. UnderWay(r) /\ UNCHANGED <<names, call, base, snapshot, past>> /\ SameRaces
  BY DEF InsertCharacter, UnderWay, SameRaces
<1>2. call[r].id \in CharacterId /\ call[r].race \in RaceId
  BY <1>1, RequestsAreTyped DEF InsertCharacter, StatementsOf, CallFits, Call, RaceOps, CharacterOps
<1>3. CASE Listed(call[r].race)
  <2> DEFINE row == [race |-> call[r].race, version |-> 1, stage |-> "pending"]
  <2>1. row \in Row /\ row.race = call[r].race
    BY <1>2 DEF Row
  <2>2. rows' = [rows EXCEPT ![call[r].id] = row] /\ Acknowledge(r, "created", {})
    BY <1>3 DEF InsertCharacter
  <2> HIDE DEF row
  <2>3. rows' \in [CharacterId -> Row \cup {None}] /\ ReferencesHold'
    BY <1>1, <1>2, <1>3, <2>1, <2>2, WrittenRowHolds
  <2>4. RacesMove /\ WereTrueThen(r, {}) /\ {} \in SUBSET (RaceId \X Name)
    BY <1>1 DEF RacesMove, WereTrueThen
  <2> QED
    BY <1>1, <2>2, <2>3, <2>4, AnswersKeepInv DEF Acknowledge, Refuse, Outcome
<1>4. CASE Refuse(r, "raceNotFound") /\ UNCHANGED rows
  BY <1>1, <1>4, RefusalsKeepInv DEF Outcome
<1> QED
  BY <1>3, <1>4 DEF InsertCharacter

LEMMA GetCharacterKeepsInv ==
  ASSUME BaseInv, NEW r \in Req, GetCharacter(r)
  PROVE  BaseInv'
<1> DEFINE c == call[r].id
<1>1. UnderWay(r) /\ UNCHANGED <<names, rows, call, snapshot, past>> /\ SameRaces
  BY DEF GetCharacter, UnderWay, SameRaces
<1>2. c \in CharacterId
  BY <1>1, RequestsAreTyped DEF GetCharacter, StatementsOf, CallFits, Call, RaceOps, CharacterOps
<1>3. CASE Refuse(r, "notFound") /\ UNCHANGED base
  BY <1>1, <1>3, RefusalsKeepInv DEF Outcome
<1>4. CASE Active(c)
  <2>1. rows[c] \in Row /\ rows[c].race \in RaceId
    BY <1>2, <1>4 DEF Active, Present, BaseInv, TypeOK, Row
  <2>2. CASE Answer(r, "shown", Joined(names, rows[c].race)) /\ UNCHANGED base
    <3>1. names \in Table /\ \E k \in DOMAIN past[r] : past[r][k] = names
      BY <1>1 DEF BaseInv, TypeOK, HistoriesAreTrue, UnderWay
    <3>2. /\ RacesMove /\ WereTrueThen(r, Joined(names, rows[c].race))
          /\ Joined(names, rows[c].race) \in SUBSET (RaceId \X Name)
      BY <1>1, <2>1, <3>1, JoinedIsTrue
    <3>3. rows' \in [CharacterId -> Row \cup {None}] /\ ReferencesHold'
      BY <1>1, SameRowsHold DEF Listed
    <3> QED
      BY <1>1, <2>2, <3>2, <3>3, AnswersKeepInv DEF Outcome
  <2>3. CASE call[r].op = "patch" /\ base' = [base EXCEPT ![r] = rows[c]] /\ GoTo(r, "begin")
    <3>1. base'[r] # None
      BY <2>1, <2>3, NoneIsNoData DEF BaseInv, TypeOK
    <3>2. "begin" \in StatementsOf(call[r].op)
      BY <2>3 DEF StatementsOf
    <3> QED
      BY <1>1, <2>1, <2>3, <3>1, <3>2, GoingOnKeepsInv
  <2> QED
    BY <1>4, <2>2, <2>3 DEF GetCharacter
<1> QED
  BY <1>3, <1>4 DEF GetCharacter

LEMMA BeginKeepsInv ==
  ASSUME BaseInv, NEW r \in Req, BeginStatement(r)
  PROVE  BaseInv'
<1>1. UnderWay(r) /\ pc[r] = "begin" /\ UNCHANGED <<names, rows, call, base, past>>
      /\ snapshot' = [snapshot EXCEPT ![r] = names]
  BY DEF BeginStatement, UnderWay
<1>2. snapshot'[r] = names
  BY <1>1 DEF BaseInv, TypeOK
<1>3. call[r].op \in {"patch", "confirm"}
  BY <1>1, RequestsAreTyped DEF StatementsOf, Call, RaceOps, CharacterOps
<1>4. call[r].op = "patch" => base'[r] # None
  BY <1>1 DEF BaseInv, RequestsFit
<1>5. PICK statement \in StatementsOf(call[r].op) : GoTo(r, statement)
  BY <1>3 DEF BeginStatement, StatementsOf
<1> QED
  BY <1>1, <1>2, <1>4, <1>5, GoingOnKeepsInv

LEMMA UpdateKeepsInv ==
  ASSUME BaseInv, NEW r \in Req, UpdateCharacter(r)
  PROVE  BaseInv'
<1> DEFINE c == call[r].id
<1>1. UnderWay(r) /\ pc[r] = "write" /\ UNCHANGED <<names, call, base, snapshot, past>> /\ SameRaces
  BY DEF UpdateCharacter, UnderWay, SameRaces
<1>2. c \in CharacterId /\ NewRace(r) \in RaceId
  <2>1. call[r] \in Call /\ call[r].op = "patch" /\ c \in CharacterId
    BY <1>1, RequestsAreTyped DEF StatementsOf, CallFits, Call, RaceOps, CharacterOps
  <2>2. base[r] \in Row
    BY <1>1, <2>1 DEF BaseInv, RequestsFit, TypeOK
  <2> QED
    BY <2>1, <2>2 DEF NewRace, Call, Row
<1>3. CASE (Refuse(r, "notFound") \/ Refuse(r, "versionConflict") \/ Refuse(r, "raceNotFound"))
           /\ UNCHANGED rows
  BY <1>1, <1>3, RefusalsKeepInv DEF Outcome
<1>4. CASE /\ Active(c)
           /\ Listed(NewRace(r))
           /\ rows' = [rows EXCEPT ![c].race = NewRace(r), ![c].version = @ + 1]
           /\ Acknowledge(r, "shown", Joined(snapshot[r], NewRace(r)))
  <2> DEFINE row == [rows[c] EXCEPT !.race = NewRace(r), !.version = @ + 1]
  <2>1. rows[c] \in Row
    BY <1>2, <1>4 DEF Active, Present, BaseInv, TypeOK
  <2>2. row \in Row /\ row.race = NewRace(r) /\ rows' = [rows EXCEPT ![c] = row]
    BY <1>2, <1>4, <2>1 DEF Row, BaseInv, TypeOK
  <2>5. Listed(row.race)
    BY <1>4, <2>2 DEF Listed
  <2> HIDE DEF row
  <2>3. rows' \in [CharacterId -> Row \cup {None}] /\ ReferencesHold'
    BY <1>1, <1>2, <2>2, <2>5, WrittenRowHolds
  <2>4. /\ RacesMove
        /\ WereTrueThen(r, Joined(snapshot[r], NewRace(r)))
        /\ Joined(snapshot[r], NewRace(r)) \in SUBSET (RaceId \X Name)
        /\ WereTrueThen(r, {}) /\ {} \in SUBSET (RaceId \X Name)
    BY <1>1, <1>2, SnapshotIsTrue, JoinedIsTrue
  <2> QED
    BY <1>1, <1>4, <2>3, <2>4, AnswersKeepInv DEF Acknowledge, Refuse, Outcome
<1> QED
  BY <1>3, <1>4 DEF UpdateCharacter

LEMMA ConfirmKeepsInv ==
  ASSUME BaseInv, NEW r \in Req, ConfirmPending(r) \/ ConfirmRecheck(r)
  PROVE  BaseInv'
<1> DEFINE c == call[r].id
<1>1. /\ UnderWay(r) /\ pc[r] \in {"confirm", "recheck"}
      /\ UNCHANGED <<names, call, base, snapshot, past>> /\ SameRaces
  BY DEF ConfirmPending, ConfirmRecheck, UnderWay, SameRaces
<1>2. c \in CharacterId /\ call[r].op = "confirm"
  BY <1>1, RequestsAreTyped DEF StatementsOf, CallFits, Call, RaceOps, CharacterOps
<1>3. ASSUME Present(c)
      PROVE  /\ rows[c] \in Row /\ rows[c].race \in RaceId /\ Listed(rows[c].race)
             /\ RacesMove
             /\ WereTrueThen(r, Joined(snapshot[r], rows[c].race))
             /\ Joined(snapshot[r], rows[c].race) \in SUBSET (RaceId \X Name)
             /\ WereTrueThen(r, {}) /\ {} \in SUBSET (RaceId \X Name)
  <2>1. rows[c] \in Row /\ rows[c].race \in RaceId /\ Listed(rows[c].race)
    BY <1>2, <1>3 DEF Present, BaseInv, TypeOK, Row, ReferencesHold
  <2> QED
    BY <1>1, <2>1, SnapshotIsTrue, JoinedIsTrue
<1>4. CASE /\ Pending(c)
           /\ rows' = [rows EXCEPT ![c].stage = "active"]
           /\ Acknowledge(r, "shown", Joined(snapshot[r], rows[c].race))
  <2> DEFINE row == [rows[c] EXCEPT !.stage = "active"]
  <2>1. Present(c) /\ rows[c] \in Row
    BY <1>3, <1>4 DEF Pending
  <2>2. row \in Row /\ row.race = rows[c].race /\ rows' = [rows EXCEPT ![c] = row]
    BY <1>2, <1>4, <2>1 DEF Row, BaseInv, TypeOK
  <2>4. Listed(row.race)
    BY <1>3, <2>1, <2>2 DEF Listed
  <2> HIDE DEF row
  <2>3. rows' \in [CharacterId -> Row \cup {None}] /\ ReferencesHold'
    BY <1>1, <1>2, <2>2, <2>4, WrittenRowHolds
  <2> QED
    BY <1>1, <1>3, <1>4, <2>1, <2>3, AnswersKeepInv DEF Acknowledge, Refuse, Outcome
<1>5. CASE GoTo(r, "recheck") /\ UNCHANGED rows /\ pc[r] = "confirm"
  <2>1. "recheck" \in StatementsOf(call[r].op)
    BY <1>2 DEF StatementsOf
  <2> QED
    BY <1>1, <1>2, <1>5, <2>1, GoingOnKeepsInv
<1>6. CASE Active(c) /\ Answer(r, "shown", Joined(snapshot[r], rows[c].race)) /\ UNCHANGED rows
  <2>1. rows' \in [CharacterId -> Row \cup {None}] /\ ReferencesHold'
    BY <1>1, <1>6, SameRowsHold DEF Listed
  <2> QED
    BY <1>1, <1>3, <1>6, <2>1, AnswersKeepInv DEF Active, Outcome
<1>7. CASE Refuse(r, "notFound") /\ UNCHANGED rows
  BY <1>1, <1>7, RefusalsKeepInv DEF Outcome
<1> QED
  BY <1>4, <1>5, <1>6, <1>7 DEF ConfirmPending, ConfirmRecheck

-----------------------------------------------------------------------------
(* Arrivals, and what happens without a request.                           *)

LEMMA ArrivalKeepsInv ==
  ASSUME BaseInv, NEW r \in Req, Arrive(r)
  PROVE  BaseInv'
<1>1. PICK c \in CallsOf(r) :
        /\ call' = [call EXCEPT ![r] = c]
        /\ pc' = [pc EXCEPT ![r] = FirstStatement(c.op)]
  BY DEF Arrive
<1>2. /\ TypeOK /\ RequestsFit /\ HistoriesAreTrue /\ ShownNamesWereTrue /\ ReferencesHold
      /\ pc[r] = "idle"
      /\ past' = [past EXCEPT ![r] = <<names>>]
      /\ UNCHANGED <<names, rows, base, snapshot, reply>>
  BY DEF BaseInv, Arrive
<1>3. c \in Call /\ c # None /\ CallFits(r, c)
  BY <1>2, CallsAreTyped
<1>4. /\ FirstStatement(c.op) \in Statement
      /\ FirstStatement(c.op) \in StatementsOf(c.op)
      /\ FirstStatement(c.op) \notin {"idle", "done", "write", "confirm", "recheck"}
      /\ ~(FirstStatement(c.op) = "begin" /\ c.op = "patch")
  BY <1>3 DEF FirstStatement, Statement, StatementsOf, Call, RaceOps, CharacterOps
<1>5. names \in Table /\ past \in [Req -> Seq(Table)]
  BY <1>2 DEF TypeOK
<1> HIDE DEF Table
<1>6. TypeOK'
  BY <1>1, <1>2, <1>3, <1>4, <1>5 DEF TypeOK
<1>7. /\ call'[r] = c /\ pc'[r] = FirstStatement(c.op) /\ past'[r] = <<names>> /\ reply[r] = None
      /\ \A q \in Req \ {r} : call'[q] = call[q] /\ pc'[q] = pc[q] /\ past'[q] = past[q]
  BY <1>1, <1>2, <1>5 DEF TypeOK, RequestsFit
<1>8. RequestsFit'
  <2>1. ASSUME NEW q \in Req
        PROVE  /\ call'[q] = None <=> pc'[q] = "idle"
               /\ reply'[q] = None <=> pc'[q] # "done"
               /\ call'[q] # None => CallFits(q, call'[q])
               /\ pc'[q] \notin {"idle", "done"} => pc'[q] \in StatementsOf(call'[q].op)
               /\ pc'[q] \in {"begin", "write"} /\ call'[q].op = "patch" => base'[q] # None
    <3>1. CASE q = r
      BY <1>2, <1>3, <1>4, <1>7, <3>1
    <3>2. CASE q # r
      BY <1>2, <1>7, <3>2 DEF RequestsFit
    <3> QED
      BY <3>1, <3>2
  <2> QED
    BY <2>1 DEF RequestsFit, CallFits
<1>9. HistoriesAreTrue'
  <2>1. 1 \in DOMAIN <<names>> /\ <<names>>[1] = names
    OBVIOUS
  <2> QED
    BY <1>2, <1>4, <1>7, <2>1 DEF HistoriesAreTrue
<1>10. ShownNamesWereTrue'
  BY <1>2, <1>7 DEF ShownNamesWereTrue
<1>11. ReferencesHold'
  BY <1>2 DEF ReferencesHold, Present, Listed
<1> QED
  BY <1>6, <1>8, <1>9, <1>10, <1>11 DEF BaseInv

LEMMA BackgroundKeepsInv ==
  ASSUME BaseInv, NEW c \in CharacterId, Reclaim(c) \/ SoftDelete(c)
  PROVE  BaseInv'
<1>1. UNCHANGED <<names, pc, call, base, snapshot, past, reply>> /\ Present(c)
  BY DEF Reclaim, SoftDelete, Pending, Active
<1>2. /\ TypeOK /\ RequestsFit /\ HistoriesAreTrue /\ ShownNamesWereTrue /\ ReferencesHold
      /\ rows[c] \in Row
  BY <1>1 DEF BaseInv, TypeOK, Present
<1>3. /\ rows' \in [CharacterId -> Row \cup {None}]
      /\ \A d \in CharacterId : rows'[d] # None => rows[d] # None /\ rows'[d].race = rows[d].race
  <2>1. CASE Reclaim(c)
    BY <1>2, <2>1 DEF Reclaim, TypeOK
  <2>2. CASE SoftDelete(c)
    <3> DEFINE row == [rows[c] EXCEPT !.stage = "deleted"]
    <3>1. row \in Row /\ row.race = rows[c].race /\ rows' = [rows EXCEPT ![c] = row]
      BY <1>2, <2>2 DEF SoftDelete, Row, TypeOK
    <3> HIDE DEF row
    <3> QED
      BY <1>1, <1>2, <3>1 DEF TypeOK, Present
  <2> QED
    BY <2>1, <2>2
<1> HIDE DEF Table
<1>4. TypeOK'
  BY <1>1, <1>2, <1>3 DEF TypeOK
<1>5. RequestsFit'
  BY <1>1, <1>2 DEF RequestsFit, CallFits
<1>6. HistoriesAreTrue' /\ ShownNamesWereTrue'
  BY <1>1, <1>2 DEF HistoriesAreTrue, ShownNamesWereTrue
<1>7. ReferencesHold'
  BY <1>1, <1>2, <1>3 DEF ReferencesHold, Present, Listed
<1> QED
  BY <1>4, <1>5, <1>6, <1>7 DEF BaseInv

LEMMA FailKeepsInv ==
  ASSUME BaseInv, NEW r \in Req, Fail(r)
  PROVE  BaseInv'
  BY RefusalsKeepInv DEF Fail, UnderWay, Outcome

LEMMA InitInv == Init => BaseInv
<1> SUFFICES ASSUME Init PROVE BaseInv
  OBVIOUS
<1>1. names \in Table
  BY DEF Init
<1>2. PICK row \in [Existing -> [race : Seeded, version : {1}, stage : {"pending", "active"}]] :
        rows = [c \in CharacterId |-> IF c \in Existing THEN row[c] ELSE None]
  BY DEF Init
<1>3. \A c \in Existing : row[c] \in Row /\ row[c].race \in Seeded
  BY DEF Row, RaceId
<1>4. TypeOK
  <2>1. rows \in [CharacterId -> Row \cup {None}]
    BY <1>2, <1>3
  <2>2. <<>> \in Seq(Table)
    OBVIOUS
  <2> QED
    BY <1>1, <2>1, <2>2 DEF Init, TypeOK
<1>5. RequestsFit /\ HistoriesAreTrue /\ ShownNamesWereTrue
  BY DEF Init, RequestsFit, HistoriesAreTrue, ShownNamesWereTrue
<1>6. ReferencesHold
  <2>1. \A i \in Seeded : names[i] # None
    BY DEF Init, RaceId
  <2> QED
    BY <1>2, <1>3, <2>1 DEF ReferencesHold, Present, Listed, CharacterId
<1> QED
  BY <1>4, <1>5, <1>6 DEF BaseInv

LEMMA StepInv == BaseInv /\ [Next]_vars => BaseInv'
<1> SUFFICES ASSUME BaseInv, [Next]_vars PROVE BaseInv'
  OBVIOUS
<1>1. ASSUME NEW r \in Req, Arrive(r) PROVE BaseInv'
  BY <1>1, ArrivalKeepsInv
<1>2. ASSUME NEW r \in Req, Serve(r) PROVE BaseInv'
  BY <1>2, CreateRaceKeepsInv, FindRaceKeepsInv, UpdateRaceKeepsInv, DeleteRaceKeepsInv, ReadersKeepInv,
     InsertKeepsInv, GetCharacterKeepsInv, BeginKeepsInv, UpdateKeepsInv, ConfirmKeepsInv, FailKeepsInv
     DEF Serve
<1>3. ASSUME NEW c \in CharacterId, Reclaim(c) \/ SoftDelete(c) PROVE BaseInv'
  BY <1>3, BackgroundKeepsInv
<1>4. CASE UNCHANGED vars
  <2> HIDE DEF Table
  <2> QED
    BY <1>4 DEF vars, BaseInv, TypeOK, RequestsFit, CallFits, HistoriesAreTrue, ShownNamesWereTrue,
                ReferencesHold, Present, Listed
<1> QED
  BY <1>1, <1>2, <1>3, <1>4 DEF Next

\* Types, what a request carries from statement to statement, true histories, and
\* a foreign key that no interleaving gets around.
LEMMA BaseInvariance == Spec => []BaseInv
  BY InitInv, StepInv, PTL DEF Spec

\* No answer shows a name that the race did not have while the request was under
\* way, although the answers of PATCH and confirm join in an older snapshot.
THEOREM NamesWereTrue == Spec => []ShownNamesWereTrue
<1>1. BaseInv => ShownNamesWereTrue
  BY DEF BaseInv
<1> QED
  BY <1>1, BaseInvariance, PTL
-----------------------------------------------------------------------------
(* No id comes back, and what follows for the name in an answer.           *)

\* What the steps have in common.  A race that was not listed and is, has been
\* put there by the request of its id, which is done with that.
LEMMA RequestsMoveOn ==
  ASSUME BaseInv, NEW r \in Req, Serve(r)
  PROVE  /\ UnderWay(r) /\ call' = call /\ RacesMove
         /\ pc'[r] # "idle" /\ \A q \in Req \ {r} : pc'[q] = pc[q]
         /\ \A q \in Req \ {r} : base'[q] = base[q] /\ snapshot'[q] = snapshot[q] /\ reply'[q] = reply[q]
         /\ \A i \in RaceId : names'[i] # None => names[i] # None \/ (i = r /\ pc'[r] = "done")
<1>1. TypeOK /\ RequestsFit
  BY DEF BaseInv
<1>2. CASE FindRace(r) \/ GetRace(r) \/ ListRaces(r) \/ InsertCharacter(r) \/ GetCharacter(r)
           \/ BeginStatement(r) \/ UpdateCharacter(r) \/ ConfirmPending(r) \/ ConfirmRecheck(r) \/ Fail(r)
  <2> HIDE DEF Table
  <2> QED
    BY <1>1, <1>2 DEF TypeOK, FindRace, GetRace, ListRaces, InsertCharacter, GetCharacter, BeginStatement,
       UpdateCharacter, ConfirmPending, ConfirmRecheck, Fail, UnderWay, RacesMove, SameRaces, GoTo,
       Acknowledge, Refuse, Answer
<1>3. CASE CreateRace(r)
  <2>1. pc[r] = "insertRace" /\ UNCHANGED <<call, base, snapshot>>
    BY <1>3 DEF CreateRace
  <2>2. call[r] \in Call /\ call[r].op = "create" /\ call[r].id = r /\ call[r].name \in Name
    BY <1>1, <2>1, RequestsAreTyped DEF UnderWay, StatementsOf, CallFits, Call, RaceOps, CharacterOps
  <2>3. PICK outcome, shown : Answer(r, outcome, shown)
    BY <1>3 DEF CreateRace, Acknowledge, Refuse
  <2>4. pc' = [pc EXCEPT ![r] = "done"] /\ reply' = [reply EXCEPT ![r] = [outcome |-> outcome, shown |-> shown]]
    BY <2>3 DEF Answer
  <2>5. CASE SameRaces
    BY <1>1, <2>1, <2>4, <2>5 DEF TypeOK, UnderWay, RacesMove, SameRaces
  <2>6. CASE Becomes([names EXCEPT ![r] = call[r].name])
    <3>1. [names EXCEPT ![r] = call[r].name] \in Table /\ names' = [names EXCEPT ![r] = call[r].name]
      BY <1>1, <2>2, <2>6 DEF TypeOK, Table, Becomes
    <3>2. \A i \in RaceId : names'[i] # None => names[i] # None \/ i = r
      BY <1>1, <3>1 DEF TypeOK, Table
    <3> HIDE DEF Table
    <3> QED
      BY <1>1, <2>1, <2>4, <2>6, <3>1, <3>2 DEF TypeOK, UnderWay, RacesMove
  <2> QED
    BY <1>3, <2>2, <2>5, <2>6 DEF CreateRace
<1>4. CASE UpdateRace(r) \/ DeleteRace(r)
  <2>1. pc[r] \in {"updateRace", "deleteRace"} /\ UNCHANGED <<call, base, snapshot>>
    BY <1>4 DEF UpdateRace, DeleteRace
  <2>2. call[r] \in Call /\ call[r].id \in RaceId /\ call[r].name \in Name \cup {None}
    BY <1>1, <2>1, RequestsAreTyped DEF UnderWay, StatementsOf, CallFits, Call, RaceOps, CharacterOps
  <2>3. pc[r] = "updateRace" => call[r].name \in Name
    BY <1>1, <2>1, RequestsAreTyped DEF UnderWay, StatementsOf, CallFits, Call, RaceOps, CharacterOps
  <2>4. PICK outcome, shown : Answer(r, outcome, shown)
    BY <1>4 DEF UpdateRace, DeleteRace, Acknowledge, Refuse
  <2>5. pc' = [pc EXCEPT ![r] = "done"] /\ reply' = [reply EXCEPT ![r] = [outcome |-> outcome, shown |-> shown]]
    BY <2>4 DEF Answer
  <2>6. CASE SameRaces
    BY <1>1, <2>1, <2>5, <2>6 DEF TypeOK, UnderWay, RacesMove, SameRaces
  <2>7. ASSUME NEW n \in Name \cup {None}, Listed(call[r].id), Becomes([names EXCEPT ![call[r].id] = n])
        PROVE  RacesMove /\ \A i \in RaceId : names'[i] # None => names[i] # None
    <3>1. [names EXCEPT ![call[r].id] = n] \in Table /\ names' = [names EXCEPT ![call[r].id] = n]
      BY <1>1, <2>2, <2>7 DEF TypeOK, Table, Becomes
    <3>2. \A i \in RaceId : names'[i] # None => names[i] # None
      BY <1>1, <2>7, <3>1 DEF TypeOK, Table, Listed
    <3> HIDE DEF Table
    <3> QED
      BY <2>7, <3>1, <3>2 DEF RacesMove
  <2>8. CASE ~SameRaces
    <3>1. RacesMove /\ \A i \in RaceId : names'[i] # None => names[i] # None
      BY <1>4, <2>3, <2>7, <2>8 DEF UpdateRace, DeleteRace
    <3> HIDE DEF Table
    <3> QED
      BY <1>1, <2>1, <2>5, <3>1 DEF TypeOK, UnderWay
  <2> QED
    BY <2>6, <2>8
<1> QED
  BY <1>2, <1>3, <1>4 DEF Serve

\* Spent after the step.
SpentThen(i) == i \in Seeded \cup Existing \/ (i \in Req /\ pc'[i] = "done")

\* Whoever is done stays done, so no other request takes up its id.
LEMMA SpentStays ==
  ASSUME BaseInv, [Next]_vars, NEW i, Spent(i)
  PROVE  SpentThen(i)
<1>1. ASSUME i \in Req, pc[i] = "done" PROVE pc'[i] = "done"
  <2>1. ASSUME NEW r \in Req, Arrive(r) PROVE pc'[i] = "done"
    BY <1>1, <2>1 DEF Arrive, BaseInv, TypeOK
  <2>2. ASSUME NEW r \in Req, Serve(r) PROVE pc'[i] = "done"
    BY <1>1, <2>2, RequestsMoveOn DEF UnderWay
  <2>3. ASSUME NEW c \in CharacterId, Reclaim(c) \/ SoftDelete(c) PROVE pc'[i] = "done"
    BY <1>1, <2>3 DEF Reclaim, SoftDelete
  <2>4. CASE UNCHANGED vars
    BY <1>1, <2>4 DEF vars
  <2> QED
    BY <2>1, <2>2, <2>3, <2>4 DEF Next
<1> QED
  BY <1>1 DEF Spent, SpentThen

\* A spent id that is not listed will never be.
LEMMA SpentDoNotReturn ==
  ASSUME BaseInv, NEW r \in Req, Serve(r), NEW i \in RaceId, Spent(i), names'[i] # None
  PROVE  names[i] # None
  BY RequestsMoveOn, RequestsAreFresh DEF Spent, UnderWay

\* Every table in a history was there before, or is the one of now.
LEMMA HistoriesAreOfTables ==
  ASSUME BaseInv, RacesMove, NEW q \in Req, NEW k \in DOMAIN past'[q]
  PROVE  (k \in DOMAIN past[q] /\ past'[q][k] = past[q][k]) \/ past'[q][k] = names'
<1>1. past[q] \in Seq(Table)
  BY DEF BaseInv, TypeOK
<1> HIDE DEF Table
<1>2. CASE past'[q] = past[q]
  BY <1>2
<1>3. ASSUME NEW table \in Table, past'[q] = Append(past[q], table), names' = table
      PROVE  (k \in DOMAIN past[q] /\ past'[q][k] = past[q][k]) \/ past'[q][k] = names'
  BY <1>1, <1>3
<1> QED
  BY <1>2, <1>3 DEF RacesMove, SameRaces, Becomes

LEMMA RacesStaySpent ==
  ASSUME Inv, [Next]_vars
  PROVE  RacesAreSpent'
<1>1. BaseInv /\ BaseInv' /\ RacesAreSpent /\ TypeOK
  BY StepInv DEF Inv, BaseInv
<1> SUFFICES ASSUME NEW i \in RaceId
             PROVE  /\ names'[i] # None => SpentThen(i)
                    /\ \A q \in Req : \A k \in DOMAIN past'[q] : past'[q][k][i] # None => SpentThen(i)
  BY DEF RacesAreSpent, Listed, Spent, SpentThen
<1>2. names[i] # None => SpentThen(i)
  BY <1>1, SpentStays DEF RacesAreSpent, Listed
<1>3. \A q \in Req : \A k \in DOMAIN past[q] : past[q][k][i] # None => SpentThen(i)
  BY <1>1, SpentStays DEF RacesAreSpent
<1>4. ASSUME NEW r \in Req, Arrive(r)
      PROVE  names' = names /\ \A q \in Req : past'[q] = past[q] \/ past'[q] = <<names>>
  <2> HIDE DEF Table
  <2> QED
    BY <1>1, <1>4 DEF Arrive, TypeOK
<1>5. ASSUME NEW r \in Req, Serve(r)
      PROVE  /\ names'[i] # None => SpentThen(i)
             /\ \A q \in Req : \A k \in DOMAIN past'[q] : past'[q][k][i] # None => SpentThen(i)
  <2>1. names'[i] # None => SpentThen(i)
    BY <1>1, <1>2, <1>5, RequestsMoveOn DEF SpentThen
  <2> QED
    BY <1>1, <1>3, <1>5, <2>1, RequestsMoveOn, HistoriesAreOfTables
<1>6. ASSUME NEW c \in CharacterId, Reclaim(c) \/ SoftDelete(c) PROVE UNCHANGED <<names, past>>
  BY <1>6 DEF Reclaim, SoftDelete
<1>7. CASE UNCHANGED vars
  BY <1>2, <1>3, <1>7 DEF vars
<1> QED
  BY <1>2, <1>3, <1>4, <1>5, <1>6, <1>7 DEF Next

\* Clients name what an answer has shown them, and that is spent.
LEMMA KnownIdsAreSpent ==
  ASSUME BaseInv, RacesAreSpent
  PROVE  /\ \A i \in KnownRaces : Spent(i)
         /\ \A i \in KnownCharacters : Spent(i)
<1>1. ASSUME NEW q \in Req, reply[q] # None, NEW shown \in reply[q].shown
      PROVE  Spent(shown[1])
  <2>1. reply[q] \in Reply
    BY <1>1 DEF BaseInv, TypeOK
  <2>2. shown[1] \in RaceId /\ shown[2] \in Name
    BY <1>1, <2>1 DEF Reply
  <2>3. PICK k \in DOMAIN past[q] : past[q][k][shown[1]] = shown[2]
    BY <1>1 DEF BaseInv, ShownNamesWereTrue
  <2> QED
    BY <2>2, <2>3, NoneIsNoData DEF RacesAreSpent
<1>2. ASSUME NEW q \in Req, reply[q] # None PROVE pc[q] = "done"
  BY <1>2 DEF BaseInv, RequestsFit
<1> QED
  BY <1>1, <1>2 DEF KnownRaces, KnownCharacters, Spent

LEMMA NamedIdsStaySpent ==
  ASSUME Inv, [Next]_vars
  PROVE  NamedIdsAreSpent'
<1>1. BaseInv /\ TypeOK /\ ReferencesHold /\ RacesAreSpent /\ NamedIdsAreSpent
  BY DEF Inv, BaseInv
<1> SUFFICES ASSUME NEW q \in Req
             PROVE  /\ call'[q] # None /\ call'[q].op \in {"confirm", "show", "patch"} => SpentThen(call'[q].id)
                    /\ call'[q] # None /\ call'[q].op = "patch" /\ call'[q].race # None => SpentThen(call'[q].race)
                    /\ base'[q] # None => SpentThen(base'[q].race)
  BY DEF NamedIdsAreSpent, Spent, SpentThen
<1>2. CASE call'[q] = call[q] /\ base'[q] = base[q]
  BY <1>1, <1>2, SpentStays DEF NamedIdsAreSpent
<1>3. ASSUME NEW r \in Req, Arrive(r), call'[q] # call[q] \/ base'[q] # base[q]
      PROVE  /\ base'[q] = base[q]
             /\ call'[q].op \in {"confirm", "show", "patch"} => Spent(call'[q].id)
             /\ call'[q].op = "patch" /\ call'[q].race # None => Spent(call'[q].race)
  <2>1. PICK c \in CallsOf(r) : call' = [call EXCEPT ![r] = c] /\ base' = base
    BY <1>3 DEF Arrive
  <2>2. call'[q] = c
    BY <1>1, <1>3, <2>1 DEF TypeOK
  <2>3. /\ c.op \in {"confirm", "show", "patch"} => c.id \in KnownCharacters
        /\ c.op = "patch" => c.race \in KnownRaces \cup {None}
    BY <2>1 DEF CallsOf
  <2> QED
    BY <1>1, <2>1, <2>2, <2>3, KnownIdsAreSpent
<1>4. ASSUME NEW r \in Req, Serve(r), call'[q] # call[q] \/ base'[q] # base[q]
      PROVE  call'[q] = call[q] /\ Spent(base'[q].race)
  <2>1. q = r /\ call' = call /\ base'[r] # base[r] /\ pc[r] \notin {"idle", "done"}
    BY <1>1, <1>4, RequestsMoveOn DEF UnderWay
  <2>2. GetCharacter(r)
    BY <1>4, <2>1 DEF Serve, CreateRace, FindRace, UpdateRace, DeleteRace, GetRace, ListRaces,
       InsertCharacter, BeginStatement, UpdateCharacter, ConfirmPending, ConfirmRecheck, Fail
  <2>3. call[r] \in Call /\ call[r].id \in CharacterId
    BY <1>1, <2>2, RequestsAreTyped DEF GetCharacter, UnderWay, StatementsOf, CallFits, Call, RaceOps, CharacterOps
  <2>4. Active(call[r].id) /\ base'[r] = rows[call[r].id]
    BY <1>1, <2>1, <2>2 DEF GetCharacter, TypeOK
  <2>5. rows[call[r].id] \in Row
    BY <1>1, <2>3, <2>4 DEF Active, Present, TypeOK
  <2>6. Listed(rows[call[r].id].race) /\ rows[call[r].id].race \in RaceId
    BY <1>1, <2>3, <2>4, <2>5 DEF Active, ReferencesHold, Row
  <2> QED
    BY <1>1, <2>1, <2>4, <2>6 DEF RacesAreSpent
<1>5. ASSUME NEW c \in CharacterId, Reclaim(c) \/ SoftDelete(c) PROVE UNCHANGED <<call, base>>
  BY <1>5 DEF Reclaim, SoftDelete
<1>6. CASE UNCHANGED vars
  BY <1>2, <1>6 DEF vars
<1>7. CASE \E r \in Req : Arrive(r)
  <2>1. base'[q] # None => SpentThen(base'[q].race)
    BY <1>1, <1>2, <1>3, <1>7, SpentStays DEF NamedIdsAreSpent
  <2> QED
    BY <1>1, <1>2, <1>3, <1>7, <2>1, SpentStays
<1>8. CASE \E r \in Req : Serve(r)
  <2>1. /\ call'[q] # None /\ call'[q].op \in {"confirm", "show", "patch"} => SpentThen(call'[q].id)
        /\ call'[q] # None /\ call'[q].op = "patch" /\ call'[q].race # None => SpentThen(call'[q].race)
    BY <1>1, <1>2, <1>4, <1>8, SpentStays DEF NamedIdsAreSpent
  <2> QED
    BY <1>1, <1>2, <1>4, <1>8, <2>1, SpentStays
<1> QED
  BY <1>2, <1>5, <1>6, <1>7, <1>8 DEF Next

LEMMA HistoriesStillEndNow ==
  ASSUME Inv, [Next]_vars
  PROVE  HistoriesEndNow'
<1>1. BaseInv /\ TypeOK /\ HistoriesEndNow
  BY DEF Inv, BaseInv
<1> HIDE DEF Table
<1> SUFFICES ASSUME NEW q \in Req, pc'[q] \notin {"idle", "done"}
             PROVE  past'[q] # <<>> /\ past'[q][Len(past'[q])] = names'
  BY DEF HistoriesEndNow
<1>2. CASE pc[q] \notin {"idle", "done"} /\ UNCHANGED <<names, past>>
  BY <1>1, <1>2 DEF HistoriesEndNow
<1>3. ASSUME NEW r \in Req, Arrive(r)
      PROVE  past'[q] # <<>> /\ past'[q][Len(past'[q])] = names'
  <2>1. CASE q = r
    <3>1. past'[q] = <<names>> /\ names' = names
      BY <1>1, <1>3, <2>1 DEF Arrive, TypeOK
    <3> QED
      BY <3>1
  <2>2. CASE q # r
    <3>1. past'[q] = past[q] /\ names' = names /\ pc'[q] = pc[q]
      BY <1>1, <1>3, <2>2 DEF Arrive, TypeOK
    <3> QED
      BY <1>1, <3>1 DEF HistoriesEndNow
  <2> QED
    BY <2>1, <2>2
<1>4. ASSUME NEW r \in Req, Serve(r)
      PROVE  past'[q] # <<>> /\ past'[q][Len(past'[q])] = names'
  <2>1. pc[q] \notin {"idle", "done"} /\ RacesMove
    BY <1>1, <1>4, RequestsMoveOn DEF UnderWay
  <2>2. ASSUME NEW table \in Table, Becomes(table)
        PROVE  past'[q] # <<>> /\ past'[q][Len(past'[q])] = names'
    <3>1. CASE table = names
      BY <1>1, <2>1, <2>2, <3>1 DEF Becomes, HistoriesEndNow
    <3>2. CASE table # names
      <4>1. past[q] \in Seq(Table) /\ past'[q] = Append(past[q], table) /\ names' = table
        BY <1>1, <2>1, <2>2, <3>2 DEF Becomes, TypeOK
      <4>2. Len(past'[q]) = Len(past[q]) + 1 /\ Len(past[q]) \in Nat
        BY <4>1
      <4>3. past'[q][Len(past[q]) + 1] = table
        BY <4>1
      <4>4. past'[q] # <<>>
        BY <4>2
      <4> QED
        BY <4>1, <4>2, <4>3, <4>4
    <3> QED
      BY <3>1, <3>2
  <2> QED
    BY <1>2, <2>1, <2>2 DEF RacesMove, SameRaces
<1>5. ASSUME NEW c \in CharacterId, Reclaim(c) \/ SoftDelete(c)
      PROVE  pc' = pc /\ UNCHANGED <<names, past>>
  BY <1>5 DEF Reclaim, SoftDelete
<1>6. CASE UNCHANGED vars
  BY <1>2, <1>6 DEF vars
<1> QED
  BY <1>2, <1>3, <1>4, <1>5, <1>6 DEF Next

\* Nothing but its own request makes a reservation, and nothing moves it to
\* another race.
LEMMA ReservationsStay ==
  ASSUME Inv, [Next]_vars, NEW c \in CharacterId, Spent(c), rows'[c] # None, rows'[c].stage = "pending"
  PROVE  Pending(c) /\ rows'[c].race = rows[c].race
<1>1. BaseInv /\ TypeOK
  BY DEF Inv, BaseInv
<1>2. CASE rows'[c] = rows[c]
  BY <1>2 DEF Pending, Present
<1>3. ASSUME NEW r \in Req, InsertCharacter(r), rows'[c] # rows[c] PROVE FALSE
  <2>1. pc[r] = "insert" /\ call[r].id = r
    BY <1>1, <1>3, RequestsAreTyped DEF InsertCharacter, UnderWay, StatementsOf, CallFits, Call, RaceOps, CharacterOps
  <2>2. c = r
    BY <1>1, <1>3, <2>1 DEF InsertCharacter, TypeOK
  <2> QED
    BY <2>1, <2>2, RequestsAreFresh DEF Spent
<1>4. ASSUME NEW r \in Req, UpdateCharacter(r), rows'[c] # rows[c] PROVE FALSE
  <2>1. /\ Active(call[r].id)
        /\ rows' = [rows EXCEPT ![call[r].id].race = NewRace(r), ![call[r].id].version = @ + 1]
    BY <1>4 DEF UpdateCharacter
  <2>2. c = call[r].id /\ rows[c] \in Row
    BY <1>1, <1>4, <2>1 DEF TypeOK, Active, Present
  <2>3. rows'[c] = [rows[c] EXCEPT !.race = NewRace(r), !.version = @ + 1]
    BY <1>1, <2>1, <2>2 DEF TypeOK
  <2>4. rows'[c].stage = "active"
    BY <2>1, <2>2, <2>3 DEF Active, Row
  <2> QED
    BY <2>4
<1>5. ASSUME NEW r \in Req, ConfirmPending(r), rows'[c] # rows[c] PROVE FALSE
  <2>1. Pending(call[r].id) /\ rows' = [rows EXCEPT ![call[r].id].stage = "active"]
    BY <1>5 DEF ConfirmPending
  <2>2. c = call[r].id /\ rows[c] \in Row
    BY <1>1, <1>5, <2>1 DEF TypeOK, Pending, Present
  <2>3. rows'[c] = [rows[c] EXCEPT !.stage = "active"]
    BY <1>1, <2>1, <2>2 DEF TypeOK
  <2> QED
    BY <2>2, <2>3 DEF Row
<1>6. ASSUME NEW r \in Req, Serve(r), rows'[c] # rows[c] PROVE FALSE
  BY <1>3, <1>4, <1>5, <1>6 DEF Serve, CreateRace, FindRace, UpdateRace, DeleteRace, GetRace, ListRaces,
     GetCharacter, BeginStatement, ConfirmRecheck, Fail
<1>7. ASSUME NEW r \in Req, Arrive(r) PROVE rows' = rows
  BY <1>7 DEF Arrive
<1>8. ASSUME NEW d \in CharacterId, Reclaim(d) \/ SoftDelete(d), rows'[c] # rows[c] PROVE FALSE
  <2>1. CASE Reclaim(d)
    BY <1>1, <1>8, <2>1 DEF Reclaim, TypeOK
  <2>2. CASE SoftDelete(d)
    <3>1. c = d /\ rows[c] \in Row
      BY <1>1, <1>8, <2>2 DEF SoftDelete, TypeOK, Active, Present
    <3>2. rows'[c] = [rows[c] EXCEPT !.stage = "deleted"]
      BY <1>1, <2>2, <3>1 DEF SoftDelete, TypeOK
    <3> QED
      BY <3>1, <3>2 DEF Row
  <2> QED
    BY <1>8, <2>1, <2>2
<1> QED
  BY <1>2, <1>6, <1>7, <1>8 DEF Next, vars

\* The race a PATCH is about to write is one the client or the row has named.
LEMMA NewRaceIsSpent ==
  ASSUME BaseInv, NamedIdsAreSpent, NEW r \in Req, pc[r] = "write"
  PROVE  Spent(NewRace(r)) /\ NewRace(r) \in RaceId /\ call[r].op = "patch"
<1>1. call[r] \in Call /\ call[r] # None /\ call[r].op = "patch"
  BY RequestsAreTyped DEF BaseInv, RequestsFit, UnderWay, StatementsOf, Call, RaceOps, CharacterOps
<1>2. base[r] # None /\ base[r] \in Row
  BY <1>1 DEF BaseInv, TypeOK, RequestsFit
<1> QED
  BY <1>1, <1>2 DEF NamedIdsAreSpent, NewRace, Call, Row

\* A confirmation has the id of a character that was there when it came.
LEMMA ConfirmedIdIsSpent ==
  ASSUME BaseInv, NamedIdsAreSpent, NEW r \in Req, pc[r] \in {"confirm", "recheck"}
  PROVE  Spent(call[r].id) /\ call[r].id \in CharacterId /\ call[r].op = "confirm"
<1>1. call[r] \in Call /\ call[r] # None /\ call[r].op = "confirm" /\ CallFits(r, call[r])
  BY RequestsAreTyped DEF BaseInv, RequestsFit, UnderWay, StatementsOf, Call, RaceOps, CharacterOps
<1> QED
  BY <1>1 DEF NamedIdsAreSpent, CallFits, CharacterOps

LEMMA SnapshotsStillKnow ==
  ASSUME Inv, [Next]_vars
  PROVE  SnapshotsKnowTheRace'
<1>1. BaseInv /\ TypeOK /\ ReferencesHold /\ NamedIdsAreSpent /\ SnapshotsKnowTheRace
  BY DEF Inv, BaseInv
<1> SUFFICES ASSUME NEW q \in Req
             PROVE  /\ pc'[q] = "write" /\ names'[NewRace(q)'] # None => snapshot'[q][NewRace(q)'] # None
                    /\ pc'[q] = "confirm" /\ rows'[call'[q].id] # None /\ rows'[call'[q].id].stage = "pending"
                       => snapshot'[q][rows'[call'[q].id].race] # None
  BY DEF SnapshotsKnowTheRace, Listed, Pending, Present
\* A statement that has begun before this step.
<1>2. CASE /\ pc'[q] = pc[q] /\ UNCHANGED call /\ base'[q] = base[q] /\ snapshot'[q] = snapshot[q]
           /\ \A i \in RaceId : Spent(i) /\ names'[i] # None => names[i] # None
  <2>1. ASSUME pc[q] = "write", names'[NewRace(q)'] # None PROVE snapshot'[q][NewRace(q)'] # None
    <3>1. NewRace(q)' = NewRace(q)
      BY <1>2 DEF NewRace
    <3>2. names[NewRace(q)] # None
      BY <1>1, <1>2, <2>1, <3>1, NewRaceIsSpent
    <3> QED
      BY <1>1, <1>2, <2>1, <3>1, <3>2 DEF SnapshotsKnowTheRace, Listed
  <2>2. ASSUME pc[q] = "confirm", rows'[call[q].id] # None, rows'[call[q].id].stage = "pending"
        PROVE  snapshot'[q][rows'[call[q].id].race] # None
    <3>1. Pending(call[q].id) /\ rows'[call[q].id].race = rows[call[q].id].race
      BY <1>1, <2>2, ConfirmedIdIsSpent, ReservationsStay
    <3> QED
      BY <1>1, <1>2, <2>2, <3>1 DEF SnapshotsKnowTheRace
  <2> QED
    BY <1>2, <2>1, <2>2
\* The statement that begins.
<1>3. ASSUME Serve(q), pc'[q] \in {"write", "confirm"}
      PROVE  snapshot'[q] = names /\ UNCHANGED <<names, rows, call, base>>
             /\ pc[q] \notin {"idle", "done"} /\ pc[q] = "begin"
  <2>1. BeginStatement(q)
    BY <1>1, <1>3 DEF Serve, CreateRace, FindRace, UpdateRace, DeleteRace, GetRace, ListRaces, InsertCharacter,
       GetCharacter, UpdateCharacter, ConfirmPending, ConfirmRecheck, Fail, GoTo, Answer, Refuse, Acknowledge,
       TypeOK
  <2> QED
    BY <1>1, <2>1 DEF BeginStatement, TypeOK
<1>4. ASSUME Serve(q)
      PROVE  /\ pc'[q] = "write" /\ names'[NewRace(q)'] # None => snapshot'[q][NewRace(q)'] # None
             /\ pc'[q] = "confirm" /\ rows'[call'[q].id] # None /\ rows'[call'[q].id].stage = "pending"
                => snapshot'[q][rows'[call'[q].id].race] # None
  <2>1. ASSUME pc'[q] = "confirm", rows'[call'[q].id] # None
        PROVE  snapshot'[q][rows'[call'[q].id].race] # None
    <3>1. snapshot'[q] = names /\ UNCHANGED <<rows, call>> /\ UnderWay(q) /\ pc[q] = "begin"
      BY <1>3, <1>4, <2>1 DEF UnderWay
    <3>2. call[q].id \in CharacterId
      BY <1>1, <3>1, RequestsAreTyped DEF StatementsOf, CallFits, Call, RaceOps, CharacterOps
    <3> QED
      BY <1>1, <2>1, <3>1, <3>2 DEF ReferencesHold, Present, Listed
  <2>2. ASSUME pc'[q] = "write", names'[NewRace(q)'] # None
        PROVE  snapshot'[q][NewRace(q)'] # None
    BY <1>3, <1>4, <2>2
  <2> QED
    BY <2>1, <2>2
<1>5. ASSUME NEW r \in Req, Serve(r), q # r
      PROVE  /\ pc'[q] = pc[q] /\ UNCHANGED call /\ base'[q] = base[q] /\ snapshot'[q] = snapshot[q]
             /\ \A i \in RaceId : Spent(i) /\ names'[i] # None => names[i] # None
  BY <1>1, <1>5, RequestsMoveOn, SpentDoNotReturn
<1>6. ASSUME NEW r \in Req, Arrive(r)
      PROVE  /\ q = r => pc'[q] \notin {"write", "confirm"}
             /\ q # r => pc'[q] = pc[q] /\ call'[q] = call[q] /\ UNCHANGED <<names, rows, base, snapshot>>
  <2>1. PICK c \in CallsOf(r) : pc' = [pc EXCEPT ![r] = FirstStatement(c.op)] /\ call' = [call EXCEPT ![r] = c]
    BY <1>6 DEF Arrive
  <2>2. FirstStatement(c.op) \notin {"write", "confirm"}
    BY <1>1, CallsAreTyped DEF FirstStatement, Call, RaceOps, CharacterOps
  <2> QED
    BY <1>1, <1>6, <2>1, <2>2 DEF Arrive, TypeOK
<1>7. CASE \E r \in Req : Arrive(r)
  <2>1. PICK r \in Req : Arrive(r)
    BY <1>7
  <2>2. CASE q # r
    <3>1. NewRace(q)' = NewRace(q)
      BY <1>6, <2>1, <2>2 DEF NewRace
    <3> QED
      BY <1>1, <1>6, <2>1, <2>2, <3>1 DEF SnapshotsKnowTheRace, Listed, Pending, Present
  <2> QED
    BY <1>6, <2>1, <2>2
<1>8. ASSUME NEW c \in CharacterId, Reclaim(c) \/ SoftDelete(c)
      PROVE  UNCHANGED <<pc, call, base, snapshot, names>>
  BY <1>8 DEF Reclaim, SoftDelete
<1>9. CASE UNCHANGED vars
  BY <1>2, <1>9 DEF vars
<1>10. CASE \E c \in CharacterId : Reclaim(c) \/ SoftDelete(c)
  BY <1>2, <1>8, <1>10
<1> QED
  BY <1>2, <1>4, <1>5, <1>7, <1>9, <1>10 DEF Next

\* What a nameless answer tells of its request: a confirmation in whose time a
\* race has been created.
Excused(r) ==
  \/ call[r].op = "list"
  \/ /\ call[r].op = "confirm"
     /\ \E i \in RaceId : \E j, k \in DOMAIN past[r] :
          j < k /\ past[r][j][i] = None /\ past[r][k][i] # None

LEMMA TheAnswer ==
  ASSUME BaseInv, NEW r \in Req, NEW outcome, NEW shown, Answer(r, outcome, shown)
  PROVE  reply'[r].outcome = outcome /\ reply'[r].shown = shown
  BY DEF Answer, BaseInv, TypeOK

LEMMA TheAcknowledgement ==
  ASSUME BaseInv, NEW r \in Req, NEW outcome, NEW shown, Acknowledge(r, outcome, shown),
         reply'[r].outcome # "error"
  PROVE  reply'[r].outcome = outcome /\ reply'[r].shown = shown
  BY TheAnswer DEF Acknowledge, Refuse

\* The statement that finds the reservation gone finds a row whose race is new to
\* its snapshot only if that race has been created since.
LEMMA RecheckIsExcused ==
  ASSUME Inv, NEW r \in Req, ConfirmRecheck(r), reply'[r].outcome = "shown", reply'[r].shown = {}
  PROVE  Excused(r)
<1> DEFINE i == rows[call[r].id].race
<1>1. BaseInv /\ TypeOK /\ HistoriesAreTrue /\ ReferencesHold /\ NamedIdsAreSpent /\ HistoriesEndNow
  BY DEF Inv, BaseInv
<1>2. pc[r] = "recheck"
  BY DEF ConfirmRecheck
<1>3. call[r].op = "confirm" /\ call[r].id \in CharacterId
  BY <1>1, <1>2, ConfirmedIdIsSpent
<1>4. Active(call[r].id) /\ Joined(snapshot[r], i) = {}
  BY <1>1, TheAnswer DEF ConfirmRecheck, Refuse
<1>5. i \in RaceId /\ names[i] # None
  BY <1>1, <1>3, <1>4 DEF Active, ReferencesHold, Listed, TypeOK, Row, Present
<1>6. snapshot[r][i] = None
  BY <1>4 DEF Joined
<1>7. PICK j \in DOMAIN past[r] : past[r][j] = snapshot[r]
  BY <1>1, <1>2 DEF HistoriesAreTrue
<1>8. past[r] # <<>> /\ past[r][Len(past[r])] = names /\ past[r] \in Seq(Table)
  BY <1>1, <1>2 DEF HistoriesEndNow, TypeOK
<1> HIDE DEF i, Table
<1>9. Len(past[r]) \in DOMAIN past[r] /\ j \in 1 .. Len(past[r]) /\ Len(past[r]) \in Nat
  BY <1>7, <1>8
<1>10. j # Len(past[r])
  BY <1>5, <1>6, <1>7, <1>8
<1>11. j < Len(past[r])
  BY <1>9, <1>10
<1>12. past[r][j][i] = None /\ past[r][Len(past[r])][i] # None
  BY <1>5, <1>6, <1>7, <1>8
<1> QED
  BY <1>3, <1>5, <1>7, <1>9, <1>11, <1>12 DEF Excused

LEMMA NamelessIsExcused ==
  ASSUME Inv, NEW r \in Req, Serve(r), reply'[r] # None,
         reply'[r].outcome = "shown", reply'[r].shown = {}
  PROVE  Excused(r) /\ UNCHANGED past
<1>0. \A i, n : {<<i, n>>} # {}
  OBVIOUS
<1>1. BaseInv /\ TypeOK /\ RequestsFit /\ ReferencesHold /\ NamedIdsAreSpent /\ SnapshotsKnowTheRace
  BY DEF Inv, BaseInv
<1>2. CASE CreateRace(r) \/ UpdateRace(r) \/ DeleteRace(r) \/ InsertCharacter(r) \/ Fail(r)
  <2> HIDE DEF Inv
  <2>1. \A outcome, shown : Answer(r, outcome, shown) => outcome = "shown" /\ shown = {}
    BY <1>1, TheAnswer
  <2>2. \A outcome : Refuse(r, outcome) => outcome = "shown"
    BY <2>1 DEF Refuse
  <2>3. \A outcome, shown : Acknowledge(r, outcome, shown) => outcome = "shown" /\ shown = {}
    BY <2>1, <2>2 DEF Acknowledge
  <2> QED
    <3>1. ~CreateRace(r)
      BY <2>2, <2>3 DEF CreateRace
    <3>2. ~UpdateRace(r)
      BY <2>2, <2>3, <1>0 DEF UpdateRace
    <3>3. ~DeleteRace(r)
      BY <2>2, <2>3 DEF DeleteRace
    <3>4. ~InsertCharacter(r)
      BY <2>2, <2>3 DEF InsertCharacter
    <3>5. ~Fail(r)
      BY <2>2 DEF Fail
    <3> QED
      BY <1>2, <3>1, <3>2, <3>3, <3>4, <3>5
<1>3. CASE FindRace(r) \/ BeginStatement(r)
  <2>1. CASE UNCHANGED reply
    BY <1>1, <1>3, <2>1 DEF FindRace, BeginStatement, RequestsFit
  <2>2. CASE Refuse(r, "notFound")
    BY <1>1, <2>2, TheAnswer DEF Refuse
  <2> QED
    BY <1>3, <2>1, <2>2 DEF FindRace, BeginStatement, GoTo
<1>4. CASE GetRace(r)
  <2>1. CASE Answer(r, "shown", {<<call[r].id, names[call[r].id]>>})
    <3>1. reply'[r].shown = {<<call[r].id, names[call[r].id]>>}
      BY <1>1, <2>1, TheAnswer
    <3> QED
      BY <1>0, <3>1
  <2>2. CASE Refuse(r, "notFound")
    BY <1>1, <2>2, TheAnswer DEF Refuse
  <2> QED
    BY <1>4, <2>1, <2>2 DEF GetRace
<1>5. CASE ListRaces(r)
  BY <1>1, <1>5, RequestsAreTyped
     DEF ListRaces, UnderWay, StatementsOf, Call, RaceOps, CharacterOps, Excused
<1>6. CASE GetCharacter(r)
  <2>1. CASE Answer(r, "shown", Joined(names, rows[call[r].id].race)) /\ Active(call[r].id)
    <3>1. call[r].id \in CharacterId
      BY <1>1, <1>6, RequestsAreTyped DEF GetCharacter, UnderWay, StatementsOf, CallFits, Call, RaceOps, CharacterOps
    <3>2. names[rows[call[r].id].race] # None
      BY <1>1, <2>1, <3>1 DEF Active, ReferencesHold, Listed
    <3> QED
      BY <1>1, <2>1, <3>2, TheAnswer DEF Joined
  <2>2. CASE Refuse(r, "notFound")
    BY <1>1, <2>2, TheAnswer DEF Refuse
  <2>3. CASE UNCHANGED reply
    BY <1>1, <1>6, <2>3 DEF GetCharacter, RequestsFit
  <2> QED
    BY <1>6, <2>1, <2>2, <2>3 DEF GetCharacter, GoTo
<1>7. CASE UpdateCharacter(r)
  <2>1. CASE Listed(NewRace(r)) /\ Acknowledge(r, "shown", Joined(snapshot[r], NewRace(r)))
    <3>1. Joined(snapshot[r], NewRace(r)) = {}
      BY <1>1, <2>1, TheAcknowledgement
    <3>2. snapshot[r][NewRace(r)] # None
      BY <1>1, <1>7, <2>1 DEF UpdateCharacter, SnapshotsKnowTheRace
    <3> QED
      BY <3>1, <3>2 DEF Joined
  <2>2. CASE Refuse(r, "notFound") \/ Refuse(r, "versionConflict") \/ Refuse(r, "raceNotFound")
    BY <1>1, <2>2, TheAnswer DEF Refuse
  <2> QED
    BY <1>7, <2>1, <2>2 DEF UpdateCharacter
<1>8. CASE ConfirmPending(r)
  <2>1. CASE Pending(call[r].id) /\ Acknowledge(r, "shown", Joined(snapshot[r], rows[call[r].id].race))
    <3>1. Joined(snapshot[r], rows[call[r].id].race) = {}
      BY <1>1, <2>1, TheAcknowledgement
    <3>2. snapshot[r][rows[call[r].id].race] # None
      BY <1>1, <1>8, <2>1 DEF ConfirmPending, SnapshotsKnowTheRace
    <3> QED
      BY <3>1, <3>2 DEF Joined
  <2>2. CASE UNCHANGED reply
    BY <1>1, <1>8, <2>2 DEF ConfirmPending, RequestsFit
  <2> QED
    BY <1>8, <2>1, <2>2 DEF ConfirmPending, GoTo
<1>9. CASE ConfirmRecheck(r)
  BY <1>9, RecheckIsExcused DEF ConfirmRecheck
<1> QED
  BY <1>2, <1>3, <1>4, <1>5, <1>6, <1>7, <1>8, <1>9 DEF Serve

LEMMA AnswersStillName ==
  ASSUME Inv, [Next]_vars
  PROVE  AnswersNameTheRace'
<1>1. BaseInv /\ TypeOK /\ RequestsFit /\ AnswersNameTheRace
  BY DEF Inv, BaseInv
<1> SUFFICES ASSUME NEW q \in Req, reply'[q] # None, reply'[q].outcome = "shown", reply'[q].shown = {}
             PROVE  Excused(q)'
  BY DEF AnswersNameTheRace, Answered, Excused
\* An answer given before this step: the history of its request is closed.
<1>2. CASE reply'[q] = reply[q] /\ call'[q] = call[q] /\ past'[q] = past[q]
  BY <1>1, <1>2 DEF AnswersNameTheRace, Answered, Excused
<1>3. ASSUME reply[q] # None PROVE pc[q] = "done"
  BY <1>1, <1>3 DEF RequestsFit
<1>4. ASSUME NEW r \in Req, Arrive(r)
      PROVE  reply'[q] = reply[q] /\ call'[q] = call[q] /\ past'[q] = past[q]
  BY <1>1, <1>3, <1>4 DEF Arrive, TypeOK
<1>5. ASSUME NEW r \in Req, Serve(r), q # r
      PROVE  reply'[q] = reply[q] /\ call'[q] = call[q] /\ past'[q] = past[q]
  BY <1>1, <1>3, <1>5, RequestsMoveOn DEF RacesMove, SameRaces, Becomes
<1>6. ASSUME Serve(q) PROVE Excused(q)'
  BY <1>1, <1>6, NamelessIsExcused, RequestsMoveOn DEF Excused
<1>7. ASSUME NEW c \in CharacterId, Reclaim(c) \/ SoftDelete(c)
      PROVE  reply'[q] = reply[q] /\ call'[q] = call[q] /\ past'[q] = past[q]
  BY <1>7 DEF Reclaim, SoftDelete
<1>8. CASE UNCHANGED vars
  BY <1>2, <1>8 DEF vars
<1> QED
  BY <1>2, <1>4, <1>5, <1>6, <1>7, <1>8 DEF Next

LEMMA InitFullInv == Init => Inv
<1> SUFFICES ASSUME Init PROVE Inv
  OBVIOUS
<1>1. BaseInv
  BY InitInv
<1>2. /\ \A i \in RaceId : names[i] # None => i \in Seeded
      /\ \A r \in Req : /\ pc[r] = "idle" /\ call[r] = None /\ base[r] = None
                        /\ past[r] = <<>> /\ reply[r] = None
  BY DEF Init
<1>3. RacesAreSpent
  BY <1>2 DEF RacesAreSpent, Listed, Spent
<1>4. NamedIdsAreSpent /\ HistoriesEndNow /\ SnapshotsKnowTheRace /\ AnswersNameTheRace
  BY <1>2 DEF NamedIdsAreSpent, HistoriesEndNow, SnapshotsKnowTheRace, AnswersNameTheRace, Answered
<1> QED
  BY <1>1, <1>3, <1>4 DEF Inv

\* The invariant of the catalogue: types, what a request carries from statement to
\* statement, true histories, a foreign key that no interleaving gets around, ids
\* that never come back, and snapshots that know the race their answer names.
THEOREM Invariance == Spec => []Inv
<1>1. Inv /\ [Next]_vars => Inv'
  BY StepInv, RacesStaySpent, NamedIdsStaySpent, HistoriesStillEndNow, SnapshotsStillKnow,
     AnswersStillName DEF Inv
<1> QED
  BY <1>1, InitFullInv, PTL DEF Spec

\* GET and PATCH answers always name the race; a confirmation may miss it only if
\* a race has been created while it was under way.
THEOREM AnswersHaveNames == Spec => []AnswersNameTheRace
<1>1. Inv => AnswersNameTheRace
  BY DEF Inv
<1> QED
  BY <1>1, Invariance, PTL

-----------------------------------------------------------------------------
(* The catalogue implements the registry.  FindRace maps to a stutter: the  *)
(* effect of a PUT is its second statement.                                *)

AsksRace(r) == call[r] # None /\ call[r].op \in RaceOps

\* While a request for a race is under way, the registry knows what it asks.
LEMMA UnderWayWaits ==
  ASSUME BaseInv, NEW r \in Req, UnderWay(r), call[r].op \in RaceOps
  PROVE  /\ Registry!Waits(r)
         /\ asked[r] = [op |-> call[r].op, id |-> call[r].id, name |-> call[r].name]
         /\ call[r].id \in RaceId
<1>1. call[r] # None /\ call[r] \in Call /\ reply[r] = None /\ call[r].id \in RaceId
  BY DEF BaseInv, TypeOK, RequestsFit, CallFits, UnderWay
<1>2. asked[r] = [op |-> call[r].op, id |-> call[r].id, name |-> call[r].name]
  BY <1>1 DEF asked
<1>3. asked[r] \in [op : RaceOps, id : RaceId, name : Name \cup {None}]
  BY <1>1, <1>2 DEF Call
<1>4. asked[r] # None
  BY <1>3, NoneIsNoQuestion
<1>5. answer[r] = None
  BY <1>1 DEF answer
<1> QED
  BY <1>1, <1>2, <1>4, <1>5 DEF Registry!Waits

\* Answering a request for a race is telling its client.
LEMMA AnsweringTells ==
  ASSUME BaseInv, NEW r \in Req, UnderWay(r), call[r].op \in RaceOps,
         UNCHANGED <<rows, call>>, NEW outcome, NEW shown, Answer(r, outcome, shown)
  PROVE  /\ Registry!Tell(r, outcome, shown)
         /\ asked' = asked /\ inUse' = inUse
<1>1. /\ reply' = [reply EXCEPT ![r] = [outcome |-> outcome, shown |-> shown]]
      /\ reply \in [Req -> Reply \cup {None}]
      /\ call[r] # None
  BY DEF Answer, BaseInv, TypeOK, RequestsFit, UnderWay
<1>2. answer' = [answer EXCEPT ![r] = [outcome |-> outcome, shown |-> shown]]
  BY <1>1 DEF answer
<1> QED
  BY <1>2 DEF Registry!Tell, asked, inUse, Referenced, Present

\* What requests for characters do is at most a change of what refers to races.
LEMMA CharactersRefer ==
  ASSUME BaseInv, BaseInv', UNCHANGED <<names, call>>,
         UNCHANGED reply \/ \E r \in Req, v \in Reply :
                              ~AsksRace(r) /\ reply' = [reply EXCEPT ![r] = v]
  PROVE  Registry!Refer
<1>1. asked' = asked
  BY DEF asked
<1>2. answer' = answer
  <2>1. \A q \in Req : AsksRace(q) => reply'[q] = reply[q]
    BY DEF BaseInv, TypeOK
  <2> QED
    BY <2>1 DEF answer, AsksRace
<1>3. \A i \in RaceId : i \in inUse' => names'[i] # None
  BY DEF BaseInv, ReferencesHold, Listed, inUse, Referenced, Present
<1>4. inUse' \in SUBSET {i \in RaceId : names[i] # None}
  BY <1>3 DEF inUse
<1> QED
  BY <1>1, <1>2, <1>4 DEF Registry!Refer, Registry!Listed, Registry!RaceId, RaceId

LEMMA RaceStatementsMap ==
  ASSUME BaseInv, NEW r \in Req,
         CreateRace(r) \/ UpdateRace(r) \/ DeleteRace(r) \/ GetRace(r) \/ ListRaces(r)
  PROVE  Registry!Resolve(r)
<1> DEFINE i == call[r].id  n == call[r].name
<1>1. UnderWay(r) /\ UNCHANGED <<rows, call>>
  BY DEF UnderWay, CreateRace, UpdateRace, DeleteRace, GetRace, ListRaces
<1>2. /\ pc[r] = "insertRace" => call[r].op = "create"
      /\ pc[r] = "updateRace" => call[r].op = "rename"
      /\ pc[r] = "deleteRace" => call[r].op = "delete"
      /\ pc[r] = "getRace" => call[r].op = "get"
      /\ pc[r] = "listRaces" => call[r].op = "list"
  BY <1>1, RequestsAreTyped DEF StatementsOf, Call, RaceOps, CharacterOps
<1>3. call[r].op \in RaceOps
  BY <1>2 DEF RaceOps, CreateRace, UpdateRace, DeleteRace, GetRace, ListRaces
<1>4. /\ Registry!Waits(r) /\ asked[r] = [op |-> call[r].op, id |-> i, name |-> n]
      /\ i \in RaceId
  BY <1>1, <1>3, UnderWayWaits
<1>5. \A outcome, shown : Answer(r, outcome, shown) =>
        Registry!Tell(r, outcome, shown) /\ asked' = asked /\ inUse' = inUse
  BY <1>1, <1>3, AnsweringTells
<1>6. \A outcome, shown : Acknowledge(r, outcome, shown) =>
        Registry!TellOrLose(r, outcome, shown) /\ asked' = asked /\ inUse' = inUse
  BY <1>5 DEF Acknowledge, Refuse, Registry!TellOrLose
<1>7. /\ Registry!Taken(n, i) <=> Taken(n, i)
      /\ Registry!Listed(i) <=> Listed(i)
      /\ i \in inUse <=> Referenced(i)
  BY <1>4 DEF Registry!Taken, Taken, Registry!Listed, Listed, Registry!RaceId, RaceId, inUse
<1>8. CASE CreateRace(r)
  <2>1. Registry!Create(r, i, n) /\ UNCHANGED <<inUse, asked>>
    BY <1>5, <1>6, <1>7, <1>8 DEF CreateRace, Refuse, SameRaces, Becomes, Registry!Create
  <2> QED
    BY <1>2, <1>4, <1>8, <2>1 DEF CreateRace, Registry!Resolve
<1>9. CASE UpdateRace(r)
  <2>1. Registry!Rename(r, i, n) /\ UNCHANGED <<inUse, asked>>
    BY <1>5, <1>6, <1>7, <1>9 DEF UpdateRace, Refuse, SameRaces, Becomes, Registry!Rename
  <2> QED
    BY <1>2, <1>4, <1>9, <2>1 DEF UpdateRace, Registry!Resolve
<1>10. CASE DeleteRace(r)
  <2>1. Registry!Delete(r, i) /\ UNCHANGED <<inUse, asked>>
    BY <1>5, <1>6, <1>7, <1>10 DEF DeleteRace, Refuse, SameRaces, Becomes, Registry!Delete
  <2> QED
    BY <1>2, <1>4, <1>10, <2>1 DEF DeleteRace, Registry!Resolve
<1>11. CASE GetRace(r)
  <2>1. Registry!Get(r, i) /\ UNCHANGED <<inUse, asked>>
    BY <1>5, <1>7, <1>11 DEF GetRace, Refuse, Registry!Get
  <2> QED
    BY <1>2, <1>4, <1>11, <2>1 DEF GetRace, Registry!Resolve
<1>12. CASE ListRaces(r)
  <2>1. Registry!List(r) /\ UNCHANGED <<inUse, asked>>
    BY <1>5, <1>12 DEF ListRaces, Registry!List, Registry!Listed, Listed, Registry!RaceId, RaceId
  <2> QED
    BY <1>2, <1>4, <1>12, <2>1 DEF ListRaces, Registry!Resolve
<1> QED
  BY <1>8, <1>9, <1>10, <1>11, <1>12

LEMMA FailMaps ==
  ASSUME BaseInv, BaseInv', NEW r \in Req, Fail(r)
  PROVE  Registry!Resolve(r) \/ Registry!Refer
<1>1. UnderWay(r) /\ UNCHANGED <<names, rows, call>> /\ Answer(r, "error", {})
  BY DEF Fail, UnderWay, Refuse
<1>2. CASE call[r].op \in RaceOps
  <2>1. Registry!Waits(r)
    BY <1>1, <1>2, UnderWayWaits
  <2>2. Registry!Tell(r, "error", {}) /\ asked' = asked /\ inUse' = inUse
    BY <1>1, <1>2, AnsweringTells
  <2> QED
    BY <1>1, <2>1, <2>2 DEF Registry!Resolve, Registry!GiveUp
<1>3. CASE call[r].op \notin RaceOps
  <2>1. \E v \in Reply : reply' = [reply EXCEPT ![r] = v]
    BY <1>1 DEF Answer, Reply, Outcome
  <2> QED
    BY <1>1, <1>3, <2>1, CharactersRefer DEF AsksRace
<1> QED
  BY <1>2, <1>3

LEMMA FindMaps ==
  ASSUME BaseInv, BaseInv', NEW r \in Req, FindRace(r)
  PROVE  Registry!Resolve(r) \/ Registry!Refer
<1> DEFINE i == call[r].id  n == call[r].name
<1>1. UnderWay(r) /\ pc[r] = "findRace" /\ UNCHANGED <<names, rows, call>>
  BY DEF FindRace, UnderWay
<1>2. call[r].op = "rename" /\ call[r].op \in RaceOps
  BY <1>1, RequestsAreTyped DEF StatementsOf, Call, RaceOps, CharacterOps
<1>3. CASE ~Listed(i) /\ Refuse(r, "notFound")
  <2>1. /\ Registry!Waits(r) /\ asked[r] = [op |-> call[r].op, id |-> i, name |-> n]
    BY <1>1, <1>2, UnderWayWaits
  <2>2. Registry!Tell(r, "notFound", {}) /\ asked' = asked /\ inUse' = inUse
    BY <1>1, <1>2, <1>3, AnsweringTells DEF Refuse
  <2>3. Registry!Rename(r, i, n)
    BY <1>1, <1>3, <2>2 DEF Registry!Rename, Registry!Listed, Listed
  <2> QED
    BY <1>2, <2>1, <2>2, <2>3 DEF Registry!Resolve
<1>4. CASE GoTo(r, "updateRace")
  BY <1>1, <1>4, CharactersRefer DEF GoTo
<1> QED
  BY <1>3, <1>4 DEF FindRace

LEMMA CharacterStatementsMap ==
  ASSUME BaseInv, BaseInv', NEW r \in Req,
         \/ InsertCharacter(r) \/ GetCharacter(r) \/ BeginStatement(r)
         \/ UpdateCharacter(r) \/ ConfirmPending(r) \/ ConfirmRecheck(r)
  PROVE  Registry!Refer
<1>1. UnderWay(r) /\ UNCHANGED <<names, call>>
  BY DEF UnderWay, InsertCharacter, GetCharacter, BeginStatement, UpdateCharacter,
         ConfirmPending, ConfirmRecheck
<1>2. pc[r] \in {"insert", "getCharacter", "begin", "write", "confirm", "recheck"}
  BY DEF InsertCharacter, GetCharacter, BeginStatement, UpdateCharacter,
         ConfirmPending, ConfirmRecheck
<1>3. ~AsksRace(r)
  BY <1>1, <1>2, RequestsAreTyped DEF StatementsOf, AsksRace, Call, RaceOps, CharacterOps
<1>4. UNCHANGED reply \/ \E outcome, shown : Answer(r, outcome, shown)
  BY DEF InsertCharacter, GetCharacter, BeginStatement, UpdateCharacter,
         ConfirmPending, ConfirmRecheck, GoTo, Refuse, Acknowledge
<1>5. CASE \E outcome, shown : Answer(r, outcome, shown)
  <2>1. PICK outcome, shown : Answer(r, outcome, shown)
    BY <1>5
  <2>2. reply' = [reply EXCEPT ![r] = [outcome |-> outcome, shown |-> shown]]
    BY <2>1 DEF Answer
  <2>3. reply'[r] = [outcome |-> outcome, shown |-> shown] /\ reply'[r] \in Reply
    <3>1. pc'[r] = "done"
      BY <2>1 DEF Answer, BaseInv, TypeOK
    <3>2. reply'[r] # None /\ reply'[r] \in Reply \cup {None}
      BY <3>1 DEF BaseInv, TypeOK, RequestsFit
    <3> QED
      BY <2>2, <3>2 DEF BaseInv, TypeOK
  <2> QED
    BY <1>1, <1>3, <2>2, <2>3, CharactersRefer
<1> QED
  BY <1>1, <1>4, <1>5, CharactersRefer

LEMMA ArrivalMaps ==
  ASSUME BaseInv, BaseInv', NEW r \in Req, Arrive(r)
  PROVE  Registry!Ask(r) \/ Registry!Refer
<1>1. PICK c \in CallsOf(r) : call' = [call EXCEPT ![r] = c]
  BY DEF Arrive
<1>2. /\ pc[r] = "idle" /\ call[r] = None /\ reply[r] = None
      /\ UNCHANGED <<names, rows, reply>>
      /\ call \in [Req -> Call \cup {None}] /\ reply \in [Req -> Reply \cup {None}]
  BY DEF Arrive, BaseInv, TypeOK, RequestsFit
<1>3. c \in Call /\ c # None /\ CallFits(r, c)
  BY CallsAreTyped DEF BaseInv
<1>4. answer' = answer
  <2>1. \A q \in Req : q # r => call'[q] = call[q]
    BY <1>1, <1>2
  <2> QED
    BY <1>2, <2>1 DEF answer
<1>5. inUse' = inUse
  BY <1>2 DEF inUse, Referenced, Present
<1>6. CASE c.op \in RaceOps
  <2> DEFINE q == [op |-> c.op, id |-> c.id, name |-> c.name]
  <2>1. q \in Registry!Question /\ (q.op = "create" => q.id = r)
    BY <1>3, <1>6 DEF Registry!Question, Registry!RaceId, RaceId, Call, CallFits, RaceOps
  <2>2. asked' = [asked EXCEPT ![r] = q] /\ asked[r] = None
    BY <1>1, <1>2, <1>3, <1>6 DEF asked
  <2> QED
    BY <1>2, <1>4, <1>5, <2>1, <2>2 DEF Registry!Ask
<1>7. CASE c.op \notin RaceOps
  <2>1. asked' = asked
    BY <1>1, <1>2, <1>7 DEF asked
  <2>2. inUse \in SUBSET {i \in RaceId : names[i] # None}
    BY DEF BaseInv, ReferencesHold, Listed, inUse, Referenced, Present
  <2> QED
    BY <1>2, <1>4, <1>5, <2>1, <2>2 DEF Registry!Refer, Registry!Listed, Registry!RaceId, RaceId
<1> QED
  BY <1>6, <1>7

LEMMA BackgroundMaps ==
  ASSUME BaseInv, BaseInv', NEW c \in CharacterId, Reclaim(c) \/ SoftDelete(c)
  PROVE  Registry!Refer
  BY CharactersRefer DEF Reclaim, SoftDelete

LEMMA InitMaps == Init => Registry!Init
<1> SUFFICES ASSUME Init PROVE Registry!Init
  OBVIOUS
<1>1. /\ names \in [RaceId -> Name \cup {None}]
      /\ \A i \in RaceId : names[i] = None <=> i \notin Seeded
      /\ \A i, j \in Seeded : names[i] = names[j] => i = j
  BY DEF Init, Table
<1>2. asked = [r \in Req |-> None] /\ answer = [r \in Req |-> None]
  BY DEF Init, asked, answer
<1>3. inUse \subseteq Seeded
  <2>1. PICK row \in [Existing -> [race : Seeded, version : {1}, stage : {"pending", "active"}]] :
          rows = [c \in CharacterId |-> IF c \in Existing THEN row[c] ELSE None]
    BY DEF Init
  <2>2. \A c \in CharacterId : rows[c] # None => rows[c].race \in Seeded
    BY <2>1
  <2> QED
    BY <2>2 DEF inUse, Referenced, Present
<1> QED
  BY <1>1, <1>2, <1>3 DEF Registry!Init, Registry!Unique, Registry!RaceId, RaceId

LEMMA StepMaps == BaseInv /\ BaseInv' /\ [Next]_vars => [Registry!Next]_Registry!vars
<1> SUFFICES ASSUME BaseInv, BaseInv', [Next]_vars PROVE [Registry!Next]_Registry!vars
  OBVIOUS
<1>1. ASSUME NEW r \in Req, Arrive(r) PROVE Registry!Next
  BY <1>1, ArrivalMaps DEF Registry!Next
<1>2. ASSUME NEW r \in Req, Fail(r) PROVE Registry!Next
  BY <1>2, FailMaps DEF Registry!Next
<1>3. ASSUME NEW r \in Req, Serve(r) PROVE Registry!Next
  BY <1>2, <1>3, RaceStatementsMap, FindMaps, CharacterStatementsMap DEF Serve, Registry!Next
<1>4. ASSUME NEW c \in CharacterId, Reclaim(c) \/ SoftDelete(c) PROVE Registry!Next
  BY <1>4, BackgroundMaps DEF Registry!Next
<1>5. CASE UNCHANGED vars
  BY <1>5 DEF vars, Registry!vars, inUse, asked, answer, Referenced, Present
<1> QED
  BY <1>1, <1>3, <1>4, <1>5 DEF Next

\* Every request for a race takes effect at one moment between its arrival and
\* its answer, whatever the characters do meanwhile.
THEOREM Implementation == Spec => ImplementsRegistry
  BY InitMaps, StepMaps, BaseInvariance, PTL DEF Spec, ImplementsRegistry, Registry!Spec
=============================================================================
