--------------------------- MODULE ApiProcessProofs ---------------------------
(***************************************************************************)
(* The process: its invariant is inductive.  With it, exit code 0 means    *)
(* that everybody was answered, no shutdown cuts a statement off, nobody   *)
(* gets in without the key, and guessing it is limited, without locking a  *)
(* client out.                                                             *)
(***************************************************************************)
EXTENDS ApiProcess, FiniteSetTheorems, TLAPS

-----------------------------------------------------------------------------
(* The tokens of the limiter.                                              *)

LEMMA BurstIsPositive ==
  ASSUME TypeOK
  PROVE  config.halfRate \in Nat /\ Burst \in Nat \ {0}
<1>1. config.halfRate \in Nat
  BY RatesAreNotNegative DEF TypeOK
<1> QED
  BY <1>1 DEF Burst

\* A step that moves nobody past the limiter, neither takes nor gives a token and
\* looks at no key leaves the account of the tokens as it is.
LEMMA TokensStayFit ==
  ASSUME TokensFit, UNCHANGED <<config, tokens, given, tried>>, Burst' = Burst,
         \A r \in tried : asked'[r] = asked[r],
         \A q \in Req, c \in Client : Passed(q, c) => Passed(q, c)',
         config.halfRate > 0 => \A q \in Req, c \in Client : Passed(q, c)' => Passed(q, c)
  PROVE  TokensFit'
<1> SUFFICES ASSUME NEW c \in Client
             PROVE  /\ config.halfRate > 0 =>
                         /\ TrialsOf(c)' \subseteq Passers(c)'
                         /\ IsFiniteSet(Passers(c)')
                         /\ Cardinality(Passers(c)') + tokens[c] <= Burst + given[c]
                    /\ tokens[c] < Burst => \E q \in Req : Passed(q, c)'
  BY DEF TokensFit
<1>1. TrialsOf(c)' = TrialsOf(c)
  BY DEF TrialsOf
<1>2. config.halfRate > 0 => Passers(c)' = Passers(c)
  BY DEF Passers
<1> QED
  BY <1>1, <1>2 DEF TokensFit

\* Nothing is in use before the first statement.
LEMMA NothingInUse ==
  ASSUME \A r \in Req : pc[r] = "new", sweeper = "off"
  PROVE  InUse = 0
<1>1. {r \in Req : pc[r] = "statement"} = {}
  OBVIOUS
<1>2. Cardinality({}) = 0
  BY FS_EmptySet
<1> QED
  BY <1>1, <1>2 DEF InUse

-----------------------------------------------------------------------------
(* Steps of main, the server and the sweeper that leave requests alone.    *)

LEMMA MainKeepsInv ==
  ASSUME Inv,
         \/ RedisFails \/ Start \/ Notify \/ Listen \/ ServerFails \/ Select
         \/ ShutdownCompletes \/ ShutdownTimesOut \/ StopSweeper \/ ClosePool
         \/ SweepBegins \/ SweepEnds
  PROVE  Inv'
<1>1. Running /\ exit' = exit /\ UNCHANGED <<config, requests, limiter>>
  BY DEF RedisFails, Start, Notify, Listen, ServerFails, Select, ShutdownCompletes,
         ShutdownTimesOut, StopSweeper, ClosePool, SweepBegins, SweepEnds, process
<1>2. Running' /\ Burst' = Burst
  BY <1>1 DEF Running, Burst
<1>3. TypeOK'
  <2> DEFINE typed ==
        /\ main \in Phase
        /\ listening \in BOOLEAN /\ signalled \in BOOLEAN /\ failed \in BOOLEAN
        /\ code \in {"0", "1"}
        /\ pool \in {"none", "open", "closed"}
        /\ sweeper \in {"off", "idle", "sweeping", "stopped"}
  <2>3. typed
    BY DEF Inv, TypeOK
  <2>1. /\ main' \in Phase
        /\ listening' \in BOOLEAN /\ signalled' \in BOOLEAN /\ failed' \in BOOLEAN
        /\ code' \in {"0", "1"}
        /\ pool' \in {"none", "open", "closed"}
        /\ sweeper' \in {"off", "idle", "sweeping", "stopped"}
    BY <2>3 DEF Phase, RedisFails, Start, Notify, Listen, ServerFails, Select,
           ShutdownCompletes, ShutdownTimesOut, StopSweeper, ClosePool, SweepBegins, SweepEnds, process
  <2> QED
    BY <1>1, <1>2, <2>1 DEF Inv, TypeOK, requests, limiter
<1>4. PhasesFit'
  <2>1. /\ main' # "end"
        /\ main' = "start" => /\ pool' = "none" /\ sweeper' = "off"
                              /\ \A r \in Req : pc'[r] = "new"
        /\ listening' => ~failed' /\ main' \in {"serve", "wait"}
        /\ pool' = "closed" => main' \in {"closePool", "end"}
        /\ code' = "0" /\ main' \in {"stopSweeper", "closePool"} => Drained
        /\ code = "1" => code' = "1"
        /\ pool = "closed" => pool' = "closed"
    BY <1>1 DEF Inv, TypeOK, PhasesFit, RedisFails, Start, Notify, Listen, ServerFails, Select,
           ShutdownCompletes, ShutdownTimesOut, StopSweeper, ClosePool, SweepBegins, SweepEnds,
           process, requests
  <2> QED
    BY <1>1, <1>2, <2>1 DEF Inv, PhasesFit, Drained, UnderWay, requests
<1>5. RequestsFit' /\ OnlyKeyHoldersGetIn'
  BY <1>1, <1>2 DEF Inv, RequestsFit, OnlyKeyHoldersGetIn, Authorized, UnderWay, requests
<1>6. TokensFit' /\ NobodyIsLockedOut'
  BY <1>1, <1>2 DEF Inv, TokensFit, TrialsOf, Passers, NobodyIsLockedOut, Passed, requests, limiter
<1>7. CleanExitAnswersAll' /\ StatementsAreNotCutOff'
  BY <1>1, NoneIsNoData DEF Running, CleanExitAnswersAll, StatementsAreNotCutOff
<1> QED
  BY <1>3, <1>4, <1>5, <1>6, <1>7 DEF Inv

-----------------------------------------------------------------------------
(* The end.                                                                *)

LEMMA EndKeepsInv ==
  ASSUME Inv, Running, NEW how \in {"0", "1", "killed"}, Exit(how), main' = "end",
         UNCHANGED <<config, pool, sweeper, limiter>>,
         how = "0" => code = "0" /\ Drained,
         how \in {"0", "1"} => InUse = 0
  PROVE  Inv'
<1>1. /\ exit' = how /\ listening' = FALSE
      /\ answer' = [r \in Req |-> IF UnderWay(r) THEN "dropped" ELSE answer[r]]
      /\ UNCHANGED <<signalled, failed, code, pc, asked, left, config, pool, sweeper>>
      /\ UNCHANGED <<tokens, given, tried>>
  BY DEF Exit, limiter
<1>2. ~Running' /\ Burst' = Burst /\ InUse' = InUse
  BY <1>1, NoneIsNoData DEF Running, Burst, InUse
<1>3. TypeOK'
  <2>1. TypeOK /\ "end" \in Phase /\ "dropped" \in Result
    BY DEF Inv, Phase, Result
  <2>2. answer' \in [Req -> Result \cup {None}]
    BY <1>1, <2>1 DEF TypeOK
  <2>3. main' \in Phase /\ exit' \in {None, "0", "1", "killed"} /\ listening' \in BOOLEAN
    BY <1>1, <2>1
  <2> QED
    BY <1>1, <1>2, <2>1, <2>2, <2>3 DEF TypeOK
<1>4. \A r \in Req : answer'[r] = IF UnderWay(r) THEN "dropped" ELSE answer[r]
  BY <1>1
<1>5. RequestsFit'
  BY <1>1, <1>2, <1>4, NoneIsNoData DEF Inv, RequestsFit, UnderWay, Authorized, Result
<1>6. PhasesFit'
  BY <1>1, <1>2, <1>4 DEF Inv, PhasesFit
<1>7. TokensFit'
  <2>1. \A q \in Req : answer'[q] = "tooMany" <=> answer[q] = "tooMany"
    <3> SUFFICES ASSUME NEW q \in Req
                 PROVE  answer'[q] = "tooMany" <=> answer[q] = "tooMany"
      OBVIOUS
    <3>1. UnderWay(q) => answer[q] = None /\ answer'[q] = "dropped"
      BY <1>4 DEF Inv, RequestsFit, UnderWay
    <3>2. ~UnderWay(q) => answer'[q] = answer[q]
      BY <1>4
    <3> QED
      BY <3>1, <3>2, NoneIsNoData DEF Result
  <2>2. \A q \in Req, c \in Client : Passed(q, c)' <=> Passed(q, c)
    BY <1>1, <2>1 DEF Passed
  <2> QED
    BY <1>1, <1>2, <2>2, TokensStayFit DEF Inv
<1>8. NobodyIsLockedOut'
  BY <1>1, <1>4 DEF Inv, NobodyIsLockedOut, Passed
<1>9. OnlyKeyHoldersGetIn'
  BY <1>1, <1>4 DEF Inv, OnlyKeyHoldersGetIn
<1>10. CleanExitAnswersAll'
  <2> SUFFICES ASSUME how = "0", NEW r \in Req, asked[r] # None
               PROVE  answer[r] \in {"served", "unauthorized", "tooMany", "notReady"} /\ ~UnderWay(r)
    BY <1>1, <1>4 DEF CleanExitAnswersAll
  <2>1. ~UnderWay(r) /\ pc[r] = "done"
    BY DEF Drained, Inv, RequestsFit, UnderWay
  <2>2. answer[r] # None /\ answer[r] \in Result
    BY <2>1 DEF Inv, RequestsFit, TypeOK
  <2>3. answer[r] # "poolClosed"
    BY DEF Inv, PhasesFit
  <2>4. answer[r] # "dropped"
    BY DEF Inv, RequestsFit, PhasesFit, Running
  <2> QED
    BY <2>1, <2>2, <2>3, <2>4 DEF Result
<1>11. StatementsAreNotCutOff'
  BY <1>1, <1>2 DEF StatementsAreNotCutOff
<1> QED
  BY <1>3, <1>5, <1>6, <1>7, <1>8, <1>9, <1>10, <1>11 DEF Inv

-----------------------------------------------------------------------------
(* Requests.                                                               *)

LEMMA AcceptKeepsInv ==
  ASSUME Inv, NEW r \in Req, Accept(r)
  PROVE  Inv'
<1>1. PICK a \in Asked :
        /\ asked' = [asked EXCEPT ![r] = a]
        /\ \/ a.path = "healthz" /\ Reply(r, "served") /\ UNCHANGED left
           \/ /\ a.path = "readyz"
              /\ Goes(r, "handler")
              /\ left' = [left EXCEPT ![r] = 1]
              /\ UNCHANGED answer
           \/ /\ a.path = "api"
              /\ Goes(r, After("group"))
              /\ UNCHANGED <<left, answer>>
  BY DEF Accept
<1>2. /\ Running /\ listening /\ pc[r] = "new"
      /\ UNCHANGED <<config, main, exit, listening, signalled, failed, code, pool, sweeper>>
      /\ UNCHANGED <<tokens, given, tried>>
  BY DEF Accept, process, limiter
<1>3. /\ TypeOK /\ RequestsFit /\ PhasesFit /\ TokensFit
      /\ OnlyKeyHoldersGetIn /\ NobodyIsLockedOut
  BY DEF Inv
<1>4. Running' /\ Burst' = Burst
  BY <1>2 DEF Running, Burst
<1>5. a # None /\ asked[r] = None /\ answer[r] = None /\ main \in {"serve", "wait"}
  BY <1>2, <1>3, NoneIsNoData DEF RequestsFit, PhasesFit, UnderWay
<1>6. /\ asked'[r] = a
      /\ \A q \in Req \ {r} : asked'[q] = asked[q] /\ pc'[q] = pc[q] /\ answer'[q] = answer[q]
      /\ \/ a.path = "healthz" /\ pc'[r] = "done" /\ answer'[r] = "served"
         \/ a.path = "readyz" /\ pc'[r] = "handler" /\ answer'[r] = None
         \/ /\ a.path = "api" /\ answer'[r] = None
            /\ pc'[r] = IF config.halfRate > 0 THEN "limiter" ELSE "auth"
  BY <1>1, <1>3, <1>5 DEF TypeOK, Reply, Goes, After
<1>7. TypeOK'
  <2>1. left' \in [Req -> 0 .. MaxStatements]
    BY <1>1, <1>3, StatementsAreCounted DEF TypeOK
  <2>2. /\ asked' \in [Req -> Asked \cup {None}]
        /\ pc' \in [Req -> {"new", "limiter", "auth", "handler", "statement", "done"}]
        /\ answer' \in [Req -> Result \cup {None}]
    BY <1>1, <1>3 DEF TypeOK, Reply, Goes, Result, After
  <2>3. tried' \in SUBSET {q \in Req : asked'[q] # None}
    BY <1>2, <1>3, <1>5, <1>6 DEF TypeOK
  <2> QED
    BY <1>2, <1>3, <1>4, <2>1, <2>2, <2>3 DEF TypeOK
<1>8. RequestsFit'
  BY <1>2, <1>3, <1>4, <1>5, <1>6, NoneIsNoData DEF RequestsFit, UnderWay, Authorized, Result
<1>9. PhasesFit'
  BY <1>2, <1>3, <1>4, <1>5, <1>6, NoneIsNoData DEF PhasesFit, Result
<1>10. \A q \in Req, c \in Client : Passed(q, c) => Passed(q, c)' /\ q # r
  BY <1>5, <1>6 DEF Passed
<1>11. TokensFit'
  <2>1. config.halfRate > 0 => \A q \in Req, c \in Client : Passed(q, c)' => Passed(q, c)
    BY <1>6 DEF Passed
  <2>2. r \notin tried
    BY <1>3, <1>5 DEF TypeOK
  <2> QED
    BY <1>2, <1>3, <1>4, <1>6, <1>10, <2>1, <2>2, TokensStayFit DEF TypeOK
<1>12. NobodyIsLockedOut'
  <2> SUFFICES ASSUME NEW q \in Req, answer'[q] = "tooMany"
               PROVE  (\E p \in Req : Passed(p, asked[q].client))'
    BY DEF NobodyIsLockedOut
  <2>1. q # r /\ answer[q] = "tooMany" /\ asked'[q] = asked[q]
    BY <1>6, NoneIsNoData DEF Result
  <2>2. asked[q].client \in Client
    BY <1>3, <2>1, NoneIsNoData DEF TypeOK, RequestsFit, Asked, Result, UnderWay
  <2> QED
    BY <1>3, <1>10, <2>1, <2>2 DEF NobodyIsLockedOut
<1>13. OnlyKeyHoldersGetIn'
  BY <1>2, <1>3, <1>6, NoneIsNoData DEF OnlyKeyHoldersGetIn, Result
<1>14. CleanExitAnswersAll' /\ StatementsAreNotCutOff'
  BY <1>2, NoneIsNoData DEF Running, CleanExitAnswersAll, StatementsAreNotCutOff
<1> QED
  BY <1>7, <1>8, <1>9, <1>11, <1>12, <1>13, <1>14 DEF Inv

\* A step of a request that has been accepted: where it is, where it goes, and
\* with which answer.
Passage ==
  {<<"limiter", "auth", None>>, <<"limiter", "done", "tooMany">>,
   <<"auth", "handler", None>>, <<"auth", "done", "unauthorized">>,
   <<"handler", "statement", None>>, <<"handler", "done", "notReady">>,
   <<"handler", "done", "poolClosed">>, <<"handler", "done", "served">>,
   <<"statement", "handler", None>>, <<"statement", "done", "notReady">>}

Move(r, from, to, result) ==
  /\ <<from, to, result>> \in Passage
  /\ pc[r] = from /\ pc' = [pc EXCEPT ![r] = to]
  /\ result = None => answer' = answer
  /\ result # None => answer' = [answer EXCEPT ![r] = result]
  /\ from = "auth" /\ to = "handler" => Authorized(r)
  /\ result = "poolClosed" => pool = "closed"

Moved(r, to, result) ==
  /\ RequestsFit' /\ PhasesFit' /\ OnlyKeyHoldersGetIn'
  /\ CleanExitAnswersAll' /\ StatementsAreNotCutOff'
  /\ pc' \in [Req -> {"new", "limiter", "auth", "handler", "statement", "done"}]
  /\ answer' \in [Req -> Result \cup {None}]
  /\ asked[r] # None /\ asked[r] \in Asked
  /\ \A q \in Req \ {r} : pc'[q] = pc[q] /\ answer'[q] = answer[q]
  /\ pc'[r] = to /\ answer'[r] = result

LEMMA PassagesKeepRequests ==
  ASSUME Inv, NEW r \in Req, Running,
         NEW from, NEW to, NEW result, Move(r, from, to, result),
         UNCHANGED <<config, process, pool, sweeper, asked>>
  PROVE  Moved(r, to, result)
<1> USE DEF Move
<1>1. /\ TypeOK /\ RequestsFit /\ PhasesFit /\ OnlyKeyHoldersGetIn
      /\ UNCHANGED <<main, exit, listening, signalled, failed, code>>
  BY DEF Inv, process
<1>2. /\ from \notin {"new", "done"} /\ to # "new" /\ to # "limiter"
      /\ to \in {"new", "limiter", "auth", "handler", "statement", "done"}
      /\ result \in Result \cup {None}
  BY DEF Passage, Result
<1>3. asked[r] # None /\ asked[r] \in Asked /\ answer[r] = None
  BY <1>1, <1>2 DEF TypeOK, RequestsFit, UnderWay
<1>4. /\ pc' \in [Req -> {"new", "limiter", "auth", "handler", "statement", "done"}]
      /\ answer' \in [Req -> Result \cup {None}]
  BY <1>1, <1>2 DEF TypeOK
<1>5. /\ \A q \in Req \ {r} : pc'[q] = pc[q] /\ answer'[q] = answer[q]
      /\ pc'[r] = to /\ answer'[r] = result
  BY <1>1, <1>3 DEF TypeOK
<1>6. Running'
  BY <1>1 DEF Running
<1>7. to = "done" <=> result # None
  BY NoneIsNoData DEF Passage, Result
<1>8. /\ to = "auth" => from = "limiter"
      /\ to \in {"handler", "statement"} => from \in {"auth", "handler", "statement"}
      /\ from = "auth" => to \in {"handler", "done"}
      /\ result = "served" => from = "handler"
      /\ result # "dropped"
  BY NoneIsNoData DEF Passage, Result
<1>9. RequestsFit'
  <2> SUFFICES ASSUME NEW q \in Req
               PROVE  /\ asked[q] = None <=> pc'[q] = "new"
                      /\ answer'[q] # None <=> pc'[q] = "done"
                      /\ pc'[q] \in {"limiter", "auth"} => asked[q].path = "api"
                      /\ pc'[q] \in {"handler", "statement"} /\ asked[q].path = "api" => Authorized(q)
    BY <1>6 DEF RequestsFit, UnderWay, Authorized
  <2>1. CASE q = r
    BY <1>1, <1>2, <1>3, <1>5, <1>7, <1>8, <2>1 DEF RequestsFit
  <2>2. CASE q # r
    BY <1>1, <1>5, <2>2 DEF RequestsFit
  <2> QED
    BY <2>1, <2>2
<1>10. PhasesFit'
  <2>1. main # "start" /\ main # "end"
    BY <1>1, <1>2 DEF PhasesFit
  <2>2. code = "0" => main \notin {"stopSweeper", "closePool"}
    BY <1>1, <1>2 DEF PhasesFit, Drained, UnderWay
  <2>3. result = "poolClosed" => code = "1" /\ pool = "closed"
    BY <1>1, <2>1, <2>2 DEF PhasesFit, TypeOK
  <2> QED
    BY <1>1, <1>5, <1>6, <1>8, <2>1, <2>2, <2>3 DEF PhasesFit
<1>11. OnlyKeyHoldersGetIn'
  <2> SUFFICES ASSUME NEW q \in Req, asked[q] # None, asked[q].path = "api",
                      pc'[q] = "statement" \/ answer'[q] = "served"
               PROVE  asked[q].key = config.key /\ asked[q].key \in ApiKeys
    BY <1>1 DEF OnlyKeyHoldersGetIn
  <2>1. CASE q = r
    <3>1. Authorized(r)
      BY <1>1, <1>3, <1>5, <1>7, <1>8, <2>1, NoneIsNoData DEF RequestsFit, Result, Passage
    <3> QED
      BY <1>3, <2>1, <3>1 DEF Authorized, Asked
  <2>2. CASE q # r
    BY <1>1, <1>5, <2>2 DEF OnlyKeyHoldersGetIn
  <2> QED
    BY <2>1, <2>2
<1>12. CleanExitAnswersAll' /\ StatementsAreNotCutOff'
  BY <1>1, NoneIsNoData DEF Running, CleanExitAnswersAll, StatementsAreNotCutOff
<1> QED
  BY <1>3, <1>4, <1>5, <1>9, <1>10, <1>11, <1>12 DEF Moved

\* Who has passed the limiter has.
LEMMA PassedStays ==
  ASSUME NEW r \in Req, NEW to, NEW result, UNCHANGED asked,
         to # "limiter", result # "tooMany" \/ pc[r] = "limiter",
         \A q \in Req \ {r} : pc'[q] = pc[q] /\ answer'[q] = answer[q],
         pc'[r] = to, answer'[r] = result,
         NEW q \in Req, NEW c, Passed(q, c)
  PROVE  Passed(q, c)'
<1>1. CASE q = r
  BY <1>1 DEF Passed
<1>2. CASE q # r
  BY <1>2 DEF Passed
<1> QED
  BY <1>1, <1>2

\* Steps past the limiter.
LEMMA HandlersKeepInv ==
  ASSUME Inv, NEW r \in Req,
         InternalAPIKey(r) \/ BeginStatement(r) \/ EndStatement(r) \/ Finish(r)
  PROVE  Inv'
<1>1. /\ Running /\ UNCHANGED <<config, process, pool, sweeper, asked>>
      /\ UNCHANGED <<tokens, given>>
      /\ UNCHANGED tried \/ (pc[r] = "auth" /\ tried' = tried \cup {r})
      /\ left' \in [Req -> 0 .. MaxStatements]
  <2>1. left \in [Req -> 0 .. MaxStatements]
    BY DEF Inv, TypeOK
  <2>2. left' \in [Req -> 0 .. MaxStatements]
    <3>1. CASE UNCHANGED left
      BY <2>1, <3>1
    <3>2. CASE left' = [left EXCEPT ![r] = MaxStatements]
      BY <2>1, <3>2, StatementsAreCounted
    <3>3. CASE left' = [left EXCEPT ![r] = @ - 1] /\ left[r] > 0
      BY <2>1, <3>3, StatementsAreCounted
    <3> QED
      BY <3>1, <3>2, <3>3 DEF InternalAPIKey, BeginStatement, EndStatement, Finish
  <2> QED
    BY <2>2 DEF InternalAPIKey, BeginStatement, EndStatement, Finish, limiter
<1>2. PICK from, to, result : Move(r, from, to, result) /\ from # "limiter"
  <2> USE DEF Move
  <2>1. CASE InternalAPIKey(r)
    <3>1. Move(r, "auth", "handler", None) \/ Move(r, "auth", "done", "unauthorized")
      BY <2>1, NoneIsNoData DEF InternalAPIKey, After, Goes, Reply, Passage, Result
    <3> QED
      BY <3>1
  <2>2. CASE BeginStatement(r)
    <3>1. \/ Move(r, "handler", "statement", None)
          \/ Move(r, "handler", "done", "notReady") \/ Move(r, "handler", "done", "poolClosed")
      BY <2>2, NoneIsNoData DEF BeginStatement, Goes, Reply, Passage, Result
    <3> QED
      BY <3>1
  <2>3. CASE EndStatement(r)
    <3>1. Move(r, "statement", "handler", None) \/ Move(r, "statement", "done", "notReady")
      BY <2>3, NoneIsNoData DEF EndStatement, Goes, Reply, Passage, Result
    <3> QED
      BY <3>1
  <2>4. CASE Finish(r)
    <3>1. Move(r, "handler", "done", "served")
      BY <2>4, NoneIsNoData DEF Finish, Goes, Reply, Passage, Result
    <3> QED
      BY <3>1
  <2> QED
    BY <2>1, <2>2, <2>3, <2>4
<1>3. Moved(r, to, result)
  BY <1>1, <1>2, PassagesKeepRequests
<1> USE DEF Moved
<1>4. to # "limiter" /\ result # "tooMany" /\ Burst' = Burst
  BY <1>1, <1>2, NoneIsNoData DEF Move, Passage, Result, Burst
<1>5. TypeOK'
  <2>1. tried' \in SUBSET {q \in Req : asked[q] # None}
    BY <1>1, <1>3 DEF Inv, TypeOK
  <2> QED
    BY <1>1, <1>3, <1>4, <2>1 DEF Inv, TypeOK, process
<1>6. \A q \in Req, c \in Client : Passed(q, c)' <=> Passed(q, c)
  BY <1>1, <1>2, <1>3, <1>4, NoneIsNoData DEF Passed, Move, Inv, RequestsFit, UnderWay, Result, Passage
<1>7. TokensFit'
  <2>1. CASE UNCHANGED tried
    BY <1>1, <1>4, <1>6, <2>1, TokensStayFit DEF Inv
  <2>2. CASE pc[r] = "auth" /\ tried' = tried \cup {r}
    <3> SUFFICES ASSUME NEW c \in Client
                 PROVE  /\ config.halfRate > 0 =>
                             /\ TrialsOf(c)' \subseteq Passers(c)'
                             /\ IsFiniteSet(Passers(c)')
                             /\ Cardinality(Passers(c)') + tokens[c] <= Burst + given[c]
                        /\ tokens[c] < Burst => \E q \in Req : Passed(q, c)'
      BY <1>1, <1>4 DEF TokensFit
    <3>1. Passers(c)' = Passers(c)
      BY <1>6 DEF Passers
    <3>2. asked[r].client = c => r \in Passers(c)
      <4>1. answer[r] = None /\ asked[r] # None /\ asked[r].path = "api"
        BY <1>1, <2>2 DEF Inv, RequestsFit, UnderWay
      <4>2. answer[r] # "tooMany"
        BY <4>1, NoneIsNoData DEF Result
      <4> QED
        BY <2>2, <4>1, <4>2 DEF Passers, Passed
    <3>3. TrialsOf(c)' \subseteq TrialsOf(c) \cup {q \in {r} : asked[r].client = c}
      BY <1>1, <2>2 DEF TrialsOf
    <3> QED
      BY <1>6, <3>1, <3>2, <3>3 DEF Inv, TokensFit
  <2> QED
    BY <1>1, <2>1, <2>2
<1>8. NobodyIsLockedOut'
  <2> SUFFICES ASSUME NEW q \in Req, answer'[q] = "tooMany"
               PROVE  (\E p \in Req : Passed(p, asked[q].client))'
    BY DEF NobodyIsLockedOut
  <2>1. answer[q] = "tooMany"
    BY <1>3, <1>4
  <2>2. asked[q].client \in Client
    BY <2>1, NoneIsNoData DEF Inv, TypeOK, RequestsFit, Asked, Result, UnderWay
  <2> QED
    BY <1>1, <1>6, <2>1, <2>2 DEF Inv, NobodyIsLockedOut
<1> QED
  BY <1>3, <1>5, <1>7, <1>8 DEF Inv

-----------------------------------------------------------------------------
(* The limiter.                                                            *)

LEMMA RateLimitKeepsInv ==
  ASSUME Inv, NEW r \in Req, RateLimit(r)
  PROVE  Inv'
<1>0. PICK c \in Client : c = asked[r].client
  BY DEF RateLimit, Inv, TypeOK, RequestsFit, Asked
<1>1. /\ Running /\ UNCHANGED <<config, process, pool, sweeper, asked, left, given, tried>>
      /\ pc[r] = "limiter" /\ Burst' = Burst
  BY DEF RateLimit, Burst
<1>2. PICK to, result :
        /\ Move(r, "limiter", to, result)
        /\ \/ tokens[c] > 0 /\ to = "auth" /\ result = None /\ tokens' = [tokens EXCEPT ![c] = @ - 1]
           \/ ~(tokens[c] > 0) /\ to = "done" /\ result = "tooMany" /\ UNCHANGED tokens
  BY <1>0, NoneIsNoData DEF RateLimit, After, Goes, Reply, Move, Passage, Result
<1>3. Moved(r, to, result)
  BY <1>1, <1>2, PassagesKeepRequests
<1> USE DEF Moved
<1>4. asked[r].client = c /\ asked[r].path = "api" /\ to # "limiter"
  BY <1>0, <1>1, <1>2, <1>3 DEF Inv, RequestsFit
<1>5. /\ TypeOK /\ TokensFit /\ NobodyIsLockedOut
      /\ config.halfRate \in Nat /\ Burst \in Nat \ {0}
      /\ \A d \in Client : tokens[d] \in 0 .. Burst /\ given[d] \in Nat
  BY BurstIsPositive DEF Inv, TypeOK
<1>6. \/ /\ tokens[c] > 0 /\ result = None
         /\ tokens'[c] = tokens[c] - 1
         /\ \A d \in Client \ {c} : tokens'[d] = tokens[d]
      \/ tokens[c] = 0 /\ result = "tooMany" /\ UNCHANGED tokens
  BY <1>2, <1>4, <1>5 DEF TypeOK
<1>7. TypeOK'
  <2>1. tokens' \in [Client -> 0 .. Burst]
    BY <1>2, <1>4, <1>5 DEF TypeOK
  <2> QED
    BY <1>1, <1>3, <1>5, <2>1 DEF TypeOK, process
<1>8. \A q \in Req, d \in Client : Passed(q, d) => Passed(q, d)'
  BY <1>1, <1>3, <1>4, PassedStays
<1>9. \E q \in Req : Passed(q, c)'
  <2>1. CASE result = None
    <3>1. Passed(r, c)'
      BY <1>1, <1>3, <1>4, <2>1, NoneIsNoData DEF Passed, Result
    <3> QED
      BY <3>1
  <2>2. CASE tokens[c] = 0
    <3>1. tokens[c] < Burst
      BY <1>5, <2>2
    <3> QED
      BY <1>5, <1>8, <3>1 DEF TokensFit
  <2> QED
    BY <1>6, <2>1, <2>2
<1>10. TokensFit'
  <2> SUFFICES ASSUME NEW d \in Client
               PROVE  /\ config.halfRate > 0 =>
                           /\ TrialsOf(d) \subseteq Passers(d)'
                           /\ IsFiniteSet(Passers(d)')
                           /\ Cardinality(Passers(d)') + tokens'[d] <= Burst + given[d]
                      /\ tokens'[d] < Burst => \E q \in Req : Passed(q, d)'
    BY <1>1 DEF TokensFit, TrialsOf
  <2>1. tokens'[d] < Burst => \E q \in Req : Passed(q, d)'
    <3>1. CASE d = c
      BY <1>9, <3>1
    <3>2. CASE d # c
      <4>1. tokens'[d] = tokens[d]
        BY <1>6, <3>2
      <4> QED
        BY <1>5, <1>8, <4>1 DEF TokensFit
    <3> QED
      BY <3>1, <3>2
  <2>2. ASSUME config.halfRate > 0
        PROVE  /\ TrialsOf(d) \subseteq Passers(d)'
               /\ IsFiniteSet(Passers(d)')
               /\ Cardinality(Passers(d)') + tokens'[d] <= Burst + given[d]
    <3>1. /\ TrialsOf(d) \subseteq Passers(d) /\ IsFiniteSet(Passers(d))
          /\ Cardinality(Passers(d)) + tokens[d] <= Burst + given[d]
          /\ Cardinality(Passers(d)) \in Nat
      BY <1>5, <2>2, FS_CardinalityType DEF TokensFit
    <3>2. CASE d = c /\ result = None
      <4>1. Passers(d)' = Passers(d) \cup {r}
        BY <1>1, <1>3, <1>4, <3>2, NoneIsNoData DEF Passers, Passed, Result
      <4>2. r \notin Passers(d)
        BY <1>1 DEF Passers, Passed
      <4>3. IsFiniteSet(Passers(d)') /\ Cardinality(Passers(d)') = Cardinality(Passers(d)) + 1
        BY <3>1, <4>1, <4>2, FS_AddElement
      <4>4. tokens'[d] = tokens[d] - 1
        BY <1>6, <3>2, NoneIsNoData DEF Result
      <4> QED
        BY <1>5, <3>1, <4>1, <4>3, <4>4
    <3>3. CASE ~(d = c /\ result = None)
      <4>1. Passers(d)' = Passers(d)
        BY <1>1, <1>3, <1>4, <1>6, <3>3 DEF Passers, Passed
      <4>2. tokens'[d] = tokens[d]
        BY <1>6, <3>3
      <4> QED
        BY <3>1, <4>1, <4>2
    <3> QED
      BY <3>2, <3>3
  <2> QED
    BY <2>1, <2>2
<1>11. NobodyIsLockedOut'
  <2> SUFFICES ASSUME NEW q \in Req, answer'[q] = "tooMany"
               PROVE  (\E p \in Req : Passed(p, asked[q].client))'
    BY DEF NobodyIsLockedOut
  <2>1. CASE q = r
    BY <1>1, <1>4, <1>9, <2>1
  <2>2. CASE q # r
    <3>1. answer[q] = "tooMany"
      BY <1>3, <2>2
    <3>2. asked[q].client \in Client
      BY <1>5, <3>1, NoneIsNoData DEF Inv, TypeOK, RequestsFit, Asked, Result, UnderWay
    <3> QED
      BY <1>1, <1>5, <1>8, <3>1, <3>2 DEF NobodyIsLockedOut
  <2> QED
    BY <2>1, <2>2
<1> QED
  BY <1>3, <1>7, <1>10, <1>11 DEF Inv

\* A token comes back.
LEMMA RefillKeepsInv ==
  ASSUME Inv, NEW c \in Client, Refill(c)
  PROVE  Inv'
<1>1. /\ Running /\ UNCHANGED <<config, process, pool, sweeper, requests, tried>> /\ Burst' = Burst
      /\ UNCHANGED <<main, exit, listening, signalled, failed, code, pc, asked, left, answer>>
  BY DEF Refill, Burst, process, requests
<1>2. /\ TypeOK /\ TokensFit /\ Burst \in Nat \ {0}
      /\ \A d \in Client : tokens[d] \in 0 .. Burst /\ given[d] \in Nat
  BY BurstIsPositive DEF Inv, TypeOK
<1>3. RequestsFit' /\ PhasesFit' /\ OnlyKeyHoldersGetIn' /\ NobodyIsLockedOut'
      /\ CleanExitAnswersAll' /\ StatementsAreNotCutOff'
  BY <1>1, NoneIsNoData DEF Inv, RequestsFit, PhasesFit, Drained, OnlyKeyHoldersGetIn, NobodyIsLockedOut, Passed,
     CleanExitAnswersAll, StatementsAreNotCutOff, Authorized, UnderWay, Running
<1>4. tokens[c] < Burst /\ tokens' = [tokens EXCEPT ![c] = @ + 1] /\ given' = [given EXCEPT ![c] = @ + 1]
  BY DEF Refill
<1>5. TypeOK'
  <2>1. tokens' \in [Client -> 0 .. Burst] /\ given' \in [Client -> Nat]
    BY <1>2, <1>4 DEF TypeOK
  <2> QED
    BY <1>1, <1>2, <2>1 DEF TypeOK
<1>6. \A d \in Client : /\ tokens'[d] - given'[d] = tokens[d] - given[d]
                        /\ tokens'[d] >= tokens[d] /\ tokens'[d] \in Nat /\ given'[d] \in Nat
  BY <1>2, <1>4 DEF TypeOK
<1>7. TokensFit'
  <2> SUFFICES ASSUME NEW d \in Client
               PROVE  /\ config.halfRate > 0 =>
                           /\ TrialsOf(d) \subseteq Passers(d)
                           /\ IsFiniteSet(Passers(d))
                           /\ Cardinality(Passers(d)) + tokens'[d] <= Burst + given'[d]
                      /\ tokens'[d] < Burst => \E q \in Req : Passed(q, d)
    BY <1>1 DEF TokensFit, TrialsOf, Passers, Passed
  <2>1. IsFiniteSet(Passers(d)) => Cardinality(Passers(d)) \in Nat
    BY FS_CardinalityType
  <2> QED
    BY <1>2, <1>6, <2>1 DEF TokensFit
<1> QED
  BY <1>3, <1>5, <1>7 DEF Inv

-----------------------------------------------------------------------------
(* The theorems.                                                           *)

LEMMA InitInv == Init => Inv
<1> SUFFICES ASSUME Init PROVE Inv
  OBVIOUS
<1>1. Burst \in Nat \ {0}
  <2>1. config \in [key : ApiKeys \cup {Empty}, halfRate : HalfRates]
    BY DEF Init
  <2>2. config.halfRate \in Nat
    BY <2>1, RatesAreNotNegative
  <2> QED
    BY <2>2 DEF Burst
<1>2. TypeOK
  <2>1. /\ tokens = [c \in Client |-> Burst] /\ given = [c \in Client |-> 0] /\ tried = {}
        /\ left = [r \in Req |-> 0]
    BY DEF Init
  <2>2. /\ tokens \in [Client -> 0 .. Burst] /\ given \in [Client -> Nat]
        /\ tried \in SUBSET {r \in Req : asked[r] # None}
        /\ left \in [Req -> 0 .. MaxStatements]
    BY <1>1, <2>1, StatementsAreCounted
  <2>3. /\ asked \in [Req -> Asked \cup {None}] /\ answer \in [Req -> Result \cup {None}]
        /\ pc \in [Req -> {"new", "limiter", "auth", "handler", "statement", "done"}]
    BY DEF Init
  <2> QED
    BY <2>2, <2>3 DEF Init, TypeOK, Phase
<1>3. RequestsFit /\ PhasesFit
  BY NoneIsNoData DEF Init, RequestsFit, PhasesFit, UnderWay, Running, Result
<1>4. TokensFit
  <2>1. \A c \in Client : TrialsOf(c) = {} /\ Passers(c) = {}
    BY DEF Init, TrialsOf, Passers, Passed
  <2>2. \A c \in Client : tokens[c] = Burst /\ given[c] = 0
    BY DEF Init
  <2>3. IsFiniteSet({}) /\ Cardinality({}) = 0
    BY FS_EmptySet
  <2> QED
    BY <1>1, <2>1, <2>2, <2>3 DEF TokensFit
<1>5. CleanExitAnswersAll /\ StatementsAreNotCutOff /\ OnlyKeyHoldersGetIn /\ NobodyIsLockedOut
  BY NoneIsNoData DEF Init, CleanExitAnswersAll, StatementsAreNotCutOff, OnlyKeyHoldersGetIn,
     NobodyIsLockedOut, Result
<1> QED
  BY <1>2, <1>3, <1>4, <1>5 DEF Inv

LEMMA StepInv == Inv /\ [Next]_vars => Inv'
<1> SUFFICES ASSUME Inv, [Next]_vars PROVE Inv'
  OBVIOUS
<1>1. CASE StartFails
  <2>1. InUse = 0
    BY <1>1, NothingInUse DEF StartFails, Inv, PhasesFit
  <2> QED
    BY <1>1, <2>1, EndKeepsInv DEF StartFails
<1>2. CASE Return
  <2>1. code = "0" => Drained
    BY <1>2 DEF Return, Inv, PhasesFit
  <2>2. code \in {"0", "1"}
    BY DEF Inv, TypeOK
  <2> QED
    BY <1>2, <2>1, <2>2, EndKeepsInv DEF Return
<1>3. CASE Signal
  <2>1. CASE Exit("killed") /\ main' = "end" /\ Running /\ UNCHANGED <<config, pool, sweeper, limiter>>
    BY <2>1, EndKeepsInv
  <2>2. CASE /\ Running /\ signalled' = TRUE
             /\ UNCHANGED <<main, exit, listening, failed, code, requests>>
             /\ UNCHANGED <<config, pool, sweeper, limiter>>
    <3>1. TypeOK' /\ Burst' = Burst
      BY <2>2 DEF Inv, TypeOK, Burst, requests, limiter
    <3> QED
      BY <2>2, <3>1, NoneIsNoData
      DEF Inv, RequestsFit, PhasesFit, TokensFit, TrialsOf, Passers, Drained, OnlyKeyHoldersGetIn, NobodyIsLockedOut, Passed,
          CleanExitAnswersAll, StatementsAreNotCutOff, Authorized, UnderWay, Running, requests, limiter
  <2> QED
    BY <1>3, <2>1, <2>2 DEF Signal
<1>4. ASSUME NEW r \in Req, Serve(r) PROVE Inv'
  BY <1>4, AcceptKeepsInv, RateLimitKeepsInv, HandlersKeepInv DEF Serve
<1>5. CASE UNCHANGED vars
  <2>1. /\ UNCHANGED <<main, exit, listening, signalled, failed, code, pc, asked, left, answer>>
        /\ UNCHANGED <<config, pool, sweeper, tokens, given, tried>>
        /\ Burst' = Burst /\ InUse' = InUse
    BY <1>5 DEF vars, process, requests, limiter, Burst, InUse
  <2>2. TypeOK'
    BY <2>1 DEF Inv, TypeOK
  <2> QED
    BY <2>1, <2>2
    DEF Inv, RequestsFit, PhasesFit, TokensFit, TrialsOf, Passers, Drained, OnlyKeyHoldersGetIn, NobodyIsLockedOut, Passed,
        CleanExitAnswersAll, StatementsAreNotCutOff, Authorized, UnderWay, Running
<1> QED
  BY <1>1, <1>2, <1>3, <1>4, <1>5, MainKeepsInv, RefillKeepsInv DEF Next, Run

\* The invariant of the process.
THEOREM Invariance == Spec => []Inv
  BY InitInv, StepInv, PTL DEF Spec

\* Exit code 0 is only returned when every request had its answer.
THEOREM CleanExits == Spec => []CleanExitAnswersAll
<1>1. Inv => CleanExitAnswersAll
  BY DEF Inv
<1> QED
  BY <1>1, Invariance, PTL

\* run never returns while a statement of a handler or of the sweeper is in progress.
THEOREM NoStatementIsCutOff == Spec => []StatementsAreNotCutOff
<1>1. Inv => StatementsAreNotCutOff
  BY DEF Inv
<1> QED
  BY <1>1, Invariance, PTL

\* Nobody is served, or gets to the database, without the configured key.
THEOREM KeyIsNeeded == Spec => []OnlyKeyHoldersGetIn
<1>1. Inv => OnlyKeyHoldersGetIn
  BY DEF Inv
<1> QED
  BY <1>1, Invariance, PTL

\* No client has more keys looked at than it has had tokens, for any number of
\* requests that overlap in any way: the limiter stands before the key.
THEOREM GuessingIsLimited == Spec => []KeyTrialsAreLimited
<1>1. ASSUME Inv PROVE KeyTrialsAreLimited
  <2> SUFFICES ASSUME config.halfRate > 0, NEW c \in Client
               PROVE  Cardinality(TrialsOf(c)) <= Burst + given[c]
    BY DEF KeyTrialsAreLimited
  <2>1. /\ Burst \in Nat \ {0} /\ tokens[c] \in 0 .. Burst /\ given[c] \in Nat
    BY <1>1, BurstIsPositive DEF Inv, TypeOK
  <2>2. /\ TrialsOf(c) \subseteq Passers(c) /\ IsFiniteSet(Passers(c))
        /\ Cardinality(Passers(c)) + tokens[c] <= Burst + given[c]
    BY <1>1 DEF Inv, TokensFit
  <2>3. /\ Cardinality(TrialsOf(c)) <= Cardinality(Passers(c))
        /\ Cardinality(TrialsOf(c)) \in Nat /\ Cardinality(Passers(c)) \in Nat
    BY <2>2, FS_Subset, FS_CardinalityType
  <2> QED
    BY <2>1, <2>2, <2>3
<1> QED
  BY <1>1, Invariance, PTL

\* A refused client has had a request admitted, whatever the configured rate.
THEOREM LimiterLocksNobodyOut == Spec => []NobodyIsLockedOut
<1>1. Inv => NobodyIsLockedOut
  BY DEF Inv
<1> QED
  BY <1>1, Invariance, PTL
=============================================================================
