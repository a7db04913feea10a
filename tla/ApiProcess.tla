------------------------------ MODULE ApiProcess ------------------------------
(***************************************************************************)
(* One process of the API: main.run from start to exit, the requests it    *)
(* serves through the middlewares of httpiface.New, the connection pool    *)
(* that handlers and sweeper share, and the signal that ends it.           *)
(*                                                                         *)
(* What a handler does with its statements is CharacterService and         *)
(* RaceCatalog, and what the idempotency middleware does is IdempotentApi; *)
(* here a request runs some statements and is answered.  The pool (pgx),   *)
(* the HTTP server and the rate limiter (echo) are libraries, modelled as  *)
(* this code uses them: of the limiter, that a request takes a token of    *)
(* its client, of which there are as many as the burst, and that tokens    *)
(* come back, when is left open.                                           *)
(***************************************************************************)
EXTENDS Integers, FiniteSets

CONSTANTS
  Req,           \* requests
  Client,        \* IP addresses
  ApiKeys,       \* values of X-Internal-API-Key that are not empty
  HalfRates,     \* values of RATE_LIMIT_RPS, in halves
  MaxConns,      \* the size of the connection pool
  MaxStatements, \* the most statements a handler runs
  None,
  Empty          \* the empty string: no header, or INTERNAL_API_KEY=

ASSUME PoolHasConnections == MaxConns \in Nat \ {0}
ASSUME StatementsAreCounted == MaxStatements \in Nat \ {0}
ASSUME RatesAreNotNegative == HalfRates \subseteq Nat
ASSUME EmptyIsNoKey == Empty \notin ApiKeys

VARIABLES
  config,     \* INTERNAL_API_KEY and RATE_LIMIT_RPS
  main,       \* where main.run is
  exit,       \* how the process ended, None while it runs
  listening,  \* the HTTP server accepts requests
  signalled,  \* a signal is in the channel `stop`
  failed,     \* an error is in the channel `srvErr`
  code,       \* what run is about to return: 0 or 1
  pool,       \* the connection pool
  sweeper,    \* the goroutine of the sweeper
  pc,         \* pc[r]: where request r is
  asked,      \* asked[r]: who asks for what
  left,       \* left[r]: the statements its handler may still run
  answer,     \* answer[r]: what it is answered
  tokens,     \* tokens[c]: the requests the limiter will let pass of client c
  given,      \* history: how many tokens the limiter has given back to client c
  tried       \* history: the requests whose key has been compared with ours

process == <<main, exit, listening, signalled, failed, code>>
requests == <<pc, asked, left, answer>>
limiter == <<tokens, given, tried>>
vars == <<config, process, pool, sweeper, requests, limiter>>

Path == {"healthz", "readyz", "api"}

Phase == {"start", "serve", "wait", "drain", "stopSweeper", "closePool", "end"}

Asked == [path : Path, client : Client, key : ApiKeys \cup {Empty}]

Result == {"served", "unauthorized", "tooMany", "notReady", "poolClosed", "dropped"}

ASSUME NoneIsNoData ==
  None \notin {"0", "1", "killed"} /\ None \notin Result /\ None \notin Asked

\* Mutation of Burst: int(RATE_LIMIT_RPS) as it is.
BurstNotRaised == config.halfRate \div 2

\* At least one request, also for a rate below one.
Burst == IF config.halfRate < 2 THEN 1 ELSE config.halfRate \div 2

TypeOK ==
  /\ config \in [key : ApiKeys \cup {Empty}, halfRate : HalfRates]
  /\ main \in Phase
  /\ exit \in {None, "0", "1", "killed"}
  /\ listening \in BOOLEAN /\ signalled \in BOOLEAN /\ failed \in BOOLEAN
  /\ code \in {"0", "1"}
  /\ pool \in {"none", "open", "closed"}
  /\ sweeper \in {"off", "idle", "sweeping", "stopped"}
  /\ pc \in [Req -> {"new", "limiter", "auth", "handler", "statement", "done"}]
  /\ asked \in [Req -> Asked \cup {None}]
  /\ left \in [Req -> 0 .. MaxStatements]
  /\ answer \in [Req -> Result \cup {None}]
  /\ tokens \in [Client -> 0 .. Burst]
  /\ given \in [Client -> Nat]
  /\ tried \in SUBSET {r \in Req : asked[r] # None}

Running == exit = None

UnderWay(r) == pc[r] \notin {"new", "done"}

\* The connections that statements hold.
InUse ==
  Cardinality({r \in Req : pc[r] = "statement"}) + (IF sweeper = "sweeping" THEN 1 ELSE 0)

Init ==
  /\ config \in [key : ApiKeys \cup {Empty}, halfRate : HalfRates]
  /\ main = "start"
  /\ exit = None
  /\ listening = FALSE /\ signalled = FALSE /\ failed = FALSE
  /\ code = "0"
  /\ pool = "none"
  /\ sweeper = "off"
  /\ pc = [r \in Req |-> "new"]
  /\ asked = [r \in Req |-> None]
  /\ left = [r \in Req |-> 0]
  /\ answer = [r \in Req |-> None]
  /\ tokens = [c \in Client |-> Burst]
  /\ given = [c \in Client |-> 0]
  /\ tried = {}

-----------------------------------------------------------------------------
(* main.run                                                                *)

\* The process ends; whoever is still being served is not answered.
Exit(how) ==
  /\ exit' = how
  /\ listening' = FALSE
  /\ answer' = [r \in Req |-> IF UnderWay(r) THEN "dropped" ELSE answer[r]]
  /\ UNCHANGED <<signalled, failed, code, pc, asked, left>>

\* The configuration is read and Postgres pinged: the pool is closed again if it fails.
StartFails ==
  /\ Running
  /\ main = "start"
  /\ main' = "end"
  /\ Exit("1")
  /\ UNCHANGED <<config, pool, sweeper, limiter>>

\* Redis does not answer: run returns, past the deferred Close of the pool.
RedisFails ==
  /\ Running
  /\ main = "start"
  /\ main' = "closePool"
  /\ code' = "1"
  /\ pool' = "open"
  /\ UNCHANGED <<config, exit, listening, signalled, failed, sweeper, requests, limiter>>

\* Everything is there: the sweeper starts (unless its interval is 0), and
\* the goroutine of the server.
Start ==
  /\ Running
  /\ main = "start"
  /\ main' = "serve"
  /\ pool' = "open"
  /\ sweeper' \in {"off", "idle"}
  /\ UNCHANGED <<config, exit, listening, signalled, failed, code, requests, limiter>>

\* signal.Notify, only now: the server may have been listening for a while.
Notify ==
  /\ Running
  /\ main = "serve"
  /\ main' = "wait"
  /\ UNCHANGED <<config, exit, listening, signalled, failed, code, pool, sweeper, requests, limiter>>

\* e.Start in its goroutine.
Listen ==
  /\ Running
  /\ main \in {"serve", "wait"}
  /\ ~listening /\ ~failed
  /\ listening' = TRUE
  /\ UNCHANGED <<config, main, exit, signalled, failed, code, pool, sweeper, requests, limiter>>

\* The port is taken, or accepting fails for good.
ServerFails ==
  /\ Running
  /\ main \in {"serve", "wait"}
  /\ ~failed
  /\ failed' = TRUE
  /\ listening' = FALSE
  /\ UNCHANGED <<config, main, exit, signalled, code, pool, sweeper, requests, limiter>>

\* Before Notify a SIGTERM kills the process, afterwards it goes to the channel.
Signal ==
  /\ Running
  /\ IF main \in {"start", "serve"}
     THEN /\ Exit("killed")
          /\ main' = "end"
     ELSE /\ ~signalled
          /\ signalled' = TRUE
          /\ UNCHANGED <<main, exit, listening, failed, code, requests>>
  /\ UNCHANGED <<config, pool, sweeper, limiter>>

\* The select of run: a signal leads to Shutdown, which closes the listener, an
\* error of the server straight to the deferred calls.
Select ==
  /\ Running
  /\ main = "wait"
  /\ \/ /\ signalled
        /\ main' = "drain"
        /\ listening' = FALSE
        /\ UNCHANGED code
     \/ /\ failed
        /\ main' = "stopSweeper"
        /\ code' = "1"
        /\ UNCHANGED listening
  /\ UNCHANGED <<config, exit, signalled, failed, pool, sweeper, requests, limiter>>

\* Mutation of Drained: e.Close() in the place of e.Shutdown().
ClosedAtOnce == TRUE

\* Shutdown returns when no request is being served.
Drained == \A r \in Req : ~UnderWay(r)

ShutdownCompletes ==
  /\ Running
  /\ main = "drain"
  /\ Drained
  /\ main' = "stopSweeper"
  /\ UNCHANGED <<config, exit, listening, signalled, failed, code, pool, sweeper, requests, limiter>>

\* Mutation of ShutdownTimesOut: the context of Shutdown has no deadline.
ShutdownNeverTimesOut == FALSE /\ UNCHANGED vars

\* Mutation of ShutdownTimesOut: the error ends the process there and then.
ShutdownErrorIsFatal ==
  /\ Running
  /\ main = "drain"
  /\ main' = "end"
  /\ Exit("1")
  /\ UNCHANGED <<config, pool, sweeper, limiter>>

\* Ten seconds have passed: run returns the error, past the deferred calls.
ShutdownTimesOut ==
  /\ Running
  /\ main = "drain"
  /\ main' = "stopSweeper"
  /\ code' = "1"
  /\ UNCHANGED <<config, exit, listening, signalled, failed, pool, sweeper, requests, limiter>>

\* The first deferred call cancels the context of the sweeper, not waiting for it:
\* a statement in progress is cancelled and returns its connection later.
StopSweeper ==
  /\ Running
  /\ main = "stopSweeper"
  /\ main' = "closePool"
  /\ sweeper' = IF sweeper = "idle" THEN "stopped" ELSE sweeper
  /\ UNCHANGED <<config, exit, listening, signalled, failed, code, pool, requests, limiter>>

\* The second: no connection is given out any more ...
ClosePool ==
  /\ Running
  /\ main = "closePool"
  /\ pool = "open"
  /\ pool' = "closed"
  /\ UNCHANGED <<config, process, sweeper, requests, limiter>>

\* ... and run ends when all have been returned.
Return ==
  /\ Running
  /\ main = "closePool"
  /\ pool = "closed"
  /\ InUse = 0
  /\ main' = "end"
  /\ Exit(code)
  /\ UNCHANGED <<config, pool, sweeper, limiter>>

-----------------------------------------------------------------------------
(* The sweeper: a tick takes a connection for one statement.               *)

SweepBegins ==
  /\ Running
  /\ sweeper = "idle"
  /\ pool = "open"
  /\ InUse < MaxConns
  /\ sweeper' = "sweeping"
  /\ UNCHANGED <<config, process, pool, requests, limiter>>

SweepEnds ==
  /\ Running
  /\ sweeper = "sweeping"
  /\ sweeper' = IF main \in {"closePool", "end"} THEN "stopped" ELSE "idle"
  /\ UNCHANGED <<config, process, pool, requests, limiter>>

-----------------------------------------------------------------------------
(* A request: BodyLimit and the like pass, then the group /api/v1.         *)

Goes(r, where) == pc' = [pc EXCEPT ![r] = where]

Reply(r, result) == answer' = [answer EXCEPT ![r] = result] /\ Goes(r, "done")

\* Mutation of After: the key is looked at before the limiter.
AfterKeyFirst(where) ==
  CASE where = "group"   -> "auth"
    [] where = "auth"    -> IF config.halfRate > 0 THEN "limiter" ELSE "handler"
    [] where = "limiter" -> "handler"

\* The middlewares of the group, in the order of api.Use.
After(where) ==
  CASE where = "group"   -> IF config.halfRate > 0 THEN "limiter" ELSE "auth"
    [] where = "limiter" -> "auth"
    [] where = "auth"    -> "handler"

Accept(r) ==
  /\ Running
  /\ listening
  /\ pc[r] = "new"
  /\ \E a \in Asked :
       /\ asked' = [asked EXCEPT ![r] = a]
       /\ \/ a.path = "healthz" /\ Reply(r, "served") /\ UNCHANGED left
          \/ /\ a.path = "readyz"
             /\ Goes(r, "handler")
             /\ left' = [left EXCEPT ![r] = 1]
             /\ UNCHANGED answer
          \/ /\ a.path = "api"
             /\ Goes(r, After("group"))
             /\ UNCHANGED <<left, answer>>
  /\ UNCHANGED <<config, process, pool, sweeper, limiter>>

\* One token of the client for each request, whatever its key; 429 without one.
RateLimit(r) ==
  LET c == asked[r].client IN
  /\ Running
  /\ pc[r] = "limiter"
  /\ IF tokens[c] > 0
     THEN tokens' = [tokens EXCEPT ![c] = @ - 1] /\ Goes(r, After("limiter")) /\ UNCHANGED answer
     ELSE Reply(r, "tooMany") /\ UNCHANGED tokens
  /\ UNCHANGED <<config, process, pool, sweeper, asked, left, given, tried>>

\* The limiter gives a token back: at its rate, or because it has forgotten an idle client.
Refill(c) ==
  /\ Running
  /\ tokens[c] < Burst
  /\ tokens' = [tokens EXCEPT ![c] = @ + 1]
  /\ given' = [given EXCEPT ![c] = @ + 1]
  /\ UNCHANGED <<config, process, pool, sweeper, requests, tried>>

\* Mutation of Authorized: the hashes of two empty keys are equal.
SameKey(r) == asked[r].key = config.key

Authorized(r) == config.key # Empty /\ asked[r].key = config.key

InternalAPIKey(r) ==
  /\ Running
  /\ pc[r] = "auth"
  /\ IF Authorized(r)
     THEN Goes(r, After("auth")) /\ left' = [left EXCEPT ![r] = MaxStatements] /\ UNCHANGED answer
     ELSE Reply(r, "unauthorized") /\ UNCHANGED left
  /\ tried' = tried \cup {r}
  /\ UNCHANGED <<config, process, pool, sweeper, asked, tokens, given>>

\* The handler takes a connection, or finds the pool closed.
BeginStatement(r) ==
  /\ Running
  /\ pc[r] = "handler"
  /\ left[r] > 0
  /\ \/ /\ pool = "open"
        /\ InUse < MaxConns
        /\ Goes(r, "statement")
        /\ left' = [left EXCEPT ![r] = @ - 1]
        /\ UNCHANGED answer
     \/ /\ pool = "closed"
        /\ Reply(r, IF asked[r].path = "readyz" THEN "notReady" ELSE "poolClosed")
        /\ UNCHANGED left
  /\ UNCHANGED <<config, process, pool, sweeper, asked, limiter>>

\* The statement ends, and returns its connection; a failed ping is a 503.
EndStatement(r) ==
  /\ Running
  /\ pc[r] = "statement"
  /\ \/ Goes(r, "handler") /\ UNCHANGED answer
     \/ asked[r].path = "readyz" /\ Reply(r, "notReady")
  /\ UNCHANGED <<config, process, pool, sweeper, asked, left, limiter>>

\* The handler answers, with or without statements (a 400, a replay); a panic is
\* recovered and answered, too.  A ping is made before it is answered.
Finish(r) ==
  /\ Running
  /\ pc[r] = "handler"
  /\ asked[r].path = "readyz" => left[r] = 0
  /\ Reply(r, "served")
  /\ UNCHANGED <<config, process, pool, sweeper, asked, left, limiter>>

Serve(r) ==
  \/ Accept(r) \/ RateLimit(r) \/ InternalAPIKey(r)
  \/ BeginStatement(r) \/ EndStatement(r) \/ Finish(r)

Run ==
  \/ StartFails \/ RedisFails \/ Start \/ Notify
  \/ Select \/ ShutdownCompletes \/ ShutdownTimesOut
  \/ StopSweeper \/ ClosePool \/ Return

Next ==
  \/ Run
  \/ Listen \/ ServerFails \/ Signal
  \/ SweepBegins \/ SweepEnds
  \/ \E c \in Client : Refill(c)
  \/ \E r \in Req : Serve(r)

Spec == Init /\ [][Next]_vars

\* main runs on, the deadline of Shutdown passes, and statements end.  Nothing is
\* assumed of clients, of the server, or of what a handler does between statements.
Fairness ==
  /\ WF_vars(Select) /\ WF_vars(ShutdownTimesOut)
  /\ WF_vars(StopSweeper) /\ WF_vars(ClosePool) /\ WF_vars(Return)
  /\ WF_vars(SweepEnds)
  /\ \A r \in Req : WF_vars(EndStatement(r))

FairSpec == Spec /\ Fairness

-----------------------------------------------------------------------------
(* Properties.                                                             *)

\* Exit code 0 means that nobody was let down: every request that was accepted
\* had its answer, and none of them found the pool closed under it.
CleanExitAnswersAll ==
  exit = "0" =>
    \A r \in Req : asked[r] # None => answer[r] \in {"served", "unauthorized", "tooMany", "notReady"}

\* A statement is cut off by the end of the process only if a signal comes while
\* main has not asked for signals yet, never by a shutdown, however it fails,
\* although nobody waits for the sweeper or for handlers after the deadline.
StatementsAreNotCutOff == exit \in {"0", "1"} => InUse = 0

\* No request gets to a statement of the API without the key, not even when the
\* key is configured to be empty and none is sent.
OnlyKeyHoldersGetIn ==
  \A r \in Req :
    asked[r] # None /\ asked[r].path = "api" /\ (pc[r] = "statement" \/ answer[r] = "served")
    => asked[r].key = config.key /\ asked[r].key \in ApiKeys

\* The requests of c whose key has been looked at.
TrialsOf(c) == {r \in tried : asked[r].client = c}

\* Guessing keys is limited: every look at a key that a client has sent, right or
\* wrong, has cost it a token, however its requests overlap, so it never has had
\* more of them than the burst and what the limiter has given back.
KeyTrialsAreLimited ==
  config.halfRate > 0 => \A c \in Client : Cardinality(TrialsOf(c)) <= Burst + given[c]

\* Request q of client c got past the limiter.
Passed(q, c) ==
  /\ asked[q] # None /\ asked[q].path = "api" /\ asked[q].client = c
  /\ pc[q] # "limiter" /\ answer[q] # "tooMany"

\* The limiter never locks a client out altogether, also at a rate below one
\* request per second.
NobodyIsLockedOut ==
  \A r \in Req : answer[r] = "tooMany" => \E q \in Req : Passed(q, asked[r].client)

\* What a request has behind it, from where it is.
RequestsFit ==
  \A r \in Req :
    /\ asked[r] = None <=> pc[r] = "new"
    /\ answer[r] # None <=> pc[r] = "done" \/ (UnderWay(r) /\ ~Running)
    /\ pc[r] \in {"limiter", "auth"} => asked[r].path = "api"
    /\ pc[r] \in {"handler", "statement"} /\ asked[r].path = "api" => Authorized(r)

\* What there is, and what can happen no more, from where main is.
PhasesFit ==
  /\ Running <=> main # "end"
  /\ main = "start" => pool = "none" /\ sweeper = "off" /\ \A r \in Req : pc[r] = "new"
  /\ listening => ~failed /\ main \in {"serve", "wait"}
  /\ pool = "closed" => main \in {"closePool", "end"}
  /\ code = "0" /\ main \in {"stopSweeper", "closePool"} => Drained
  /\ \A r \in Req : /\ answer[r] = "poolClosed" => code = "1" /\ pool = "closed"
                    /\ answer[r] = "dropped" => ~Running

Passers(c) == {q \in Req : Passed(q, c)}

\* Who has had his key looked at has passed the limiter, and has paid for it with
\* one of the tokens there were; what is missing of them has let somebody pass.
TokensFit ==
  \A c \in Client :
    /\ config.halfRate > 0 =>
         /\ TrialsOf(c) \subseteq Passers(c)
         /\ IsFiniteSet(Passers(c))
         /\ Cardinality(Passers(c)) + tokens[c] <= Burst + given[c]
    /\ tokens[c] < Burst => \E q \in Req : Passed(q, c)

\* The inductive invariant.
Inv ==
  /\ TypeOK /\ RequestsFit /\ PhasesFit /\ TokensFit
  /\ CleanExitAnswersAll /\ StatementsAreNotCutOff /\ OnlyKeyHoldersGetIn /\ NobodyIsLockedOut

\* A signal that main has asked for ends the process, whatever clients and
\* handlers do: no request and no sweep can hold it up for ever.
SignalEndsTheProcess == signalled ~> exit # None
=============================================================================
