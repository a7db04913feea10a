--------------------------- MODULE IdempotentApi ---------------------------
(***************************************************************************)
(* The API as its clients reach it when REDIS_ADDR is set: CharacterService *)
(* behind the Idempotency middleware, which keeps one entry per endpoint   *)
(* and Idempotency-Key in a Redis shared by all instances.                 *)
(*                                                                         *)
(* The middleware's steps are its calls of the store (each one Redis       *)
(* command, which may fail, or take effect and still be reported as failed) *)
(* and the handler's run in between, which is CharacterService's.  A       *)
(* request without the header, and any PUT, PATCH or DELETE, passes the    *)
(* middleware by.  The response the handler writes goes straight through   *)
(* the recorder to the client: it is reply[r], whatever the store does next. *)
(***************************************************************************)
EXTENDS CharacterService

CONSTANTS
  Marker,                \* pendingMarker
  EntriesOutliveOwners  \* no request outlasts pendingTTL, and Redis loses no data

ASSUME EntriesOutliveIsBoolean == EntriesOutliveOwners \in BOOLEAN

VARIABLES
  store,   \* store[s]: the entry under store key s, None if there is none
  phase,   \* phase[r]: where r is in the middleware
  post,    \* post[r]: the POST r carries a key with, None for other requests
  answer   \* answer[r]: the answer the middleware gives r itself

apiVars == <<vars, store, phase, post, answer>>

StoreKey == {"create", "confirm"} \X Key

\* The path is the route's, "/characters/:id/confirm": the id is not in it.
KeyOf(p) == <<p.op, p.key>>

\* SHA-256 of the request body; a confirmation has none.
BodyHash(p) == [race |-> p.race, data |-> p.data]

Result ==
  [status : {"created", "confirmed"}, id : Id, version : Nat,
   body : [race : Race \cup {None}, data : [Field -> Value \cup {None}]]]

ASSUME MarkerIsNoResult == Marker # None /\ Marker \notin Result /\ None \notin Result

\* Replayed result, 409 in progress, 422 other body, 503.
MiddlewareAnswer ==
  [kind : {"replay"}, result : Result]
  \cup [kind : {"inProgress", "keyReused", "unavailable"}, result : {None}]

ASSUME NoneIsNoMiddlewareAnswer == None \notin MiddlewareAnswer

ApiTypeOK ==
  /\ TypeOK
  /\ store \in [StoreKey -> Result \cup {None, Marker}]
  /\ phase \in [Req -> {"idle", "begin", "get", "handler", "release", "done"}]
  /\ post \in [Req -> Call \cup {None}]
  /\ answer \in [Req -> MiddlewareAnswer \cup {None}]

ApiInit ==
  /\ Init
  /\ store = [s \in StoreKey |-> None]
  /\ phase = [r \in Req |-> "idle"]
  /\ post = [r \in Req |-> None]
  /\ answer = [r \in Req |-> None]

-----------------------------------------------------------------------------
(* Requests come in.                                                       *)

\* The POSTs that carry a key: the header also of a confirmation.
KeyedPosts(r) ==
  {c \in CreateCalls(r) \cup
         {[c EXCEPT !.key = k] : c \in UNION {ConfirmCalls(i) : i \in Known}, k \in Key} :
     c.key # None /\ c.op \in Ops}

Receive(r) ==
  /\ phase[r] = "idle"
  /\ \E p \in KeyedPosts(r) : post' = [post EXCEPT ![r] = p]
  /\ phase' = [phase EXCEPT ![r] = "begin"]
  /\ UNCHANGED <<vars, store, answer>>

\* No POST, or no key: next(c) is all the middleware does.
PassThrough(r) ==
  /\ phase[r] = "idle"
  /\ \E c \in CallsOf(r) : c.op \in Ops /\ c.key = None /\ Dispatch(r, c)
  /\ phase' = [phase EXCEPT ![r] = "done"]
  /\ UNCHANGED <<store, post, answer>>

-----------------------------------------------------------------------------
(* Store.Begin: SET NX, and a GET where the key was taken.                 *)

Put(s, entry) == store' = [store EXCEPT ![s] = entry]

Reject(r, kind, result) ==
  /\ answer' = [answer EXCEPT ![r] = [kind |-> kind, result |-> result]]
  /\ phase' = [phase EXCEPT ![r] = "done"]
  /\ UNCHANGED <<vars, post>>

\* Mutation of HandlerCall: the creation token is not handed on to the database.
HandlerCallWithoutToken(p) == [p EXCEPT !.key = None]

\* The handler of a confirmation does not look at the key.
HandlerCall(p) == IF p.op = "create" THEN p ELSE [p EXCEPT !.key = None]

\* Mutation of BeginSetNX: SET without NX.
BeginSet(r) ==
  /\ phase[r] = "begin"
  /\ Put(KeyOf(post[r]), Marker)
  /\ Dispatch(r, HandlerCall(post[r]))
  /\ phase' = [phase EXCEPT ![r] = "handler"]
  /\ UNCHANGED <<post, answer>>

BeginSetNX(r) ==
  /\ phase[r] = "begin"
  /\ \/ /\ store[KeyOf(post[r])] = None
        /\ Put(KeyOf(post[r]), Marker)
        /\ Dispatch(r, HandlerCall(post[r]))
        /\ phase' = [phase EXCEPT ![r] = "handler"]
     \/ /\ store[KeyOf(post[r])] # None
        /\ phase' = [phase EXCEPT ![r] = "get"]
        /\ UNCHANGED <<vars, store>>
  /\ UNCHANGED <<post, answer>>

\* Mutation of BeginGet: the stored result is replayed whatever the body is.
BeginGetAnyBody(r) ==
  LET entry == store[KeyOf(post[r])] IN
  /\ phase[r] = "get"
  /\ \/ entry \in {None, Marker} /\ Reject(r, "inProgress", None)
     \/ entry \notin {None, Marker} /\ Reject(r, "replay", entry)
  /\ UNCHANGED store

\* An entry that has expired since counts as in progress.
BeginGet(r) ==
  LET entry == store[KeyOf(post[r])] IN
  /\ phase[r] = "get"
  /\ \/ entry \in {None, Marker} /\ Reject(r, "inProgress", None)
     \/ /\ entry \notin {None, Marker}
        /\ entry.body # BodyHash(post[r])
        /\ Reject(r, "keyReused", None)
     \/ /\ entry \notin {None, Marker}
        /\ entry.body = BodyHash(post[r])
        /\ Reject(r, "replay", entry)
  /\ UNCHANGED store

\* Fail-closed: 503, although the SET NX may have left its marker.
BeginFails(r) ==
  /\ phase[r] \in {"begin", "get"}
  /\ \/ UNCHANGED store
     \/ phase[r] = "begin" /\ store[KeyOf(post[r])] = None /\ Put(KeyOf(post[r]), Marker)
  /\ Reject(r, "unavailable", None)

-----------------------------------------------------------------------------
(* After the handler.                                                      *)

Returned(r) == phase[r] = "handler" /\ pc[r] = "done"

\* Mutation of Keeps: every answer is kept.
KeepsAll(r) == reply[r] # None

\* Only a success is kept, and not one the database has replayed.
Keeps(r) == reply[r].status \in {"created", "confirmed"}

End(r) == phase' = [phase EXCEPT ![r] = "done"]

\* On an error the deferred Release runs, whether the SET took effect or not.
Complete(r) ==
  /\ Returned(r)
  /\ Keeps(r)
  /\ \/ /\ Put(KeyOf(post[r]), [status |-> reply[r].status, id |-> reply[r].id,
                                version |-> reply[r].version, body |-> BodyHash(post[r])])
        /\ phase' \in {[phase EXCEPT ![r] = p] : p \in {"done", "release"}}
     \/ phase' = [phase EXCEPT ![r] = "release"] /\ UNCHANGED store
  /\ UNCHANGED <<vars, post, answer>>

\* DEL, whatever is stored there by now.
Release(r) ==
  /\ phase[r] = "release" \/ (Returned(r) /\ ~Keeps(r))
  /\ Put(KeyOf(post[r]), None)
  /\ End(r)
  /\ UNCHANGED <<vars, post, answer>>

\* The DEL fails (it is only logged), or the process dies before it.
Abandon(r) ==
  /\ phase[r] = "release" \/ Returned(r)
  /\ End(r)
  /\ UNCHANGED <<vars, store, post, answer>>

-----------------------------------------------------------------------------
(* Time passes in Redis.                                                   *)

Owns(r, s) == phase[r] \in {"handler", "release"} /\ KeyOf(post[r]) = s

Expire(s) ==
  /\ EntriesOutliveOwners => \A r \in Req : ~Owns(r, s)
  /\ Put(s, None)
  /\ UNCHANGED <<vars, phase, post, answer>>

\* Mutation of ExpireMarker: the marker is set without a TTL.
MarkerWithoutTTL(s) == store[s] = Marker /\ FALSE

\* pendingTTL, five minutes; or the marker is lost with Redis' memory.
ExpireMarker(s) == store[s] = Marker /\ Expire(s)

\* The TTL of results, 24 hours; or Redis loses them.
ExpireResult(s) == store[s] \notin {None, Marker} /\ Expire(s)

-----------------------------------------------------------------------------
\* What happens behind the middleware.
Behind ==
  /\ \/ \E r \in Req : Serve(r)
     \/ \E i \in Id : Elapse(i)
     \/ SweepUnconfirmed
     \/ \E x \in Race : DeleteRace(x)
  /\ UNCHANGED <<store, phase, post, answer>>

Middleware(r) ==
  \/ BeginSetNX(r)
  \/ BeginGet(r)
  \/ BeginFails(r)
  \/ Complete(r)
  \/ Release(r)
  \/ Abandon(r)

ApiNext ==
  \/ \E r \in Req : Receive(r) \/ PassThrough(r) \/ Middleware(r)
  \/ \E s \in StoreKey : ExpireMarker(s) \/ ExpireResult(s)
  \/ Behind

ApiSpec == ApiInit /\ [][ApiNext]_apiVars

\* Goroutines run on, Redis expires what it was told to, and the clock and the
\* ticker of the sweeper go on.
ApiFairness ==
  LET Aside == UNCHANGED <<store, phase, post, answer>> IN
  /\ \A r \in Req : WF_apiVars(Middleware(r)) /\ WF_apiVars(Serve(r) /\ Aside)
  /\ \A s \in StoreKey : WF_apiVars(ExpireMarker(s))
  /\ WF_apiVars((\E i \in Id : Elapse(i)) /\ Aside)
  /\ WF_apiVars(SweepUnconfirmed /\ Aside)

FairApiSpec == ApiSpec /\ ApiFairness

-----------------------------------------------------------------------------
(* Safety.                                                                 *)

Replayed(r) == answer[r] # None /\ answer[r].kind = "replay"

\* The characters a client has been told its creation r made, by the handler or
\* by the store.
Told(r) ==
  (IF GivenCharacter(r) THEN {reply[r].id} ELSE {})
  \cup (IF Replayed(r) /\ answer[r].result.status = "created" THEN {answer[r].result.id} ELSE {})

\* One key, one character, for whatever a client is told and by whom: also when
\* markers expire under slow requests, the store fails half-way, or it forgets.
\* The sweeper alone can part two answers.
OneCharacterPerKey ==
  \A q, r \in Req :
    post[q] # None /\ post[r] # None /\ post[q].key = post[r].key =>
      \A i \in Told(q), j \in Told(r) : i = j \/ i \in reclaimed \/ j \in reclaimed

\* A handler has answered request q with this result, under store key s.
HandlerGave(q, s, result) ==
  /\ post[q] # None /\ KeyOf(post[q]) = s /\ BodyHash(post[q]) = result.body
  /\ reply[q] # None
  /\ reply[q].status = result.status /\ reply[q].id = result.id /\ reply[q].version = result.version

\* What is replayed is the answer that a handler gave to the same request: same
\* key, same body.  Nothing else can get under a store key, not even from a
\* request that has outlived its marker.
ReplaysAreFaithful ==
  \A r \in Req :
    Replayed(r) =>
      /\ answer[r].result.body = BodyHash(post[r])
      /\ \E q \in Req : HandlerGave(q, KeyOf(post[r]), answer[r].result)

\* Unlike a replayed creation, which the sweeper can have overtaken, a replayed
\* confirmation is true when it arrives and ever after, however long the store has
\* kept it: the character it names has its row and is confirmed.
ReplayedConfirmationsHold ==
  \A r \in Req :
    Replayed(r) /\ answer[r].result.status = "confirmed" =>
      Present(answer[r].result.id) /\ rows[answer[r].result.id].confirmed

\* A client that repeats its own request is not told that it misuses the key
\* because of a later request with another body: whoever gets 422 differs from
\* a request that has really made a character with this key.
RefusedBodiesDiffer ==
  \A r \in Req :
    answer[r] # None /\ answer[r].kind = "keyReused" =>
      \E q \in Req :
        /\ post[q] # None /\ KeyOf(post[q]) = KeyOf(post[r]) /\ BodyHash(post[q]) # BodyHash(post[r])
        /\ reply[q] # None /\ reply[q].status \in {"created", "confirmed"}

\* While entries outlive their owners, two handlers never run under one store
\* key, and no request releases or overwrites the entry of another.
OneHandlerPerKey ==
  \A r \in Req, s \in StoreKey :
    Owns(r, s) =>
      /\ \A q \in Req \ {r} : ~Owns(q, s)
      /\ phase[r] = "handler" => store[s] = Marker

-----------------------------------------------------------------------------
(* The inductive invariant.                                                *)

\* A request waits with a POST that the handler can be given, and the handler
\* serves what was posted.
PostsAreServed ==
  \A r \in Req :
    /\ phase[r] = "idle" => pc[r] = "idle" /\ post[r] = None
    /\ phase[r] \in {"begin", "get"} => pc[r] = "idle"
    /\ phase[r] \in {"begin", "get", "handler", "release"} => post[r] # None
    /\ phase[r] # "done" => answer[r] = None
    /\ answer[r] # None => post[r] # None
    /\ post[r] # None =>
         /\ KeyOf(post[r]) \in StoreKey
         /\ post[r].op \in Ops
         /\ \/ post[r] \in CreateCalls(r)
            \/ \E i \in Known : HandlerCall(post[r]) \in ConfirmCalls(i)
         /\ call[r] # None => call[r] = HandlerCall(post[r])

StoredResultsWereGiven ==
  \A s \in StoreKey :
    store[s] \notin {None, Marker} => \E q \in Req : HandlerGave(q, s, store[s])

\* An owner never finds its key free, or somebody else could begin.
OwnersHaveEntries ==
  EntriesOutliveOwners =>
    /\ OneHandlerPerKey
    /\ \A r \in Req, s \in StoreKey : Owns(r, s) => store[s] # None

ApiInv ==
  /\ Inv
  /\ ApiTypeOK
  /\ PostsAreServed
  /\ StoredResultsWereGiven
  /\ ReplaysAreFaithful
  /\ RefusedBodiesDiffer
  /\ OwnersHaveEntries

-----------------------------------------------------------------------------
(* Liveness, under FairApiSpec.                                            *)

\* No key answers 409 for ever, whoever dies holding it, or is told that the
\* reservation failed although it is there.
MarkersResolve == \A s \in StoreKey : store[s] = Marker ~> store[s] # Marker

-----------------------------------------------------------------------------
(* What docs say and the code does not do.                                 *)

\* README.md:154, idempotency.go:35-36: a key is scoped to method and path, and no client
\* is replayed the response for another resource.
ReplayIsOfSameResource ==
  \A r \in Req :
    Replayed(r) /\ post[r].op = "confirm" => answer[r].result.id = post[r].id

\* README.md, "creation": a repeated creation returns the existing row.
ReplayedCreationExists ==
  [][\A r \in Req :
       ~Replayed(r) /\ Replayed(r)' /\ post[r].op = "create" => Present(answer'[r].result.id)]_apiVars
=============================================================================
