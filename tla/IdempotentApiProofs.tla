------------------------- MODULE IdempotentApiProofs -------------------------
(***************************************************************************)
(* Proofs about IdempotentApi: behind the middleware the service is still  *)
(* CharacterService, so its theorems hold there, and what the middleware   *)
(* adds on top of them.                                                    *)
(***************************************************************************)
EXTENDS IdempotentApi, CharacterRefinementProofs

-----------------------------------------------------------------------------
(* The middleware gives the service nothing that a client could not ask.   *)

\* What waits in front of the handler is a call.
LEMMA PostsAreCalls ==
  ASSUME PostsAreServed, NEW r \in Req, post[r] # None
  PROVE  /\ HandlerCall(post[r]) \in CallsOf(r)
         /\ HandlerCall(post[r]).op \in Ops
         /\ post[r].op \in {"create", "confirm"} /\ post[r].key \in Key
<1>1. /\ KeyOf(post[r]) \in StoreKey /\ post[r].op \in Ops
      /\ \/ post[r] \in CreateCalls(r)
         \/ \E i \in Known : HandlerCall(post[r]) \in ConfirmCalls(i)
  BY DEF PostsAreServed
<1>2. post[r].op \in {"create", "confirm"} /\ post[r].key \in Key
  BY <1>1 DEF KeyOf, StoreKey
<1>3. CASE post[r] \in CreateCalls(r)
  <2>1. post[r].op = "create"
    BY <1>3 DEF CreateCalls
  <2> QED
    BY <1>1, <1>2, <1>3, <2>1 DEF HandlerCall, CallsOf
<1>4. ASSUME NEW i \in Known, HandlerCall(post[r]) \in ConfirmCalls(i)
      PROVE  HandlerCall(post[r]) \in CallsOf(r) /\ HandlerCall(post[r]).op \in Ops
  <2>1. HandlerCall(post[r]).op = "confirm"
    BY <1>4 DEF ConfirmCalls
  <2>2. post[r].op = "confirm"
    BY <1>2, <2>1 DEF HandlerCall
  <2> QED
    BY <1>1, <1>4, <2>1, <2>2 DEF CallsOf
<1> QED
  BY <1>1, <1>2, <1>3, <1>4

LEMMA ApiStepsAreServiceSteps ==
  ASSUME PostsAreServed, [ApiNext]_apiVars
  PROVE  [Next]_vars
<1>1. ASSUME NEW r \in Req, Receive(r) \/ PassThrough(r)
      PROVE  [Next]_vars
  BY <1>1 DEF Receive, PassThrough, Next, Arrive
<1>2. ASSUME NEW r \in Req, BeginSetNX(r)
      PROVE  [Next]_vars
  <2>1. CASE UNCHANGED vars
    BY <2>1
  <2>2. CASE Dispatch(r, HandlerCall(post[r])) /\ phase[r] = "begin"
    <3>1. post[r] # None
      BY <2>2 DEF PostsAreServed
    <3> QED
      BY <2>2, <3>1, PostsAreCalls DEF Arrive, Next
  <2> QED
    BY <1>2, <2>1, <2>2 DEF BeginSetNX
<1>3. ASSUME NEW r \in Req, BeginGet(r) \/ BeginFails(r) \/ Complete(r) \/ Release(r) \/ Abandon(r)
      PROVE  UNCHANGED vars
  BY <1>3 DEF BeginGet, BeginFails, Complete, Release, Abandon, Reject
<1>4. ASSUME NEW s \in StoreKey, ExpireMarker(s) \/ ExpireResult(s)
      PROVE  UNCHANGED vars
  BY <1>4 DEF ExpireMarker, ExpireResult, Expire
<1>5. CASE Behind
  BY <1>5 DEF Behind, Next
<1>6. CASE UNCHANGED apiVars
  BY <1>6 DEF apiVars
<1> QED
  BY <1>1, <1>2, <1>3, <1>4, <1>5, <1>6 DEF ApiNext, Middleware

-----------------------------------------------------------------------------
(* Typing.                                                                 *)

\* The entry and the answers that a success is kept as.
KeptResult(r) ==
  [status |-> reply[r].status, id |-> reply[r].id, version |-> reply[r].version,
   body |-> BodyHash(post[r])]

\* The answers to keyed posts say nothing but what has been posted.
LEMMA PostsHaveBodies ==
  ASSUME PostsAreServed, NEW r \in Req, post[r] # None
  PROVE  BodyHash(post[r]) \in [race : Race \cup {None}, data : [Field -> Value \cup {None}]]
<1>1. CASE post[r] \in CreateCalls(r)
  BY <1>1 DEF CreateCalls, BodyHash
<1>2. ASSUME NEW i \in Known, HandlerCall(post[r]) \in ConfirmCalls(i)
      PROVE  BodyHash(post[r]) \in [race : Race \cup {None}, data : [Field -> Value \cup {None}]]
  <2>1. HandlerCall(post[r]).race = None /\ HandlerCall(post[r]).data = NoData
    BY <1>2 DEF ConfirmCalls
  <2>2. post[r].race = HandlerCall(post[r]).race /\ post[r].data = HandlerCall(post[r]).data
    BY DEF HandlerCall
  <2> QED
    BY <2>1, <2>2 DEF BodyHash, NoData
<1> QED
  BY <1>1, <1>2 DEF PostsAreServed

LEMMA KeptResultIsTyped ==
  ASSUME ApiTypeOK, PostsAreServed, RequestsWellFormed, NEW r \in Req, phase[r] = "handler", pc[r] = "done", Keeps(r)
  PROVE  KeptResult(r) \in Result
<1>1. post[r] # None /\ reply[r] # None
  BY DEF PostsAreServed, RequestsWellFormed
<1>2. reply[r] \in Reply
  BY <1>1 DEF ApiTypeOK, TypeOK
<1> QED
  BY <1>1, <1>2, PostsHaveBodies DEF KeptResult, Result, Keeps, Reply

LEMMA KeyedPostsAreCalls ==
  ASSUME TypeOK, RequestsWellFormed, NEW r \in Req, NEW p \in KeyedPosts(r)
  PROVE  /\ p \in Call /\ p # None
         /\ KeyOf(p) \in StoreKey
         /\ p.op \in Ops
         /\ \/ p \in CreateCalls(r)
            \/ \E i \in Known : HandlerCall(p) \in ConfirmCalls(i)
<1>1. p.key # None /\ p.op \in Ops
  BY DEF KeyedPosts
<1>2. CASE p \in CreateCalls(r)
  <2>1. p \in CallsOf(r) /\ p.op = "create" /\ p.key \in Key \cup {None}
    BY <1>2 DEF CallsOf, CreateCalls
  <2>2. p \in Call
    BY <2>1, CallsAreTyped
  <2> QED
    BY <1>1, <1>2, <2>1, <2>2, NoneIsNoData DEF KeyOf, StoreKey
<1>3. ASSUME NEW i \in Known, NEW c \in ConfirmCalls(i), NEW k \in Key, p = [c EXCEPT !.key = k]
      PROVE  /\ p \in Call /\ p # None /\ KeyOf(p) \in StoreKey
             /\ HandlerCall(p) \in ConfirmCalls(i)
  <2>1. c \in CallsOf(r)
    BY DEF CallsOf
  <2>2. c \in Call /\ c.op = "confirm" /\ c.key = None
    BY <2>1, CallsAreTyped DEF ConfirmCalls
  <2>3. p \in Call /\ p.op = "confirm" /\ p.key = k
    BY <1>3, <2>2 DEF Call
  <2>4. HandlerCall(p) = c
    BY <1>3, <2>2, <2>3 DEF HandlerCall, Call
  <2> QED
    BY <2>3, <2>4, NoneIsNoData DEF KeyOf, StoreKey
<1> QED
  BY <1>1, <1>2, <1>3 DEF KeyedPosts

LEMMA ApiTypesStay ==
  ASSUME Inv, ApiTypeOK, PostsAreServed, [ApiNext]_apiVars, TypeOK'
  PROVE  ApiTypeOK'
<1>1. ASSUME NEW r \in Req, Receive(r) PROVE ApiTypeOK'
  <2>1. PICK p \in KeyedPosts(r) : post' = [post EXCEPT ![r] = p]
    BY <1>1 DEF Receive
  <2>2. p \in Call
    BY KeyedPostsAreCalls DEF Inv
  <2> QED
    BY <1>1, <2>1, <2>2 DEF Receive, ApiTypeOK
<1>2. ASSUME NEW r \in Req, PassThrough(r) PROVE ApiTypeOK'
  BY <1>2 DEF PassThrough, ApiTypeOK
<1>3. ASSUME NEW r \in Req, BeginSetNX(r) PROVE ApiTypeOK'
  BY <1>3 DEF BeginSetNX, ApiTypeOK, Put
<1>4. ASSUME NEW r \in Req, BeginGet(r) PROVE ApiTypeOK'
  <2>1. post[r] # None /\ KeyOf(post[r]) \in StoreKey
    BY <1>4 DEF BeginGet, PostsAreServed
  <2>2. ASSUME NEW kind, NEW result, [kind |-> kind, result |-> result] \in MiddlewareAnswer,
               Reject(r, kind, result), UNCHANGED store
        PROVE  ApiTypeOK'
    BY <2>2 DEF Reject, ApiTypeOK
  <2>3. [kind |-> "inProgress", result |-> None] \in MiddlewareAnswer
        /\ [kind |-> "keyReused", result |-> None] \in MiddlewareAnswer
    BY DEF MiddlewareAnswer
  <2>4. ASSUME store[KeyOf(post[r])] \notin {None, Marker}
        PROVE  [kind |-> "replay", result |-> store[KeyOf(post[r])]] \in MiddlewareAnswer
    <3>1. store[KeyOf(post[r])] \in Result
      BY <2>1, <2>4 DEF ApiTypeOK
    <3> QED
      BY <3>1 DEF MiddlewareAnswer
  <2> QED
    BY <1>4, <2>2, <2>3, <2>4 DEF BeginGet
<1>5. ASSUME NEW r \in Req, BeginFails(r) PROVE ApiTypeOK'
  <2>1. [kind |-> "unavailable", result |-> None] \in MiddlewareAnswer
    BY DEF MiddlewareAnswer
  <2> QED
    BY <1>5, <2>1 DEF BeginFails, Reject, Put, ApiTypeOK
<1>6. ASSUME NEW r \in Req, Complete(r) PROVE ApiTypeOK'
  <2>1. KeptResult(r) \in Result
    BY <1>6, KeptResultIsTyped DEF Complete, Returned, Inv
  <2> QED
    BY <1>6, <2>1 DEF Complete, Put, KeptResult, ApiTypeOK
<1>7. ASSUME NEW r \in Req, Release(r) \/ Abandon(r) PROVE ApiTypeOK'
  BY <1>7 DEF Release, Abandon, End, Put, ApiTypeOK
<1>8. ASSUME NEW s \in StoreKey, ExpireMarker(s) \/ ExpireResult(s) PROVE ApiTypeOK'
  BY <1>8 DEF ExpireMarker, ExpireResult, Expire, Put, ApiTypeOK
<1>9. CASE Behind
  BY <1>9 DEF Behind, ApiTypeOK
<1>10. CASE UNCHANGED apiVars
  BY <1>10 DEF apiVars, ApiTypeOK
<1> QED
  BY <1>1, <1>2, <1>3, <1>4, <1>5, <1>6, <1>7, <1>8, <1>9, <1>10 DEF ApiNext, Middleware

-----------------------------------------------------------------------------
(* What a step does to one request.                                        *)

\* The middleware leaves q where it is.
Waits(q) == phase'[q] = phase[q] /\ post'[q] = post[q] /\ answer'[q] = answer[q]

LEMMA RequestMoves ==
  ASSUME Inv, ApiTypeOK, PostsAreServed, [ApiNext]_apiVars, NEW q \in Req
  PROVE  \/ Waits(q) /\ (Still(q) \/ Serve(q))
         \/ Receive(q)
         \/ PassThrough(q)
         \/ BeginSetNX(q)
         \/ BeginGet(q) \/ BeginFails(q)
         \/ Complete(q) \/ Release(q) \/ Abandon(q)
<1>1. UNCHANGED vars => Still(q)
  BY DEF vars, Still
<1>2. ASSUME NEW r \in Req \ {q}, NEW c, Dispatch(r, c) PROVE Still(q)
  BY <1>2 DEF Dispatch, Still, ApiTypeOK, TypeOK
<1>3. ASSUME NEW r \in Req \ {q}, Receive(r) \/ PassThrough(r) \/ Middleware(r)
      PROVE  Waits(q) /\ Still(q)
  <2>1. Waits(q)
    BY <1>3 DEF Receive, PassThrough, Middleware, BeginSetNX, BeginGet, BeginFails, Complete, Release,
                Abandon, End, Reject, Waits, ApiTypeOK
  <2>2. UNCHANGED vars \/ \E c : Dispatch(r, c)
    BY <1>3 DEF Receive, PassThrough, Middleware, BeginSetNX, BeginGet, BeginFails, Complete, Release,
                Abandon, Reject
  <2> QED
    BY <1>1, <1>2, <2>1, <2>2
<1>4. ASSUME NEW s \in StoreKey, ExpireMarker(s) \/ ExpireResult(s)
      PROVE  Waits(q) /\ Still(q)
  BY <1>1, <1>4 DEF ExpireMarker, ExpireResult, Expire, Waits
<1>5. CASE Behind
  <2>1. Waits(q)
    BY <1>5 DEF Behind, Waits
  <2>2. Still(q) \/ Serve(q)
    <3>1. ASSUME NEW r \in Req \ {q}, Serve(r) PROVE Still(q)
      BY <3>1 DEF Serve, SaveInsert, SaveFetchExisting, ConfirmPending, ConfirmRecheck, FindByID,
                  UpdateCharacter, SoftDelete, Fail, GoTo, Answer, Refuse, Acknowledge, Still,
                  Inv, TypeOK
    <3>2. CASE UNCHANGED <<pc, call, base, reply>>
      BY <3>2 DEF Still
    <3> QED
      BY <1>5, <3>1, <3>2 DEF Behind, Elapse, SweepUnconfirmed, DeleteRace
  <2> QED
    BY <2>1, <2>2
<1>6. CASE UNCHANGED apiVars
  BY <1>1, <1>6 DEF apiVars, Waits
<1> QED
  BY <1>3, <1>4, <1>5, <1>6 DEF ApiNext, Middleware

\* What a request has posted, called and been answered stands.
LEMMA PostsStand ==
  ASSUME Inv, ApiTypeOK, PostsAreServed, [ApiNext]_apiVars, NEW q \in Req
  PROVE  /\ post[q] # None => post'[q] = post[q]
         /\ reply[q] # None => reply'[q] = reply[q]
         /\ answer[q] # None => answer'[q] = answer[q]
<1>1. [Next]_vars
  BY ApiStepsAreServiceSteps
<1>2. reply[q] # None => reply'[q] = reply[q]
  BY <1>1, AnswersStand DEF Inv, Still
<1>3. Receive(q) \/ PassThrough(q) => phase[q] = "idle"
  BY DEF Receive, PassThrough
<1>4. BeginSetNX(q) \/ Complete(q) \/ Release(q) \/ Abandon(q) => UNCHANGED <<post, answer>>
  BY DEF BeginSetNX, Complete, Release, Abandon
<1>5. BeginGet(q) \/ BeginFails(q) => post' = post /\ phase[q] \in {"begin", "get"}
  BY DEF BeginGet, BeginFails, Reject
<1>6. PassThrough(q) => UNCHANGED <<post, answer>>
  BY DEF PassThrough
<1>7. Receive(q) => answer' = answer
  BY DEF Receive
<1> QED
  BY <1>2, <1>3, <1>4, <1>5, <1>6, <1>7, RequestMoves DEF Waits, PostsAreServed

LEMMA KnownGrows ==
  ASSUME Inv, PostsAreServed, ApiTypeOK, [ApiNext]_apiVars
  PROVE  Known \subseteq Known'
<1>1. \A q \in Req : reply[q] # None => reply'[q] = reply[q]
  BY PostsStand
<1> QED
  BY <1>1 DEF Known

\* A post that a client could make, while these characters are known.
Askable(p, r, known) ==
  /\ KeyOf(p) \in StoreKey
  /\ p.op \in Ops
  /\ \/ p \in CreateCalls(r)
     \/ \E i \in known : HandlerCall(p) \in ConfirmCalls(i)

\* PostsAreServed, as it is said of one request.
Served(r) ==
  /\ phase[r] = "idle" => pc[r] = "idle" /\ post[r] = None
  /\ phase[r] \in {"begin", "get"} => pc[r] = "idle"
  /\ phase[r] \in {"begin", "get", "handler", "release"} => post[r] # None
  /\ phase[r] # "done" => answer[r] = None
  /\ answer[r] # None => post[r] # None
  /\ post[r] # None => Askable(post[r], r, Known) /\ (call[r] # None => call[r] = HandlerCall(post[r]))

LEMMA ServedIsPostsAreServed == PostsAreServed <=> \A r \in Req : Served(r)
  BY DEF PostsAreServed, Served, Askable

LEMMA PostsStayServed ==
  ASSUME Inv, Inv', ApiTypeOK, PostsAreServed, [ApiNext]_apiVars
  PROVE  PostsAreServed'
<1> SUFFICES ASSUME NEW q \in Req PROVE Served(q)'
  BY DEF PostsAreServed, Served, Askable
<1>1. Served(q)
  BY ServedIsPostsAreServed
<1>2. \A p : Askable(p, q, Known) => Askable(p, q, Known')
  BY KnownGrows DEF Askable
<1>3. [Next]_vars
  BY ApiStepsAreServiceSteps
<1>4. /\ call[q] = None <=> pc[q] = "idle"
      /\ call'[q] = None <=> pc'[q] = "idle"
  BY DEF Inv, RequestsWellFormed
<1>5. CASE Waits(q) /\ (Still(q) \/ Serve(q))
  <2>1. CASE Still(q)
    BY <1>1, <1>2, <1>5, <2>1 DEF Waits, Still, Served
  <2>2. CASE Serve(q)
    <3>1. call'[q] = call[q] /\ call[q] # None
      BY <1>3, <2>2, AnswersStand DEF Inv
    <3> QED
      BY <1>1, <1>2, <1>4, <1>5, <3>1 DEF Waits, Served
  <2> QED
    BY <1>5, <2>1, <2>2
<1>6. CASE Receive(q)
  <2>1. PICK p \in KeyedPosts(q) : post' = [post EXCEPT ![q] = p]
    BY <1>6 DEF Receive
  <2>2. p # None /\ Askable(p, q, Known)
    BY KeyedPostsAreCalls DEF Inv, Askable
  <2>3. phase[q] = "idle" /\ phase'[q] = "begin" /\ post'[q] = p /\ answer' = answer /\ call' = call /\ pc' = pc
    BY <1>6, <2>1 DEF Receive, vars, ApiTypeOK
  <2> QED
    BY <1>1, <1>2, <1>4, <2>2, <2>3 DEF Served
<1>7. CASE PassThrough(q)
  <2>1. phase[q] = "idle" /\ phase'[q] = "done" /\ post' = post /\ answer' = answer
    BY <1>7 DEF PassThrough, ApiTypeOK
  <2> QED
    BY <1>1, <2>1 DEF Served
<1>8. CASE BeginSetNX(q)
  <2>1. phase[q] = "begin" /\ post' = post /\ answer' = answer
    BY <1>8 DEF BeginSetNX
  <2>2. CASE phase'[q] = "handler" /\ call'[q] = HandlerCall(post[q])
    BY <1>1, <1>2, <2>1, <2>2 DEF Served
  <2>3. CASE phase'[q] = "get" /\ pc' = pc /\ call' = call
    BY <1>1, <1>2, <2>1, <2>3 DEF Served
  <2> QED
    BY <1>8, <2>2, <2>3 DEF BeginSetNX, Dispatch, vars, ApiTypeOK, TypeOK
<1>9. CASE BeginGet(q) \/ BeginFails(q)
  <2>1. phase[q] \in {"begin", "get"} /\ phase'[q] = "done" /\ post' = post /\ call' = call /\ pc' = pc
    BY <1>9 DEF BeginGet, BeginFails, Reject, vars, ApiTypeOK
  <2> QED
    BY <1>1, <1>2, <2>1 DEF Served
<1>10. CASE Complete(q) \/ Release(q) \/ Abandon(q)
  <2>1. /\ phase[q] \in {"handler", "release"} /\ phase'[q] \in {"release", "done"}
        /\ post' = post /\ answer' = answer /\ call' = call /\ pc' = pc
    BY <1>10 DEF Complete, Release, Abandon, End, Returned, vars, ApiTypeOK
  <2> QED
    BY <1>1, <1>2, <2>1 DEF Served
<1> QED
  BY <1>5, <1>6, <1>7, <1>8, <1>9, <1>10, RequestMoves

-----------------------------------------------------------------------------
(* What the store holds was given by a handler.                            *)

\* How an entry may have changed.
LEMMA EntryMoves ==
  ASSUME Inv, ApiTypeOK, PostsAreServed, [ApiNext]_apiVars, NEW s \in StoreKey
  PROVE  \/ store'[s] \in {None, Marker, store[s]}
         \/ \E q \in Req : /\ Complete(q) /\ Keeps(q) /\ Returned(q)
                           /\ KeyOf(post[q]) = s /\ store'[s] = KeptResult(q)
<1>1. ASSUME NEW r \in Req, Complete(r)
      PROVE  \/ store'[s] \in {None, Marker, store[s]}
             \/ Keeps(r) /\ Returned(r) /\ KeyOf(post[r]) = s /\ store'[s] = KeptResult(r)
  BY <1>1 DEF Complete, Put, KeptResult, ApiTypeOK
<1>2. ASSUME NEW r \in Req, \/ Receive(r) \/ PassThrough(r) \/ BeginSetNX(r) \/ BeginGet(r)
                            \/ BeginFails(r) \/ Release(r) \/ Abandon(r)
      PROVE  store'[s] \in {None, Marker, store[s]}
  BY <1>2 DEF Receive, PassThrough, BeginSetNX, BeginGet, BeginFails, Release, Abandon, Put, ApiTypeOK
<1>3. ASSUME NEW t \in StoreKey, ExpireMarker(t) \/ ExpireResult(t)
      PROVE  store'[s] \in {None, Marker, store[s]}
  BY <1>3 DEF ExpireMarker, ExpireResult, Expire, Put, ApiTypeOK
<1>4. CASE Behind
  BY <1>4 DEF Behind
<1>5. CASE UNCHANGED apiVars
  BY <1>5 DEF apiVars
<1> QED
  BY <1>1, <1>2, <1>3, <1>4, <1>5 DEF ApiNext, Middleware

LEMMA GiftsStand ==
  ASSUME Inv, ApiTypeOK, PostsAreServed, [ApiNext]_apiVars,
         NEW q \in Req, NEW s, NEW result, HandlerGave(q, s, result)
  PROVE  HandlerGave(q, s, result)'
<1>1. post'[q] = post[q] /\ reply'[q] = reply[q]
  BY PostsStand DEF HandlerGave
<1> QED
  BY <1>1 DEF HandlerGave

LEMMA StoredResultsStep ==
  ASSUME Inv, ApiTypeOK, PostsAreServed, StoredResultsWereGiven, [ApiNext]_apiVars
  PROVE  StoredResultsWereGiven'
<1> SUFFICES ASSUME NEW s \in StoreKey, store'[s] \notin {None, Marker}
             PROVE  \E q \in Req : HandlerGave(q, s, store[s])'
  BY DEF StoredResultsWereGiven
<1>1. CASE store'[s] = store[s]
  <2>1. PICK q \in Req : HandlerGave(q, s, store[s])
    BY <1>1 DEF StoredResultsWereGiven
  <2>2. post'[q] = post[q] /\ reply'[q] = reply[q]
    BY <2>1, PostsStand DEF HandlerGave
  <2> QED
    BY <1>1, <2>1, <2>2 DEF HandlerGave
<1>2. CASE \E q \in Req : /\ Complete(q) /\ Keeps(q) /\ Returned(q)
                          /\ KeyOf(post[q]) = s /\ store'[s] = KeptResult(q)
  <2>1. PICK q \in Req : /\ Complete(q) /\ Returned(q)
                         /\ KeyOf(post[q]) = s /\ store'[s] = KeptResult(q)
    BY <1>2
  <2>2. post[q] # None /\ reply[q] # None /\ post' = post /\ reply' = reply
    BY <2>1 DEF Complete, Returned, PostsAreServed, Inv, RequestsWellFormed, vars
  <2> QED
    BY <2>1, <2>2 DEF HandlerGave, KeptResult
<1> QED
  BY <1>1, <1>2, EntryMoves

LEMMA ReplaysStep ==
  ASSUME Inv, ApiTypeOK, PostsAreServed, StoredResultsWereGiven, ReplaysAreFaithful, [ApiNext]_apiVars
  PROVE  ReplaysAreFaithful'
<1> SUFFICES ASSUME NEW r \in Req, Replayed(r)'
             PROVE  /\ answer'[r].result.body = BodyHash(post'[r])
                    /\ \E q \in Req : HandlerGave(q, KeyOf(post[r]), answer[r].result)'
  BY DEF ReplaysAreFaithful
<1>1. CASE answer[r] # None
  <2>1. answer'[r] = answer[r] /\ post'[r] = post[r]
    BY <1>1, PostsStand DEF PostsAreServed
  <2>2. Replayed(r)
    BY <1>1, <2>1 DEF Replayed
  <2>3. PICK q \in Req : HandlerGave(q, KeyOf(post[r]), answer[r].result)
    BY <2>2 DEF ReplaysAreFaithful
  <2>4. post'[q] = post[q] /\ reply'[q] = reply[q]
    BY <2>3, PostsStand DEF HandlerGave
  <2> QED
    BY <2>1, <2>2, <2>3, <2>4 DEF HandlerGave, ReplaysAreFaithful
<1>2. CASE answer[r] = None
  <2>1. BeginGet(r)
    <3>1. BeginFails(r) => ~Replayed(r)'
      BY DEF BeginFails, Reject, Replayed, ApiTypeOK
    <3>2. answer'[r] # answer[r]
      BY <1>2 DEF Replayed
    <3> QED
      BY <3>1, <3>2, RequestMoves DEF Waits, Receive, PassThrough, BeginSetNX, Complete, Release, Abandon
  <2> DEFINE entry == store[KeyOf(post[r])]
  <2>2. /\ answer'[r].result = entry
        /\ entry.body = BodyHash(post[r])
        /\ entry \notin {None, Marker}
        /\ post' = post /\ reply' = reply /\ post[r] # None
    BY <2>1 DEF BeginGet, Reject, Replayed, ApiTypeOK, vars, PostsAreServed
  <2>3. PICK q \in Req : HandlerGave(q, KeyOf(post[r]), entry)
    BY <2>2 DEF StoredResultsWereGiven, PostsAreServed
  <2> QED
    BY <2>2, <2>3 DEF HandlerGave
<1> QED
  BY <1>1, <1>2

\* A request that has been answered with success and posted another body.
Differs(q, r) ==
  /\ post[q] # None /\ KeyOf(post[q]) = KeyOf(post[r]) /\ BodyHash(post[q]) # BodyHash(post[r])
  /\ reply[q] # None /\ reply[q].status \in {"created", "confirmed"}

LEMMA RefusalsStep ==
  ASSUME Inv, ApiTypeOK, PostsAreServed, StoredResultsWereGiven, RefusedBodiesDiffer, [ApiNext]_apiVars
  PROVE  RefusedBodiesDiffer'
<1> SUFFICES ASSUME NEW r \in Req, answer'[r] # None, answer'[r].kind = "keyReused"
             PROVE  \E q \in Req : Differs(q, r)'
  BY DEF RefusedBodiesDiffer, Differs
<1>1. CASE answer[r] # None
  <2>1. answer'[r] = answer[r] /\ post'[r] = post[r]
    BY <1>1, PostsStand DEF PostsAreServed
  <2>2. PICK q \in Req : Differs(q, r)
    BY <1>1, <2>1 DEF RefusedBodiesDiffer, Differs
  <2>3. post'[q] = post[q] /\ reply'[q] = reply[q]
    BY <2>2, PostsStand DEF Differs
  <2> QED
    BY <2>1, <2>2, <2>3 DEF Differs
<1>2. CASE answer[r] = None
  <2>1. BeginGet(r)
    <3>1. ~BeginFails(r)
      BY DEF BeginFails, Reject, ApiTypeOK
    <3> QED
      BY <1>2, <3>1, RequestMoves DEF Waits, Receive, PassThrough, BeginSetNX, Complete, Release, Abandon
  <2> DEFINE entry == store[KeyOf(post[r])]
  <2>2. /\ entry.body # BodyHash(post[r])
        /\ entry \notin {None, Marker}
        /\ post' = post /\ reply' = reply /\ post[r] # None
    BY <2>1 DEF BeginGet, Reject, ApiTypeOK, vars, PostsAreServed
  <2>3. KeyOf(post[r]) \in StoreKey
    BY <2>2 DEF PostsAreServed
  <2>4. entry \in Result
    BY <2>2, <2>3 DEF ApiTypeOK
  <2>5. PICK q \in Req : HandlerGave(q, KeyOf(post[r]), entry)
    BY <2>2, <2>3 DEF StoredResultsWereGiven
  <2> QED
    BY <2>2, <2>4, <2>5 DEF HandlerGave, Differs, Result
<1> QED
  BY <1>1, <1>2

-----------------------------------------------------------------------------
(* Ownership of keys, while entries outlive their owners.                  *)

\* Every owner is the only one, and has an entry; a running handler its marker.
KeysAreOwned ==
  \A r \in Req, s \in StoreKey :
    Owns(r, s) =>
      /\ store[s] # None
      /\ phase[r] = "handler" => store[s] = Marker
      /\ \A q \in Req \ {r} : ~Owns(q, s)

\* A request becomes an owner where it finds the key free.
LEMMA OwnersBegin ==
  ASSUME Inv, ApiTypeOK, PostsAreServed, [ApiNext]_apiVars, NEW r \in Req, NEW s \in StoreKey,
         Owns(r, s)'
  PROVE  \/ Owns(r, s) /\ (phase'[r] = "handler" => phase[r] = "handler")
         \/ /\ store[s] = None /\ store'[s] = Marker
            /\ BeginSetNX(r) /\ KeyOf(post[r]) = s
<1>1. CASE Waits(r)
  BY <1>1 DEF Waits, Owns
<1>2. CASE Receive(r) \/ PassThrough(r) \/ BeginGet(r) \/ BeginFails(r)
  <2>1. phase'[r] \notin {"handler", "release"}
    BY <1>2 DEF Receive, PassThrough, BeginGet, BeginFails, Reject, ApiTypeOK
  <2> QED
    BY <2>1 DEF Owns
<1>3. CASE BeginSetNX(r)
  BY <1>3 DEF BeginSetNX, Put, Owns, ApiTypeOK
<1>4. CASE Complete(r) \/ Release(r) \/ Abandon(r)
  <2>1. phase[r] \in {"handler", "release"} /\ phase'[r] \in {"release", "done"} /\ post' = post
    BY <1>4 DEF Complete, Release, Abandon, End, Returned, ApiTypeOK
  <2> QED
    BY <2>1 DEF Owns
<1> QED
  BY <1>1, <1>2, <1>3, <1>4, RequestMoves

\* Nobody but an owner touches an entry.
LEMMA EntriesStayWithOwners ==
  ASSUME Inv, ApiTypeOK, PostsAreServed, KeysAreOwned, EntriesOutliveOwners, [ApiNext]_apiVars,
         NEW r \in Req, NEW s \in StoreKey, Owns(r, s), Owns(r, s)'
  PROVE  /\ store'[s] # None
         /\ phase'[r] = "handler" => store'[s] = store[s]
<1>1. store[s] # None
  BY DEF KeysAreOwned
<1>2. ASSUME NEW q \in Req, Complete(q) \/ Release(q) \/ Abandon(q)
      PROVE  /\ store'[s] # None
             /\ phase'[r] = "handler" => store'[s] = store[s]
  <2>1. phase[q] \in {"handler", "release"}
    BY <1>2 DEF Complete, Release, Abandon, Returned
  <2>2. CASE KeyOf(post[q]) # s
    BY <1>1, <1>2, <2>2 DEF Complete, Release, Abandon, Put, ApiTypeOK
  <2>3. CASE KeyOf(post[q]) = s
    <3>1. q = r
      BY <2>1, <2>3 DEF KeysAreOwned, Owns
    <3>2. ~Release(q)
      BY <3>1 DEF Release, End, Owns, ApiTypeOK
    <3>3. Complete(q) => phase'[r] # "handler" /\ (store'[s] = store[s] \/ store'[s] = KeptResult(q))
      BY <2>3, <3>1 DEF Complete, Put, KeptResult, ApiTypeOK
    <3>4. Complete(q) => KeptResult(q) # None
      BY KeptResultIsTyped, MarkerIsNoResult DEF Complete, Returned, Inv
    <3>5. Abandon(q) => store' = store
      BY DEF Abandon
    <3> QED
      BY <1>1, <1>2, <3>2, <3>3, <3>4, <3>5
  <2> QED
    BY <2>2, <2>3
<1>3. ASSUME NEW q \in Req, Receive(q) \/ PassThrough(q) \/ BeginSetNX(q) \/ BeginGet(q) \/ BeginFails(q)
      PROVE  store'[s] = store[s]
  BY <1>1, <1>3 DEF Receive, PassThrough, BeginSetNX, BeginGet, BeginFails, Put, ApiTypeOK
<1>4. ASSUME NEW t \in StoreKey, ExpireMarker(t) \/ ExpireResult(t)
      PROVE  store'[s] = store[s]
  <2>1. t # s
    BY <1>4 DEF ExpireMarker, ExpireResult, Expire
  <2> QED
    BY <1>4, <2>1 DEF ExpireMarker, ExpireResult, Expire, Put, ApiTypeOK
<1>5. CASE Behind
  BY <1>1, <1>5 DEF Behind
<1>6. CASE UNCHANGED apiVars
  BY <1>1, <1>6 DEF apiVars
<1> QED
  BY <1>1, <1>2, <1>3, <1>4, <1>5, <1>6 DEF ApiNext, Middleware

LEMMA KeysStayOwned ==
  ASSUME Inv, ApiTypeOK, PostsAreServed, KeysAreOwned, EntriesOutliveOwners, [ApiNext]_apiVars
  PROVE  KeysAreOwned'
<1> SUFFICES ASSUME NEW r \in Req, NEW s \in StoreKey, Owns(r, s)'
             PROVE  /\ store'[s] # None
                    /\ phase'[r] = "handler" => store'[s] = Marker
                    /\ \A q \in Req \ {r} : ~Owns(q, s)'
  BY DEF KeysAreOwned
<1>1. store'[s] # None /\ (phase'[r] = "handler" => store'[s] = Marker)
  <2>1. CASE Owns(r, s) /\ (phase'[r] = "handler" => phase[r] = "handler")
    BY <2>1, EntriesStayWithOwners DEF KeysAreOwned
  <2>2. CASE store'[s] = Marker
    BY <2>2, MarkerIsNoResult
  <2> QED
    BY <2>1, <2>2, OwnersBegin
<1>2. ASSUME NEW q \in Req \ {r}, Owns(q, s)' PROVE FALSE
  <2>1. \/ Owns(q, s)
        \/ store[s] = None /\ BeginSetNX(q)
    BY <1>2, OwnersBegin
  <2>2. \/ Owns(r, s)
        \/ store[s] = None /\ BeginSetNX(r)
    BY OwnersBegin
  <2>3. ASSUME store[s] = None PROVE ~Owns(q, s) /\ ~Owns(r, s)
    BY <2>3 DEF KeysAreOwned
  <2>4. CASE BeginSetNX(q) /\ BeginSetNX(r) /\ ~Owns(q, s) /\ ~Owns(r, s)
    <3>1. phase' = [phase EXCEPT ![q] = phase'[q]]
      BY <2>4 DEF BeginSetNX, ApiTypeOK
    <3>2. phase'[r] = phase[r] /\ phase[r] = "begin"
      BY <2>4, <3>1 DEF BeginSetNX, ApiTypeOK
    <3> QED
      BY <3>2 DEF Owns
  <2> QED
    BY <1>2, <2>1, <2>2, <2>3, <2>4 DEF KeysAreOwned
<1> QED
  BY <1>1, <1>2

LEMMA OwnersStep ==
  ASSUME Inv, ApiTypeOK, PostsAreServed, OwnersHaveEntries, [ApiNext]_apiVars
  PROVE  OwnersHaveEntries'
<1> SUFFICES ASSUME EntriesOutliveOwners
             PROVE  OneHandlerPerKey' /\ (\A r \in Req, s \in StoreKey : Owns(r, s)' => store'[s] # None)
  BY DEF OwnersHaveEntries
<1>1. KeysAreOwned
  BY DEF OwnersHaveEntries, OneHandlerPerKey, KeysAreOwned
<1>2. KeysAreOwned'
  BY <1>1, KeysStayOwned
<1> QED
  BY <1>2 DEF KeysAreOwned, OneHandlerPerKey

-----------------------------------------------------------------------------
(* The invariant, and what follows from it.                                *)

LEMMA ApiInitInv == ApiInit => ApiInv
<1> SUFFICES ASSUME ApiInit PROVE ApiInv
  OBVIOUS
<1>1. Inv
  BY InitInv DEF ApiInit
<1>2. ApiTypeOK
  BY <1>1 DEF ApiInit, ApiTypeOK, Inv
<1>3. PostsAreServed
  BY DEF ApiInit, Init, PostsAreServed
<1>4. StoredResultsWereGiven /\ ReplaysAreFaithful /\ RefusedBodiesDiffer
  BY DEF ApiInit, StoredResultsWereGiven, ReplaysAreFaithful, RefusedBodiesDiffer, Replayed
<1>5. OwnersHaveEntries
  BY DEF ApiInit, OwnersHaveEntries, OneHandlerPerKey, Owns
<1> QED
  BY <1>1, <1>2, <1>3, <1>4, <1>5 DEF ApiInv

LEMMA ApiStepInv == ApiInv /\ [ApiNext]_apiVars => ApiInv'
<1> SUFFICES ASSUME ApiInv, [ApiNext]_apiVars PROVE ApiInv'
  OBVIOUS
<1>1. /\ Inv /\ ApiTypeOK /\ PostsAreServed /\ StoredResultsWereGiven
      /\ ReplaysAreFaithful /\ RefusedBodiesDiffer /\ OwnersHaveEntries
  BY DEF ApiInv
<1>2. Inv'
  BY <1>1, ApiStepsAreServiceSteps, StepInv
<1>3. ApiTypeOK'
  BY <1>1, <1>2, ApiTypesStay DEF Inv
<1>4. PostsAreServed' /\ StoredResultsWereGiven'
  BY <1>1, <1>2, PostsStayServed, StoredResultsStep
<1>5. ReplaysAreFaithful' /\ RefusedBodiesDiffer' /\ OwnersHaveEntries'
  BY <1>1, ReplaysStep, RefusalsStep, OwnersStep
<1> QED
  BY <1>2, <1>3, <1>4, <1>5 DEF ApiInv

\* ApiInv holds in every reachable state, whether or not entries outlive owners.
THEOREM ApiInvariance == ApiSpec => []ApiInv
  BY ApiInitInv, ApiStepInv, PTL DEF ApiSpec

\* The composition is well-typed.
THEOREM ApiTypeCorrect == ApiSpec => []ApiTypeOK
<1>1. ApiInv => ApiTypeOK
  BY DEF ApiInv
<1> QED
  BY <1>1, ApiInvariance, PTL

\* Behind the middleware the service is CharacterService: all that is proved of
\* it holds of the API with the idempotency store as well.
THEOREM ApiImplementsService == ApiSpec => Spec
<1>1. ApiInit => Init
  BY DEF ApiInit
<1>2. ApiInv /\ [ApiNext]_apiVars => [Next]_vars
  BY ApiStepsAreServiceSteps DEF ApiInv
<1> QED
  BY <1>1, <1>2, ApiInvariance, PTL DEF ApiSpec, Spec

\* What is replayed was given by a handler for the same key and body.
THEOREM FaithfulReplay == ApiSpec => []ReplaysAreFaithful
<1>1. ApiInv => ReplaysAreFaithful
  BY DEF ApiInv
<1> QED
  BY <1>1, ApiInvariance, PTL

\* A replayed confirmation is one that a handler gave, and those are not undone.
THEOREM ReplayedConfirmations == ApiSpec => []ReplayedConfirmationsHold
<1>1. ApiInv => ReplayedConfirmationsHold
  <2> SUFFICES ASSUME ApiInv, NEW r \in Req, Replayed(r), answer[r].result.status = "confirmed"
               PROVE  Present(answer[r].result.id) /\ rows[answer[r].result.id].confirmed
    BY DEF ReplayedConfirmationsHold
  <2>1. PICK q \in Req : HandlerGave(q, KeyOf(post[r]), answer[r].result)
    BY DEF ApiInv, ReplaysAreFaithful
  <2>2. Answered(q, "confirmed") /\ reply[q].id = answer[r].result.id
    BY <2>1 DEF HandlerGave, Answered
  <2> QED
    BY <2>2 DEF ApiInv, Inv, ConfirmedIsDurable
<1> QED
  BY <1>1, ApiInvariance, PTL

\* The refinements carry over as well: also behind the middleware a character has
\* the life of CharacterLifecycle, and every request that reaches a handler takes
\* effect at one moment, whatever the store has lost or kept.
THEOREM ApiImplementsAbstractions == ApiSpec => ImplementsLifecycle /\ ImplementsAtomicCharacters
  BY ApiImplementsService, Implementation, AtomicImplementation

\* Nobody gets 422 for repeating the request that made the character.
THEOREM JustRefusal == ApiSpec => []RefusedBodiesDiffer
<1>1. ApiInv => RefusedBodiesDiffer
  BY DEF ApiInv
<1> QED
  BY <1>1, ApiInvariance, PTL

\* One handler at a time under a key, if entries outlive their owners.
THEOREM ExclusiveHandlers ==
  ASSUME EntriesOutliveOwners
  PROVE  ApiSpec => []OneHandlerPerKey
<1>1. ApiInv => OneHandlerPerKey
  BY DEF ApiInv, OwnersHaveEntries
<1> QED
  BY <1>1, ApiInvariance, PTL

\* What a client is told its keyed creation made holds the key, or was reclaimed.
LEMMA ToldCharactersHoldTheToken ==
  ASSUME ApiInv, NEW r \in Req, post[r] # None, NEW i \in Told(r)
  PROVE  i \in Id /\ (i \in reclaimed \/ (Present(i) /\ rows[i].key = post[r].key))
<1>1. ASSUME NEW q \in Req, GivenCharacter(q), post[q] # None
      PROVE  /\ post[q].op = "create"
             /\ reply[q].id \in Id
             /\ \/ reply[q].id \in reclaimed
                \/ Present(reply[q].id) /\ rows[reply[q].id].key = post[q].key
  <2>1. reply[q] # None /\ call[q] # None /\ call[q].op = "create"
    BY <1>1, NoneIsNoData DEF GivenCharacter, Answered, ApiInv, Inv, RequestsWellFormed
  <2>2. call[q] = HandlerCall(post[q]) /\ post[q].op \in {"create", "confirm"}
    BY <1>1, <2>1, PostsAreCalls DEF ApiInv, PostsAreServed
  <2>3. post[q].op = "create" /\ call[q] = post[q]
    <3>1. CASE post[q].op = "create"
      BY <2>2, <3>1 DEF HandlerCall
    <3>2. CASE post[q].op = "confirm"
      <4>1. post[q] \in Call
        BY <1>1 DEF ApiInv, ApiTypeOK
      <4>2. HandlerCall(post[q]).op = "confirm"
        BY <3>2, <4>1 DEF HandlerCall, Call
      <4> QED
        BY <2>1, <2>2, <4>2
    <3> QED
      BY <2>2, <3>1, <3>2
  <2>4. reply[q].id \in Id
    BY <2>1 DEF ApiInv, ApiTypeOK, TypeOK, Reply
  <2> QED
    BY <1>1, <2>3, <2>4 DEF ApiInv, Inv, GivenCharactersHoldTheToken
<1>2. CASE GivenCharacter(r) /\ i = reply[r].id
  BY <1>1, <1>2
<1>3. CASE Replayed(r) /\ answer[r].result.status = "created" /\ i = answer[r].result.id
  <2>1. PICK q \in Req : HandlerGave(q, KeyOf(post[r]), answer[r].result)
    BY <1>3 DEF ApiInv, ReplaysAreFaithful
  <2>2. GivenCharacter(q) /\ post[q] # None /\ reply[q].id = i /\ post[q].key = post[r].key
    BY <1>3, <2>1 DEF HandlerGave, GivenCharacter, Answered, KeyOf
  <2> QED
    BY <1>1, <2>2
<1> QED
  BY <1>2, <1>3 DEF Told

\* One key names one character to all its clients, unless the sweeper came between.
THEOREM OneKeyOneCharacter == ApiSpec => []OneCharacterPerKey
<1>1. ApiInv => OneCharacterPerKey
  <2> SUFFICES ASSUME ApiInv, NEW q \in Req, NEW r \in Req, post[q] # None, post[r] # None,
                      post[q].key = post[r].key, NEW i \in Told(q), NEW j \in Told(r),
                      i \notin reclaimed, j \notin reclaimed
               PROVE  i = j
    BY DEF OneCharacterPerKey
  <2>1. post[q].key # None
    <3>1. post[q].key \in Key
      BY PostsAreCalls DEF ApiInv
    <3> QED
      BY <3>1, NoneIsNoData
  <2>2. /\ i \in Id /\ Present(i) /\ rows[i].key = post[q].key
        /\ j \in Id /\ Present(j) /\ rows[j].key = post[r].key
    BY ToldCharactersHoldTheToken
  <2> QED
    BY <2>1, <2>2 DEF ApiInv, Inv, TokensAreUnique
<1> QED
  BY <1>1, ApiInvariance, PTL
=============================================================================
