# character-api in TLA+

A verification development for character-api, the Go service that owns the
character database: TLA+ models of the service, TLC configurations that check
them on small instances, and theorems that TLAPS checks for every instance.
Paths below are relative to the repository (`src/` holds it); `PROJECT.json` maps every
definition to the lines it models.

## The system

| Part | State it keeps | Operations | Modelled in |
|---|---|---|---|
| Character database: `schema.sql`, `views/10_character_write_functions.sql` | `core_characters`, `races`, the unique index on `creation_token`, the unique name of a race, the foreign key | `update_character`, `soft_delete_character`, `confirm_character`, `gc_unconfirmed_characters` | `CharacterService`, `RaceCatalog` |
| Trigger `views/00_set_updated_at.sql` | `updated_at` | `NOW()` on every update | `RowTimestamps` |
| Character repository, usecase, domain | what a request has read | create, confirm, replace (PUT), update (PATCH), delete, sweep; the merge of a PATCH | `CharacterService`, promise: `AtomicCharacters` |
| Character handlers | none | If-Match, ETag, error to status | `CharacterService` (syntax left out) |
| List: `List`, `Count` of every layer | none | page and total, by ids or by offset | `CharacterList` |
| Races: handler, usecase, repository, domain | `races` | create, rename, delete, get, list | `RaceCatalog`, promise: `RaceRegistry` |
| Sweeper, `cmd/api/main.go:127` | a ticker per instance | reclaims reservations past their TTL | `CharacterService` (when it races what), `RowTimestamps` (when it is due), `ApiProcess` (its connection) |
| Idempotency middleware, `middleware/idempotency.go` | per request: key, body hash, recorder | reserve, replay, 409, 422, 503, complete, release | `IdempotentApi` |
| Idempotency store, `infrastructure/idempotency/redis.go` | one Redis entry per endpoint and key | Begin (SET NX, GET), Complete, Release, TTLs | `IdempotentApi` |
| Process: `main.run`, `postgres.Open`, config | pool, listener, channels, exit code | start, signal, shutdown with a deadline, deferred calls | `ApiProcess` |
| Router, `middleware/apikey.go`, health | the tokens of the rate limiter | limit, authorize, ping | `ApiProcess` |
| Consumer ("application" of the README) | owners, in a MySQL of its own | reserve, link, confirm, unlink | `Ownership` (external) |
| Validation, Swagger, migrations, seeds, generated code, load test | - | - | not modelled, see below |

How they interact.  A request runs in a goroutine of its own on one of several
instances.  It passes the rate limiter, the key and the idempotency middleware, whose only
shared state is Redis; then the handler calls the usecase, which runs one, two or three SQL
statements on connections of a pool that the sweeper and the readiness probe share; all other
shared state is Postgres.  Nothing is held between two statements: no transaction spans
them, so anything that was read can be stale when it is used.  The consumer creates a
reservation, links it to its owner in a database of its own, and confirms it; what it does
not confirm the sweeper takes.

What is hard about it, and which properties answer: `PROJECT.json` lists the hazards
at the lines where they bite.  They are of six kinds.

- **Two statements where one is meant.**  `Save` inserts, then selects by token.
  `confirm_character` updates, then selects.  PUT and PATCH read, merge and write
  back all columns; the PUT of a race does so without a version.  Another request or a sweep
  can commit in between.
- **Two snapshots in one statement.**  The name of a race is joined in the snapshot of the calling
  statement, the row comes from a function with a later one.
- **Retries.**  A write commits and its answer is lost.  The client retries, with
  the key or without it, while the first attempt may still be running.
- **Half-failures**, of the store (every Redis command may fail, or take effect and
  be reported as failed; a marker has no owner), of a sweep, of the consumer between its two databases.
- **Time.**  Reservations age by two clocks, markers and results expire, updates wait for locks with the
  time in hand, Shutdown has a deadline.
- **The edges**: an empty string, an empty list of ids, an empty key, a rate below one, a
  TTL of nothing or of more than an int32 of seconds.

## Modules

`CharacterLifecycle` is an abstract specification: a character goes from nothing
to a reservation, and then either becomes visible for good (edited with a version
for each edit, removed logically) or is reclaimed.

`CharacterService` is the write path.  One action is one SQL statement (`SaveInsert`,
`SaveFetchExisting`, `ConfirmPending`, `ConfirmRecheck`, `FindByID`,
`UpdateCharacter`, `SoftDelete`), plus the arrival of a request (`Arrive`), its death
between two statements (`Fail`), a write whose acknowledgement is lost (`Acknowledge`),
the ageing of a reservation (`Elapse`), a sweep (`SweepUnconfirmed`) and the deletion
of a race (`DeleteRace`).  A row keeps what statements distinguish: token, race,
optional columns, version, `confirmed_at` and `deleted_at` as booleans, and whether
`created_at` is past the TTL.  `pc`, `call` and `base` are the goroutine: next
statement, request, and the row it has read.  `reply` is what the client was told.

`AtomicCharacters` is what the write endpoints promise, the second abstract specification.  A request is asked, takes
effect at one moment (`Resolve`), and is answered with what it did or saw at that moment; there are no statements in
it.  An edit is a single step that merges the request with the character of that moment.  Two answers of the code speak of
an earlier moment than the one at which they are given, and the specification has them as what they are: a 412 without
If-Match compares with a version the request has noted before (`Note`), and a "token consumed" may be about a row it has met
and that is gone (`Meet`, the finding `consumed_token`).  The mapping takes `noted` from `base`, and `met` from the requests
that are between INSERT and SELECT.

`IdempotentApi` extends `CharacterService` with the middleware and Redis: `BeginSetNX`, `BeginGet`,
`BeginFails`, `Complete`, `Release`, `Abandon`, and the two expiries.  The handler's
run in between is the actions of `CharacterService`, unchanged; `Behind` lets
everything behind the middleware go on.  So one request of the API is a request of
`CharacterService` whose arrival is the SET NX that succeeded.  With `REDIS_ADDR` unset
the middleware is not installed and `CharacterService` alone is the API.

`Ownership` extends `CharacterService` with the consumer, as README.md:131-139 asks it to behave: it
confirms what it has linked (`Send`), links what an answer has given it (`Link`), and removes the link on a
404 of a confirmation or a 204 of a deletion (`Unlink`).  It does so in as many requests at a time as it
likes, and crashes by not going on.

`RaceRegistry` is the third abstract specification: what the race endpoints promise, each request
taking effect at one moment between question and answer.  `RaceCatalog` is the code: the
statements of the race requests (`CreateRace`, `FindRace` and `UpdateRace`, `DeleteRace`, `GetRace`,
`ListRaces`) and those statements of character requests that read or hold a race.  `BeginStatement` takes the
snapshot that the join of an answer uses, `UpdateCharacter`, `ConfirmPending` and `ConfirmRecheck`
are the later statements inside the function.  `past` is a history: the tables of races that a request has
lived through.

`RowTimestamps` is one row against the clock of the database: `Stamp` and `Insert` of its creation,
`Sweep`, `SweepFails` and `Restart` of the sweeper, and writers that read `NOW()` (`Begin`), wait for
the row lock (`Lock`) and write it by the trigger (`Commit`).  Integers of Go and Postgres have `Width`
bits.

`ApiProcess` is one process: `run` as a sequence of phases (`main`), the server's goroutine (`Listen`,
`ServerFails`), `Signal`, the sweeper's goroutine, and requests that pass `RateLimit` and
`InternalAPIKey` and then run statements on connections of the pool.

`CharacterList` models the reads: the query parameters, the page and the total, and a
client that pages through the list while characters are confirmed and deleted.

The `MC` modules hold the instances for TLC (`CharacterList` and `ApiProcess` need none), the `Proofs`
modules the theorems.  Operators commented "Mutation of X" are no part of the specification: each
is X with a plausible bug, and the property named with it in `PROJECT.json` fails when X
is replaced by it.

### What the models assume

Of characters (`CharacterService`, `IdempotentApi`, `Ownership`):

- The id that `uuid.NewV7` gives to a creation is the name of the request: ids are unique.
- Clients name ids that an answer has shown them, and send an If-Match that an ETag of
  that character has carried.  The second matters: a client that guesses the
  *next* version can get a PATCH accepted that was merged with the row before it
  (`service.go:172-189` compares the guess with the row, not with what was read), so
  `NoLostUpdate` would not hold for such a client.
- A statement is atomic, READ COMMITTED: the locks and re-evaluated WHERE clauses
  of Postgres make each of them take effect at one moment.  Functions in plpgsql get a
  snapshot per statement, which is why `confirm_character` is two actions; the check
  and the write of `update_character` and `soft_delete_character` are one, because the row is locked.
- Only pending rows age, at any moment (`Elapse`): that covers any clock, and says nothing about how long
  a TTL is, which `RowTimestamps` does.
- 400s of validation leave no trace and never arrive.  Name and gender are mandatory and
  treated alike by every operation, so `race` stands for the mandatory columns.
- An Idempotency-Key has no surrounding spaces (the token is trimmed, the store key is not).
- The response reaches the client through the recorder before Complete or Release runs.
- A Redis command takes effect before it returns or not at all: a DEL that is delayed in
  the network beyond its own timeout is not modelled.
- `EntriesOutliveOwners` is what `redis.go:15-18` intends with pendingTTL ("long enough
  for one request").  With FALSE the marker of a running request may expire, and
  Redis may lose anything.
- The consumer keeps the order of the README: it does not confirm what it has not linked, and does not unlink
  for any other reason.  `Ownership` stands on `CharacterService`, not on `IdempotentApi`: a replay of
  the store (24 h) can tell the consumer of a confirmation that a deletion has overtaken since.

Of races: a character request reads or writes one row at a time; a reservation is reclaimed and a character
deleted at any moment (`Reclaim`, `SoftDelete`), by whom does not matter to races.

Of time: the clocks of instances are off by at most `MaxSkew`; time does not pass a moment when a sweep is due
(the sweep takes no time); there is one instance that sweeps (more sweep more often).  A writer's transaction
commits; one that is rolled back is as if it had matched nothing.

Of the process: the pool, the HTTP server and the limiter are libraries, used as their documentation says.
`pgxpool.Close` waits until every connection is returned, and a cancelled context makes a statement return.  A
statement ends some time (there is no `statement_timeout`; a statement that hangs hangs `Close`).  Of the limiter
nothing is assumed but that a client has `Burst` tokens at first, never more at once, and that a request takes one:
when it gives tokens back (at its rate, or by forgetting an idle client) is left open and counted in `given`.
A second signal stays in the channel.  The tick that a cancelled sweeper may still select is a sweep with a cancelled context, which does nothing.

## Runs

Bounds are the constants of the `.cfg` files: a request is served once, so the
number of requests bounds every behaviour, and behaviours end (deadlock is not checked).
Requests are interchangeable, and so are races or names where the initial states single none out, hence the
symmetry sets; the runs with a liveness property use none.

| Run | Instance | Properties | Distinct states |
|---|---|---|---|
| `ownership` | 4 requests of any operation, 1 key, a consumer | `VisibleHasOwner`, `SameKeySameCharacter`, `ConfirmedIsDurable`, `ConfirmRefusalIsFinal`, `ImplementsLifecycle`, `OwnInv` | 291,129 |
| `updates` | 2 requests of any operation, 1 character besides, 1 key, 2 columns, 2 races | `NoLostUpdate`, `EachVersionHasOneWriter`, `RaceReferencesHold`, `ImplementsAtomicCharacters`, `Inv` | 547,960 |
| `keyed_creations` | 3 POSTs, 1 key, 2 bodies, store may forget | `OneCharacterPerKey`, `ReplaysAreFaithful`, `RefusedBodiesDiffer`, `ReplayedConfirmationsHold` | 246,641 |
| `exclusive_keys` | 3 POSTs, 1 key, entries outlive owners, fairness | `OneHandlerPerKey`, `MarkersResolve`, `ReservationsResolve`, `ApiInv` | 125,816 |
| `races` | 3 requests of any operation, 1 seeded race, 1 character, 2 names | `ImplementsRegistry`, `ShownNamesWereTrue`, `AnswersNameTheRace`, `Inv` | 305,727 |
| `timestamps` | 2 writers, 2 ticks a second, 3-bit integers, TTLs -3, 1, 3 and 10 ticks, skew 1, 1 failure, 9 ticks | `ReservationsAreKept`, `ReservationsGo`, `UpdatedAtFollowsVersion`, `Inv` | 3,011,498 |
| `process` | 2 requests of 2 clients, 2 connections, rates 0, 0.5 and 2, fairness | `CleanExitAnswersAll`, `StatementsAreNotCutOff`, `OnlyKeyHoldersGetIn`, `KeyTrialsAreLimited`, `NobodyIsLockedOut`, `SignalEndsTheProcess`, `Inv` | 1,211,054 |
| `paging` | 4 characters, pages of 1 to 3 | `PagesAreBounded`, `BatchesAreRestricted`, `PageFitsTotal`, `NothingMissed`, `NothingTwice`, `Inv` | 823,068 |
| `consumed_token`, `patch_clears`, `confirm_replay`, `stale_replay` | 1 to 4 requests | one each, violated | - |

Why the bounds are enough.  Four requests on one key cover a creation, its retry, a
confirmation and a deletion, the chain a reservation property speaks of; with a consumer between them,
a link is made, used and removed.  A lost update takes two writers.  A merge error
takes one column that is sent and one that is not, one of them text (only text has the empty string).  A key is
fought over by an owner, a retry that replaces it and a third that is told the result.  Two requests for races
and a third that reads show a race that is renamed, deleted or created under a statement; two names make a
clash.  The TTLs are one for each branch of the clamp and one with a half second to cut off; 3-bit integers end
at 3 seconds, so 10 ticks overflow; nine ticks let a reservation of any of them be reclaimed, late by one
failure.  Two requests and the sweeper are one more than the connections.  Four characters are one more than the
largest page holds.  The theorems then remove the bounds from the safety properties.

Fairness.  `FairApiSpec`: a goroutine that has begun runs on (which includes dying), the clock
passes (`Elapse`), the ticker of the sweeper ticks (`SweepUnconfirmed`; RESERVATION_SWEEP_INTERVAL 0
switches the sweeper off, and then nothing reclaims reservations), and Redis expires a marker it was
given with a TTL.  `FairSpec` of `ApiProcess`: `run` goes on from each of its statements, the deadline of Shutdown
passes, and statements end.  Weak fairness is enough: nothing disables these steps except
taking them, or another step towards the same end.  No client is assumed to
confirm, retry or arrive at all, and no handler to come to its end between statements.

## What the checks show

**Reservations.**  README.md:137 promises that a visible character has an owner.  `VisibleHasOwner` holds because
a 404 of a confirmation is final (`ConfirmRefusalIsFinal`): were it possible that a confirmation
is refused while another one of the same character succeeds, as it would be if
`confirm_character` refused what is confirmed already, the consumer would remove the link of a visible
character.

**Characters.**  No transaction spans the statements of a request, and yet every request behaves as if one did
(`ImplementsAtomicCharacters`): `confirm_character`, though it looks twice with two snapshots, answers what was true at
the second look; a creation that meets its token answers about the row that holds it when it looks; and PUT and PATCH
write what a merge under a lock would have written.  The version check alone does the last: without it the refinement
fails.  Behind the middleware the same holds, and a replayed confirmation is true however old it is
(`ReplayedConfirmationsHold`), unlike a replayed creation (`stale_replay`).

**Races.**  Although the PUT of a race reads and writes in two transactions without a version, race
requests are linearizable (`ImplementsRegistry`): a body has one field, so nothing of what was read is
written back, and the number of rows tells a race that is gone.  A renamed race never takes back an
older name because of a slow rename of another.  Names in answers were true while the request was under
way; GET and PATCH never answer without one.  A confirmation can, if a race was created while it was under way: a
repeated one joins the row that its second look finds with the races as the statement saw them when it began, and in between
the character may have been moved to a newer race.  `AnswersNameTheRace` says that this is the only case.  It has to
allow any race that is new to the request: the race may have been created by a request whose answer was lost, be known
to clients from a list, and be given to the character by a PATCH, all while one confirmation runs.

**Time.**  A reservation lives for its TTL less the fraction of a second that `GC` cuts off and the skew, and never less
than a second; it is gone one interval after its time, and one more per failed sweep or restart.  The time counts from the
reading of the clock in `Create`, so a slow INSERT shortens it.  `updated_at` does not go back from one version to the
next, although an update that waited writes the time at which it began to wait: the version check refuses the update
that began before the other had committed, unless it had read the new version, which is after that commit.  It is the version that
orders updates; a DELETE or a confirmation, which checks none, can set `updated_at` back.

**The process.**  Exit code 0 means that every request that was accepted had its answer and none found the pool closed.
No shutdown cuts off a statement: neither the sweeper nor a handler that outlives the deadline is waited for, but
closing the pool waits for their connections.  What remains is the window before `signal.Notify` (`main.go:106`), in
which the server and the sweeper run and a signal kills the process.
A client that guesses keys pays a token for every key that is looked at (`KeyTrialsAreLimited`), because the limiter is
used before the key (`router.go:99-111`); in the other order a wrong key is answered 401 for nothing, and TLC finds
two guesses at a burst of one.

**The list.**  `service.go:102-103` accepts that items and total come from two snapshots.  `paging` shows what remains true:
page and total fit if nothing happened in between; a pager that starts at the front and stops when the total
says so has shown everything that was visible all the while, unless something was deleted; and it shows
nothing twice, unless something was confirmed (a confirmation can enter in the middle, for the order is by
the time of the reservation).  The first of the last two depends on the order of the two statements: with
the total read first it fails.  The pager itself is external: it is what `dto/character.go:61-62` has in mind.

## What the code does and a comment does not say

Four statements of the documentation are refuted, each by a run (the quotes are under
"findings" in `PROJECT.json`).

- `consumed_token`: the 409 "creation token consumed" does not always mean a
  soft-deleted row.  A sweep between the INSERT and the SELECT of `Save` gives it too.
- `patch_clears`: a PATCH with an empty `description` or `birthPlace` clears the column.
- `confirm_replay`: keys are scoped to the pattern of a route, not to method and path (README.md:154): the key of a
  confirmation, sent again with the confirmation of another character, is replayed the answer about the first; the
  second stays pending.
- `stale_replay`: a cached 201 outlives the reservation it speaks of.

A fifth one has no run: "same key, other body is 422" (README.md:153) holds only while the store has the entry.  The
code documents the exception itself (`idempotency.go:110-116`), and `RefusedBodiesDiffer` is what it preserves by it.

## Theorems

They are in eight proof modules, for any number of requests, characters, keys, races, columns, clients and
values.  They assume only what the modules state: fresh request ids, text columns among the columns, positive
intervals and pool sizes, and that the markers `None`, `Empty` and `Marker` are different from the data.

None of the properties is inductive: each speaks of answers, and what an answer relies on is in
the state between two statements.  Each proof has an invariant that adds it, in named parts, one lemma per
action, and under it one step per part that the action can disturb; TLC checks every invariant in a run.

**`CharacterServiceProofs`** (`Spec => []Inv`).  The parts:
`RequestsWellFormed` (what `pc`, `call`, `base` and `reply` have to do with each other),
`IdsAreFresh` and `NamedIdsExist`, `RowsWellFormed`, `TokensAreUnique` and
`GivenCharactersHoldTheToken` (from which `SameKeySameCharacter` follows: two answered characters
with one token are one row), `RecheckFindsNoReservation` (from which `ConfirmRefusalIsFinal` follows:
between the two statements of `confirm_character` a row can be deleted, never become a reservation
again), `IfMatchWasSeen` and `BaseIsAPastRow` (a row of the version that was read is the row that was read,
from which `NoLostUpdate` follows), `UpdatesAreConfirmed`.
`PatchIsPartial` says of PATCH alone what the step `Edit` of `AtomicCharacters` says in full, so no run checks it by itself.

**`CharacterRefinementProofs`** (`Spec => Lifecycle!Spec`, `Spec => Atomic!Spec`).  Under the mapping `stage` and
`version` every statement is one step of `CharacterLifecycle` or a stutter; `Inv` supplies that only confirmed rows are deleted
and that a reclaimed id never gets a row again.  Against `AtomicCharacters`, the last statement of a request is its moment,
and a statement before it is a `Note`, a `Meet` or a stutter.  What a last statement relies on from an earlier one is the
work of the proof: `RecheckFindsNoReservation` makes the second look of a confirmation decide alone, so the two looks are
one; `BaseIsAPastRow` with `ExpectedRowIsTheBase` makes the row under an accepted update the very row that was merged,
so the merge of the past is the merge of now; `TokensAreUnique` makes the row a creation finds by its token the only one.

**`IdempotentApiProofs`** (`ApiSpec => Spec`).  Every step of the API is a step of `CharacterService` or leaves
its variables alone, so the theorems above hold behind the middleware as well.  `ApiInvariance`
proves the invariant of the middleware and store; `FaithfulReplay`, `JustRefusal`,
`OneKeyOneCharacter` hold whatever the store loses, `ExclusiveHandlers` under `EntriesOutliveOwners`.
`ReplayedConfirmations` puts the two layers together: what is replayed a handler gave (`ReplaysAreFaithful`), and what it
gave about a confirmation stands (`ConfirmedIsDurable`).  `ApiImplementsAbstractions` carries both refinements to the API.

**`OwnershipProofs`** (`OwnSpec => []VisibleHasOwner`).  `ConfirmationsAreOwned`: a confirmation under way is of a
linked character, or of one that is gone.  An unlink needs a 404, after which the character is gone
(`ConfirmRefusalIsFinal`, from the invariant of the service), or a 204 (`DeletionsStand`).

**`RaceCatalogProofs`** (`Spec => Registry!Spec`).  `HistoriesAreTrue`: the history of a request ends with the races of
now, and holds its snapshot.  From it `ShownNamesWereTrue`; and every statement is one step of `RaceRegistry` or a
stutter: `Arrive` is the question, the last statement of a request its effect and answer, and all a character does is `Refer`,
for which `ReferencesHold` supplies that it refers to races that exist.
`AnswersHaveNames` (`AnswersNameTheRace`) needs more, for the join reads a snapshot older than the row.  A race id is
spent on the request that creates it: once it is listed, or has been in any history, no later step lists it anew
(`Spent`, `RacesAreSpent`, `NamedIdsAreSpent`, `HistoriesEndNow`).  So a race the row has and the snapshot lacks is one the
history of the request lacks at an earlier moment and has at a later one, which the property excuses for confirmations
only.  `SnapshotsKnowTheRace` shows that a PATCH never needs the excuse: the race it writes could be named before its
statement began, so, if it is listed now and no id comes back, it was listed then.  (The same for the race of a
reservation, which nothing can move before it is confirmed.)  The invariant without
these parts is `BaseInv`, proved first.

**`RowTimestampsProofs`**.  `SweepsAreDue`: the next tick of the sweeper is never later than the bound of a reservation
that is pending, which every failure pushes back by one interval.  `UpdatesFit`: if the version an update has read is the
version still, the row was not written after the statement began.

**`ApiProcessProofs`**.  `PhasesFit` says what can happen no more from where `run` is, `RequestsFit` what a request has behind
it, `TokensFit` that a request whose key has been looked at has passed the limiter, and that
those who have passed and the tokens that are left are together no more than the burst and what was given back.  The first
needs the order of the middlewares (`After`), from which `GuessingIsLimited` follows for requests that overlap in any way.

**`CharacterListProofs`**.  Positions in a finite list are a bijection with 1 .. n (`PositionsDiffer`, `PositionsAreTaken`), so LIMIT
and OFFSET take as many as there are (`WindowIsFull`).  `NothingShiftsBack` and `NothingShiftsForth`: without confirmations
positions only shrink, without deletions they only grow, so what was shown stays in front of the offset and what is owed
behind it.

**Only model-checked**: the three liveness properties (`MarkersResolve`, `ReservationsResolve`, `SignalEndsTheProcess`; liveness
under fairness is beyond the prover) and the four violations.

## Not modelled, and why

- Validation of bodies, syntax of headers and parameters, CORS, body limit, Swagger: they refuse or let through before any
  state changes.
- Migrations, seeds, Dockerfiles: run offline by one process.  (Seeds are applied again with every deploy, and bring back a
  seeded race that was renamed or deleted; that is listed as a hazard.)
- `MemoryStore`: used by tests only.  Generated code and docs.
- A keyed POST /races: the middleware treats it as it treats a creation, but there is no token under it.
- `Accept` while Shutdown drains (keep-alive connections are closed when idle), timeouts of slow clients
  (`main.go:90-93`), and what the libraries do inside.
- The composition of `Ownership` with `IdempotentApi`, of `RaceCatalog` with the merges of `CharacterService`: each is shown to
  promise what the other assumes of it, over the part they share.

## Plan

1. Done: lifecycle, write path, middleware and store, consumer, races, time, process, list, and their proofs.
2. Done: every safety property of a run is a theorem; linearizability of races and of characters.
3. Then, composition: `Ownership` on top of `IdempotentApi`, with what a consumer may conclude from a replay; keyed race
   creations, where a lost entry means a 409 about the client's own race.
4. Open: the seeds as an action of `RaceCatalog` that gives fresh ids.
