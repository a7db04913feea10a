---------------------------- MODULE RowTimestamps ----------------------------
(***************************************************************************)
(* The times in a row of core_characters, and what hangs on them.          *)
(*                                                                         *)
(* created_at is what the clock of an API instance said before the INSERT; *)
(* the sweep compares it with NOW(), the clock of the database, and with   *)
(* RESERVATION_TTL as whole seconds in an int32.  updated_at is set by a   *)
(* trigger to NOW(), the moment the writing statement began, which may     *)
(* have waited for the row lock since.                                     *)
(*                                                                         *)
(* Time is counted in ticks of the database's clock.  One row is followed, *)
(* from the request that creates it: what happens to others has no bearing *)
(* on it, for there is no lock but that of the row.  Or it has been there  *)
(* from the beginning, confirmed long ago.                                 *)
(***************************************************************************)
EXTENDS Integers

CONSTANTS
  Writer,          \* the requests that confirm, update or delete the character
  TicksPerSecond,
  TTLs,            \* values of RESERVATION_TTL, in ticks
  Interval,        \* RESERVATION_SWEEP_INTERVAL, in ticks
  MaxSkew,         \* by how much the clock of an instance may be off
  Width,           \* the width of Go's int32 and Postgres's int
  MaxFailures,     \* bound: sweeps that fail, and restarts of the process
  Horizon,         \* bound: when the clock stops
  None             \* no row, not yet

ASSUME SecondsHaveTicks == TicksPerSecond \in Nat \ {0}
ASSUME SweeperIsOn == Interval \in Nat \ {0}
ASSUME SkewIsBounded == MaxSkew \in Nat
ASSUME TTLsAreDurations == TTLs \subseteq Int
ASSUME BoundsAreNaturals == MaxFailures \in Nat /\ Horizon \in Nat

VARIABLES
  now,          \* the database's clock
  ttl,          \* RESERVATION_TTL as the process has read it
  nextTick,     \* when the ticker of the sweeper fires next
  failures,     \* history: ticks that did not sweep, and restarts
  row,          \* the row, None before the INSERT and after it is reclaimed
  created,      \* created_at, None before the create request reads its clock
  stampedAt,    \* history: when it read it, by the database's clock
  insertedAt,   \* history: when the INSERT took effect
  reclaimedAt,  \* history: when the sweep took the row
  lock,         \* the writer that holds the row lock
  op,           \* op[w]: what writer w does
  pc,           \* pc[w]: how far it is
  seen,         \* seen[w]: the version that an update has read
  began         \* began[w]: NOW() in the writing statement of w

clocks == <<now, ttl>>
sweeper == <<nextTick, failures>>
creation == <<created, stampedAt, insertedAt>>
writers == <<lock, op, pc, seen, began>>
vars == <<clocks, sweeper, row, creation, reclaimedAt, writers>>

Op == {"confirm", "update", "delete"}

Row == [stage : {"pending", "active", "deleted"}, version : Nat \ {0}, updated : Int]

ASSUME NoneIsNoData == None \notin Int /\ None \notin Writer /\ None \notin Op /\ None \notin Row

TypeOK ==
  /\ now \in 0 .. Horizon
  /\ ttl \in TTLs
  /\ nextTick \in Nat
  /\ failures \in 0 .. MaxFailures
  /\ row \in Row \cup {None}
  /\ created \in Int \cup {None}
  /\ {stampedAt, insertedAt, reclaimedAt} \subseteq (0 .. Horizon) \cup {None}
  /\ lock \in Writer \cup {None}
  /\ op \in [Writer -> Op \cup {None}]
  /\ pc \in [Writer -> {"idle", "find", "begin", "wait", "locked", "done"}]
  /\ seen \in [Writer -> Nat]
  /\ began \in [Writer -> (0 .. Horizon) \cup {None}]

Init ==
  /\ now = 0
  /\ ttl \in TTLs
  /\ nextTick = Interval
  /\ failures = 0
  /\ \/ /\ row = None
        /\ created = None /\ stampedAt = None /\ insertedAt = None
     \/ /\ row = [stage |-> "active", version |-> 1, updated |-> 0]
        /\ created = 0 /\ stampedAt = 0 /\ insertedAt = 0
  /\ reclaimedAt = None
  /\ lock = None
  /\ op = [w \in Writer |-> None]
  /\ pc = [w \in Writer |-> "idle"]
  /\ seen = [w \in Writer |-> 0]
  /\ began = [w \in Writer |-> None]

At(stage) == row # None /\ row.stage = stage

-----------------------------------------------------------------------------
(* The sweep.                                                              *)

MaxSeconds == 2 ^ (Width - 1) - 1

ASSUME IntsHaveWidth == MaxSeconds \in Nat \ {0}

\* int32(n) of a number of seconds that does not fit: it wraps.
Wrapped(n) == ((n + 2 ^ (Width - 1)) % (2 ^ Width)) - 2 ^ (Width - 1)

\* Mutation of Seconds: a TTL below one second becomes 0, or less.
SecondsNotRaised == IF ttl > MaxSeconds * TicksPerSecond THEN MaxSeconds ELSE ttl \div TicksPerSecond

\* Mutation of Seconds: the largest int32 is not looked at.
SecondsWrapped == IF ttl < TicksPerSecond THEN 1 ELSE Wrapped(ttl \div TicksPerSecond)

\* The TTL that GC passes on: whole seconds, what is left over is cut off.
Seconds ==
  IF ttl < TicksPerSecond THEN 1
  ELSE IF ttl > MaxSeconds * TicksPerSecond THEN MaxSeconds
  ELSE ttl \div TicksPerSecond

\* confirmed_at IS NULL AND created_at < NOW() - age.  A DELETE that waits for the
\* lock of a confirmation finds the row confirmed, and leaves it.
Expired == At("pending") /\ lock = None /\ created < now - Seconds * TicksPerSecond

Sweep ==
  /\ now = nextTick
  /\ IF Expired THEN row' = None /\ reclaimedAt' = now ELSE UNCHANGED <<row, reclaimedAt>>
  /\ nextTick' = now + Interval
  /\ UNCHANGED <<clocks, failures, creation, writers>>

\* Mutation of SweepFails: the error ends the loop.
SweepFailsForGood ==
  /\ now = nextTick
  /\ failures < MaxFailures
  /\ failures' = failures + 1
  /\ nextTick' = Horizon + 1
  /\ UNCHANGED <<clocks, row, creation, reclaimedAt, writers>>

\* The sweep reports an error: it is logged, and the next tick tries again.
SweepFails ==
  /\ now = nextTick
  /\ failures < MaxFailures
  /\ failures' = failures + 1
  /\ nextTick' = now + Interval
  /\ UNCHANGED <<clocks, row, creation, reclaimedAt, writers>>

\* The process is restarted: a new ticker.
Restart ==
  /\ failures < MaxFailures
  /\ failures' = failures + 1
  /\ nextTick' = now + Interval
  /\ UNCHANGED <<clocks, row, creation, reclaimedAt, writers>>

\* Time passes, but not past the moment a sweep is due.
Pass ==
  /\ now < Horizon
  /\ now < nextTick
  /\ now' = now + 1
  /\ UNCHANGED <<ttl, sweeper, row, creation, reclaimedAt, writers>>

-----------------------------------------------------------------------------
(* The creation: the clock is read, and some time later the row is there.  *)

Stamp ==
  /\ created = None
  /\ \E skew \in -MaxSkew .. MaxSkew : created' = now + skew
  /\ stampedAt' = now
  /\ UNCHANGED <<clocks, sweeper, row, insertedAt, reclaimedAt, writers>>

Insert ==
  /\ created # None
  /\ insertedAt = None
  /\ row' = [stage |-> "pending", version |-> 1, updated |-> created]
  /\ insertedAt' = now
  /\ UNCHANGED <<clocks, sweeper, created, stampedAt, reclaimedAt, writers>>

-----------------------------------------------------------------------------
(* The writers.  NOW() is read when the statement begins; it then waits    *)
(* for the row lock, looks at the row again, and holds it until it commits. *)

Goes(w, where) == pc' = [pc EXCEPT ![w] = where]

\* What the writer has kept goes with its answer.
Ends(w) ==
  /\ Goes(w, "done")
  /\ op' = [op EXCEPT ![w] = None]
  /\ seen' = [seen EXCEPT ![w] = 0]
  /\ began' = [began EXCEPT ![w] = None]

Outside == UNCHANGED <<clocks, sweeper, creation, reclaimedAt>>

Arrive(w) ==
  /\ pc[w] = "idle"
  /\ insertedAt # None
  /\ \E o \in Op :
       /\ op' = [op EXCEPT ![w] = o]
       /\ Goes(w, IF o = "update" THEN "find" ELSE "begin")
  /\ Outside /\ UNCHANGED <<row, lock, seen, began>>

\* FindByID of a PUT or PATCH: the version to expect (an If-Match is no later).
FindByID(w) ==
  /\ pc[w] = "find"
  /\ IF At("active")
     THEN seen' = [seen EXCEPT ![w] = row.version] /\ Goes(w, "begin") /\ UNCHANGED <<op, began>>
     ELSE Ends(w)
  /\ Outside /\ UNCHANGED <<row, lock>>

Begin(w) ==
  /\ pc[w] = "begin"
  /\ began' = [began EXCEPT ![w] = now]
  /\ Goes(w, "wait")
  /\ Outside /\ UNCHANGED <<row, lock, op, seen>>

\* Mutation of Matches: expected_version is NULL, which skips the check.
MatchesAnything(w) ==
  \/ op[w] = "confirm" /\ At("pending")
  \/ op[w] \in {"update", "delete"} /\ At("active")

\* The WHERE clause, and for an update the version, once the lock is there.
Matches(w) ==
  \/ op[w] = "confirm" /\ At("pending")
  \/ op[w] = "update" /\ At("active") /\ row.version = seen[w]
  \/ op[w] = "delete" /\ At("active")

Lock(w) ==
  /\ pc[w] = "wait"
  /\ lock = None
  /\ IF Matches(w)
     THEN lock' = w /\ Goes(w, "locked") /\ UNCHANGED <<op, seen, began>>
     ELSE Ends(w) /\ UNCHANGED lock
  /\ Outside /\ UNCHANGED row

Written(o, updated) ==
  [stage   |-> CASE o = "confirm" -> "active" [] o = "update" -> row.stage [] o = "delete" -> "deleted",
   version |-> IF o = "update" THEN row.version + 1 ELSE row.version,
   updated |-> updated]

\* set_updated_at puts NOW() into the row; the commit lets the lock go.
Commit(w) ==
  /\ pc[w] = "locked"
  /\ row' = Written(op[w], began[w])
  /\ lock' = None
  /\ Ends(w)
  /\ Outside

Write(w) == Arrive(w) \/ FindByID(w) \/ Begin(w) \/ Lock(w) \/ Commit(w)

Next ==
  \/ Pass \/ Sweep \/ SweepFails \/ Restart
  \/ Stamp \/ Insert
  \/ \E w \in Writer : Write(w)

Spec == Init /\ [][Next]_vars

-----------------------------------------------------------------------------
(* Properties.                                                             *)

Smaller(a, b) == IF a < b THEN a ELSE b
Larger(a, b) == IF a < b THEN b ELSE a

\* RESERVATION_TTL within the bounds GC puts on it, not yet cut to seconds.
BoundedTTL == Larger(TicksPerSecond, Smaller(ttl, MaxSeconds * TicksPerSecond))

\* A reservation is kept for the configured TTL, short of the second that GC cuts
\* off and the skew between the clocks, and never for less than a second, whatever
\* is configured: 0 or a negative TTL does not take reservations at once, nor does
\* one that overflows.  It counts from the reading of the clock: an INSERT that is
\* slow eats the time of the reservation.
ReservationsAreKept ==
  reclaimedAt # None =>
    LET kept == reclaimedAt - stampedAt + MaxSkew IN
    kept > TicksPerSecond /\ kept > BoundedTTL - TicksPerSecond

\* From then on a sweep takes the reservation.
Due == stampedAt + MaxSkew + BoundedTTL + 1

\* A reservation nobody confirms is gone one interval after its time has come, and
\* one more for each sweep that failed and each restart of the process.
ReservationsGo ==
  At("pending") /\ lock = None => now <= Larger(insertedAt, Due) + Interval * (1 + failures)

\* Of two versions of a character the later one has the later updated_at, although
\* an update that waits for the lock writes the time at which it began to wait.
UpdatedAtFollowsVersion ==
  [][row # None /\ row' # None /\ row'.version > row.version
     => row'.updated >= row.updated]_vars

\* The order of the times; a row that has been confirmed is not ahead of NOW().
TimesFit ==
  /\ created = None <=> stampedAt = None
  /\ created # None =>
       stampedAt <= now /\ stampedAt - MaxSkew <= created /\ created <= stampedAt + MaxSkew
  /\ insertedAt # None => created # None /\ stampedAt <= insertedAt /\ insertedAt <= now
  /\ row # None \/ reclaimedAt # None => insertedAt # None
  /\ row # None /\ row.stage # "pending" => row.updated <= now
  /\ now <= nextTick /\ nextTick <= now + Interval

\* The next sweep comes in time for a reservation.
SweepsAreDue ==
  At("pending") /\ lock = None =>
    nextTick <= Larger(insertedAt, Due) + Interval * (1 + failures)

WritersFit ==
  \A w \in Writer :
    /\ pc[w] = "locked" <=> lock = w
    /\ op[w] = None <=> pc[w] \in {"idle", "done"}
    /\ pc[w] # "idle" => insertedAt # None
    /\ pc[w] = "find" => op[w] = "update"
    /\ pc[w] \in {"wait", "locked"} => began[w] # None /\ began[w] <= now
    /\ pc[w] = "locked" => Matches(w)

\* An update has read a version of a confirmed row; if it is the version still and the
\* row is there, it has not been written since the statement began.
UpdatesFit ==
  \A w \in Writer : op[w] = "update" /\ pc[w] \in {"begin", "wait", "locked"} =>
    /\ row # None /\ row.stage # "pending" /\ seen[w] <= row.version
    /\ pc[w] # "begin" /\ row.stage = "active" /\ row.version = seen[w] => row.updated <= began[w]

\* The inductive invariant.
Inv == TypeOK /\ TimesFit /\ SweepsAreDue /\ WritersFit /\ UpdatesFit /\ ReservationsAreKept
=============================================================================
