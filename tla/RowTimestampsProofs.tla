------------------------- MODULE RowTimestampsProofs -------------------------
(***************************************************************************)
(* The times of a row: reservations are kept for the TTL and are gone in   *)
(* time, whatever the TTL, the interval and the skew of the clocks, and    *)
(* updated_at follows the version.                                         *)
(***************************************************************************)
EXTENDS RowTimestamps, TLAPS

-----------------------------------------------------------------------------
(* The TTL in whole seconds.                                               *)

LEMMA TimesAreNumbers ==
  ASSUME TypeOK
  PROVE  /\ now \in Nat /\ nextTick \in Nat /\ ttl \in Int
         /\ created # None => created \in Int
         /\ stampedAt # None => stampedAt \in Nat
         /\ insertedAt # None => insertedAt \in Nat
         /\ reclaimedAt # None => reclaimedAt \in Nat
         /\ row # None => row \in Row
         /\ \A w \in Writer : began[w] # None => began[w] \in Nat
  BY TTLsAreDurations, BoundsAreNaturals DEF TypeOK

\* GC passes at least a second on, and less than a second short of the TTL.
LEMMA SecondsFit ==
  ASSUME TypeOK
  PROVE  /\ Seconds * TicksPerSecond \in Nat /\ BoundedTTL \in Int
         /\ Seconds * TicksPerSecond >= TicksPerSecond
         /\ Seconds * TicksPerSecond > BoundedTTL - TicksPerSecond
         /\ Seconds * TicksPerSecond <= BoundedTTL
<1> DEFINE T == TicksPerSecond  M == MaxSeconds
<1>1. ttl \in Int /\ T \in Nat \ {0} /\ M \in Nat \ {0}
  BY TimesAreNumbers, SecondsHaveTicks, IntsHaveWidth
<1> HIDE DEF M
<1>2. M * T \in Nat /\ M * T >= T
  BY <1>1
<1>3. CASE ttl < T
  <2>1. Seconds = 1 /\ BoundedTTL = T
    BY <1>1, <1>2, <1>3 DEF Seconds, BoundedTTL, Smaller, Larger, M
  <2> QED
    BY <1>1, <2>1
<1>4. CASE ttl >= T /\ ttl > M * T
  <2>1. Seconds = M /\ BoundedTTL = M * T
    BY <1>1, <1>2, <1>4 DEF Seconds, BoundedTTL, Smaller, Larger, M
  <2> QED
    BY <1>1, <1>2, <2>1
<1>5. CASE ttl >= T /\ ttl <= M * T
  <2>1. Seconds = ttl \div T /\ BoundedTTL = ttl
    BY <1>1, <1>2, <1>5 DEF Seconds, BoundedTTL, Smaller, Larger, M
  <2>2. PICK q \in Int : q = ttl \div T
    BY <1>1
  <2>3. q * T <= ttl /\ ttl < q * T + T
    BY <1>1, <2>2
  <2>4. q >= 1
    BY <1>1, <1>5, <2>3
  <2>5. q * T >= T /\ q * T \in Nat
    BY <1>1, <2>4
  <2> QED
    BY <1>1, <2>1, <2>2, <2>3, <2>5
<1> QED
  BY <1>1, <1>2, <1>3, <1>4, <1>5

LEMMA DueIsANumber ==
  ASSUME TypeOK, TimesFit, At("pending")
  PROVE  /\ Due \in Int /\ insertedAt \in Nat /\ Larger(insertedAt, Due) \in Int
         /\ Larger(insertedAt, Due) >= Due /\ Larger(insertedAt, Due) >= insertedAt
         /\ Interval * (1 + failures) \in Nat
         /\ Interval * (1 + (failures + 1)) = Interval * (1 + failures) + Interval
         /\ Interval * (1 + failures) >= Interval
<1>1. insertedAt \in Nat /\ stampedAt \in Nat
  BY TimesAreNumbers DEF At, TimesFit
<1>2. Due \in Int
  BY <1>1, SecondsFit, SkewIsBounded DEF Due
<1>3. failures \in Nat /\ Interval \in Nat \ {0}
  BY SweeperIsOn, BoundsAreNaturals DEF TypeOK
<1> HIDE DEF Due
<1>4. /\ Interval * (1 + failures) \in Nat
      /\ Interval * (1 + (failures + 1)) = Interval * (1 + failures) + Interval
      /\ Interval * (1 + failures) >= Interval
  BY <1>3
<1> QED
  BY <1>1, <1>2, <1>4 DEF Larger

\* When its time has come and nobody confirms it, the sweep takes a reservation.
LEMMA DueIsExpired ==
  ASSUME TypeOK, TimesFit, At("pending"), lock = None, now >= Due
  PROVE  Expired
<1> DEFINE kept == Seconds * TicksPerSecond
<1>1. /\ kept \in Nat /\ BoundedTTL \in Int /\ kept <= BoundedTTL
  BY SecondsFit
<1>2. /\ stampedAt \in Nat /\ created \in Int /\ now \in Nat
      /\ created <= stampedAt + MaxSkew
  BY TimesAreNumbers DEF At, TimesFit
<1> HIDE DEF kept
<1>3. created < now - kept
  BY <1>1, <1>2, SkewIsBounded DEF Due
<1> QED
  BY <1>3 DEF Expired, kept

-----------------------------------------------------------------------------
(* Steps that leave the writers alone.                                     *)

LEMMA WritersStay ==
  ASSUME Inv, UNCHANGED writers, now' \in Nat, now <= now',
         UNCHANGED insertedAt \/ \A w \in Writer : pc[w] = "idle",
         UNCHANGED row \/ \A w \in Writer : pc[w] \in {"idle", "find", "begin", "wait", "done"},
         UNCHANGED row
         \/ \A w \in Writer : pc[w] = "idle"
         \/ (row.stage = "pending" /\ row # None)
  PROVE  WritersFit' /\ UpdatesFit'
<1>1. UNCHANGED <<lock, op, pc, seen, began>>
  BY DEF writers
<1>2. WritersFit'
  <2> SUFFICES ASSUME NEW w \in Writer
               PROVE  /\ pc[w] # "idle" => insertedAt' # None
                      /\ pc[w] \in {"wait", "locked"} => began[w] <= now'
                      /\ pc[w] = "locked" => Matches(w)'
    BY <1>1 DEF Inv, WritersFit
  <2>1. pc[w] # "idle" => insertedAt' # None
    BY DEF Inv, WritersFit
  <2>2. pc[w] \in {"wait", "locked"} => began[w] <= now'
    BY TimesAreNumbers DEF Inv, WritersFit
  <2>3. pc[w] = "locked" => Matches(w)'
    BY <1>1 DEF Inv, WritersFit, Matches, At
  <2> QED
    BY <2>1, <2>2, <2>3
<1>3. UpdatesFit'
  BY <1>1 DEF Inv, UpdatesFit
<1> QED
  BY <1>2, <1>3

LEMMA PassKeepsInv == ASSUME Inv, Pass PROVE Inv'
<1>1. /\ now < Horizon /\ now < nextTick /\ now' = now + 1
      /\ UNCHANGED <<ttl, nextTick, failures, row, created, stampedAt, insertedAt, reclaimedAt>>
      /\ UNCHANGED writers /\ UNCHANGED <<lock, op, pc, seen, began>>
  BY DEF Pass, sweeper, creation, writers
<1>2. now \in Nat /\ nextTick \in Nat /\ Interval \in Nat
  BY TimesAreNumbers, SweeperIsOn DEF Inv
<1>3. TypeOK'
  BY <1>1, <1>2, BoundsAreNaturals DEF Inv, TypeOK
<1>4. TimesFit'
  BY <1>1, <1>2, TimesAreNumbers DEF Inv, TimesFit, Row
<1>5. SweepsAreDue' /\ ReservationsAreKept'
  BY <1>1 DEF Inv, SweepsAreDue, ReservationsAreKept, At, Due, BoundedTTL
<1>6. WritersFit' /\ UpdatesFit'
  BY <1>1, <1>2, WritersStay
<1> QED
  BY <1>3, <1>4, <1>5, <1>6 DEF Inv

LEMMA SweepKeepsInv == ASSUME Inv, Sweep PROVE Inv'
<1>1. /\ now = nextTick /\ nextTick' = now + Interval
      /\ UNCHANGED <<now, ttl, failures, created, stampedAt, insertedAt>>
      /\ UNCHANGED writers /\ UNCHANGED <<lock, op, pc, seen, began>>
      /\ Due' = Due /\ BoundedTTL' = BoundedTTL
  BY DEF Sweep, clocks, creation, writers, Due, BoundedTTL
<1>2. /\ TypeOK /\ TimesFit /\ WritersFit /\ SweepsAreDue /\ ReservationsAreKept
      /\ now \in Nat /\ Interval \in Nat /\ Interval > 0
      /\ now \in 0 .. Horizon
  BY TimesAreNumbers, SweeperIsOn DEF Inv, TypeOK
<1>3. CASE Expired /\ row' = None /\ reclaimedAt' = now
  <2>1. row # None /\ row.stage = "pending" /\ lock = None
    BY <1>3 DEF Expired, At
  <2>7. TypeOK'
    BY <1>1, <1>2, <1>3 DEF TypeOK
  <2>8. insertedAt # None /\ now <= now
    BY <1>2, <2>1 DEF TimesFit
  <2>2. TimesFit'
    BY <1>1, <1>2, <1>3, <2>8 DEF TimesFit
  <2>3. SweepsAreDue'
    BY <1>3 DEF SweepsAreDue, At
  <2>4. ReservationsAreKept'
    <3> DEFINE kept == Seconds * TicksPerSecond
    <3>1. /\ kept \in Nat /\ BoundedTTL \in Int
          /\ kept >= TicksPerSecond /\ kept > BoundedTTL - TicksPerSecond
      BY <1>2, SecondsFit
    <3>2. created < now - kept
      BY <1>3 DEF Expired
    <3>3. stampedAt \in Nat /\ created \in Int /\ stampedAt - MaxSkew <= created
      BY <1>2, <2>1, TimesAreNumbers DEF TimesFit
    <3> HIDE DEF kept
    <3> DEFINE spared == now - stampedAt + MaxSkew
    <3>4. spared > TicksPerSecond /\ spared > BoundedTTL - TicksPerSecond
      BY <1>2, <3>1, <3>2, <3>3, SkewIsBounded, SecondsHaveTicks
    <3> QED
      BY <1>1, <1>3, <3>4 DEF ReservationsAreKept
  <2>5. \A w \in Writer : pc[w] \in {"idle", "find", "begin", "wait", "done"}
    <3>1. \A w \in Writer : pc[w] # "locked"
      BY <1>2, <2>1, NoneIsNoData DEF WritersFit
    <3> QED
      BY <1>2, <3>1 DEF TypeOK
  <2>6. WritersFit' /\ UpdatesFit'
    <3>1. UpdatesFit'
      BY <1>1, <2>1 DEF Inv, UpdatesFit
    <3> QED
      BY <1>1, <1>2, <2>1, <2>5, WritersStay
  <2> QED
    BY <2>2, <2>3, <2>4, <2>6, <2>7 DEF Inv
<1>4. CASE ~Expired /\ UNCHANGED <<row, reclaimedAt>>
  <2>1. TypeOK' /\ TimesFit' /\ ReservationsAreKept'
    BY <1>1, <1>2, <1>4 DEF TypeOK, TimesFit, ReservationsAreKept
  <2>2. SweepsAreDue'
    <3> SUFFICES ASSUME At("pending"), lock = None
                 PROVE  now + Interval <= Larger(insertedAt, Due) + Interval * (1 + failures)
      BY <1>1, <1>4 DEF SweepsAreDue, At
    <3>1. ~(now >= Due)
      BY <1>2, <1>4, DueIsExpired
    <3> HIDE DEF Due
    <3>2. /\ Due \in Int /\ Larger(insertedAt, Due) \in Int /\ Larger(insertedAt, Due) >= Due
          /\ Interval * (1 + failures) \in Nat /\ Interval * (1 + failures) >= Interval
      BY <1>2, DueIsANumber
    <3> QED
      BY <1>2, <3>1, <3>2
  <2>3. WritersFit' /\ UpdatesFit'
    BY <1>1, <1>2, <1>4, WritersStay
  <2> QED
    BY <2>1, <2>2, <2>3 DEF Inv
<1> QED
  BY <1>3, <1>4 DEF Sweep

LEMMA FailureKeepsInv == ASSUME Inv, SweepFails \/ Restart PROVE Inv'
<1>1. /\ failures < MaxFailures /\ failures' = failures + 1 /\ nextTick' = now + Interval
      /\ UNCHANGED <<now, ttl, row, created, stampedAt, insertedAt, reclaimedAt>>
      /\ UNCHANGED writers /\ UNCHANGED <<lock, op, pc, seen, began>>
      /\ Due' = Due /\ BoundedTTL' = BoundedTTL
  BY DEF SweepFails, Restart, clocks, creation, writers, Due, BoundedTTL
<1>2. /\ TypeOK /\ TimesFit /\ SweepsAreDue /\ now \in Nat /\ nextTick \in Nat /\ now <= nextTick
      /\ Interval \in Nat /\ Interval > 0 /\ failures \in Nat
  BY TimesAreNumbers, SweeperIsOn, BoundsAreNaturals DEF Inv, TypeOK, TimesFit
<1>3. TypeOK' /\ TimesFit' /\ ReservationsAreKept'
  BY <1>1, <1>2, BoundsAreNaturals DEF Inv, TypeOK, TimesFit, ReservationsAreKept
<1>4. SweepsAreDue'
  <2> SUFFICES ASSUME At("pending"), lock = None
               PROVE  now + Interval <= Larger(insertedAt, Due) + Interval * (1 + (failures + 1))
    BY <1>1 DEF SweepsAreDue, At
  <2>1. /\ Larger(insertedAt, Due) \in Int /\ Interval * (1 + failures) \in Nat
        /\ Interval * (1 + (failures + 1)) = Interval * (1 + failures) + Interval
    BY <1>2, DueIsANumber
  <2>2. nextTick <= Larger(insertedAt, Due) + Interval * (1 + failures)
    BY <1>2 DEF SweepsAreDue
  <2> QED
    BY <1>2, <2>1, <2>2
<1>5. WritersFit' /\ UpdatesFit'
  BY <1>1, <1>2, WritersStay
<1> QED
  BY <1>3, <1>4, <1>5 DEF Inv

LEMMA CreationKeepsInv == ASSUME Inv, Stamp \/ Insert PROVE Inv'
<1>1. /\ UNCHANGED <<now, ttl, nextTick, failures, reclaimedAt>>
      /\ UNCHANGED writers /\ UNCHANGED <<lock, op, pc, seen, began>>
      /\ BoundedTTL' = BoundedTTL
      /\ insertedAt = None
  BY DEF Stamp, Insert, clocks, sweeper, creation, writers, BoundedTTL, Inv, TimesFit
<1>2. /\ TypeOK /\ TimesFit /\ WritersFit
      /\ now \in 0 .. Horizon /\ now \in Nat /\ nextTick \in Nat
      /\ nextTick <= now + Interval /\ Interval \in Nat /\ Interval > 0
      /\ failures \in Nat /\ MaxSkew \in Nat
  BY TimesAreNumbers, SweeperIsOn, BoundsAreNaturals, SkewIsBounded DEF Inv, TypeOK, TimesFit
<1>3. row = None /\ \A w \in Writer : pc[w] = "idle"
  BY <1>1, <1>2 DEF TimesFit, WritersFit
<1>4. WritersFit' /\ UpdatesFit'
  <2>1. WritersFit'
    BY <1>1, <1>2, <1>3 DEF WritersFit
  <2>2. UpdatesFit'
    BY <1>1, <1>3 DEF UpdatesFit
  <2> QED
    BY <2>1, <2>2
<1>5. reclaimedAt = None
  BY <1>1, <1>3 DEF Inv, TimesFit
<1>6. ReservationsAreKept'
  BY <1>1, <1>5 DEF ReservationsAreKept
<1>7. CASE Stamp
  <2>1. PICK skew \in -MaxSkew .. MaxSkew : created' = now + skew
    BY <1>7 DEF Stamp
  <2>2. created = None /\ stampedAt' = now /\ UNCHANGED <<row, insertedAt>>
    BY <1>7 DEF Stamp
  <2>3. created' \in Int /\ now - MaxSkew <= created' /\ created' <= now + MaxSkew
    BY <1>2, <2>1
  <2>4. created' # None /\ stampedAt' # None
    BY <1>2, <2>2, <2>3, NoneIsNoData
  <2>5. TypeOK' /\ TimesFit'
    BY <1>1, <1>2, <1>3, <2>2, <2>3, <2>4 DEF TypeOK, TimesFit
  <2>6. SweepsAreDue'
    BY <1>3, <2>2 DEF SweepsAreDue, At
  <2> QED
    BY <1>4, <1>6, <2>5, <2>6 DEF Inv
<1>8. CASE Insert
  <2>1. /\ created # None /\ row' = [stage |-> "pending", version |-> 1, updated |-> created]
        /\ insertedAt' = now /\ UNCHANGED <<created, stampedAt>>
    BY <1>8 DEF Insert
  <2>2. row' \in Row /\ row'.stage = "pending" /\ row' # None /\ insertedAt' # None
    BY <1>2, <2>1, TimesAreNumbers, NoneIsNoData DEF Row
  <2>3. TypeOK'
    BY <1>1, <1>2, <2>1, <2>2 DEF TypeOK
  <2>4. TimesFit'
    BY <1>1, <1>2, <2>1, <2>2, TimesAreNumbers DEF TimesFit
  <2>5. SweepsAreDue'
    <3>1. TypeOK' /\ TimesFit' /\ At("pending")'
      BY <2>2, <2>3, <2>4 DEF At
    <3>2. stampedAt \in Nat /\ BoundedTTL \in Int
      BY <1>2, <2>1, TimesAreNumbers, SecondsFit DEF TimesFit
    <3>3. Due' \in Int
      BY <1>1, <1>2, <2>1, <3>2 DEF Due
    <3> HIDE DEF Due
    <3>4. Larger(now, Due') \in Int /\ Larger(now, Due') >= now
      BY <1>2, <3>3 DEF Larger
    <3>5. Interval * (1 + failures) \in Nat /\ Interval * (1 + failures) >= Interval
      BY <1>2
    <3>6. nextTick <= Larger(now, Due') + Interval * (1 + failures)
      BY <1>2, <3>4, <3>5
    <3> QED
      BY <1>1, <2>1, <3>6 DEF SweepsAreDue, Larger
  <2> QED
    BY <1>4, <1>6, <2>3, <2>4, <2>5 DEF Inv
<1> QED
  BY <1>7, <1>8

-----------------------------------------------------------------------------
(* The writers.                                                            *)

\* A step of a writer that does not write.
LEMMA ReadersKeepInv ==
  ASSUME Inv, NEW w \in Writer, Arrive(w) \/ FindByID(w) \/ Begin(w) \/ Lock(w)
  PROVE  Inv'
<1>1. /\ UNCHANGED <<now, ttl, nextTick, failures, created, stampedAt, insertedAt, reclaimedAt, row>>
      /\ Due' = Due /\ BoundedTTL' = BoundedTTL
  BY DEF Arrive, FindByID, Begin, Lock, Outside, clocks, sweeper, creation, Due, BoundedTTL
<1>2. /\ TypeOK /\ TimesFit /\ SweepsAreDue /\ WritersFit /\ UpdatesFit /\ ReservationsAreKept
      /\ now \in Nat /\ now \in 0 .. Horizon
      /\ row # None => row \in Row
      /\ \A v \in Writer : began[v] # None => began[v] \in Nat
  BY TimesAreNumbers DEF Inv, TypeOK
<1>3. /\ op' \in [Writer -> Op \cup {None}]
      /\ pc' \in [Writer -> {"idle", "find", "begin", "wait", "locked", "done"}]
      /\ seen' \in [Writer -> Nat]
      /\ began' \in [Writer -> (0 .. Horizon) \cup {None}]
      /\ lock' \in Writer \cup {None}
      /\ \A v \in Writer \ {w} :
           op'[v] = op[v] /\ pc'[v] = pc[v] /\ seen'[v] = seen[v] /\ began'[v] = began[v]
  <2>1. CASE Arrive(w)
    BY <1>2, <2>1 DEF Arrive, Goes, TypeOK
  <2>2. CASE FindByID(w)
    BY <1>2, <2>2 DEF FindByID, Goes, Ends, TypeOK, At, Row
  <2>3. CASE Begin(w)
    BY <1>2, <2>3 DEF Begin, Goes, TypeOK
  <2>4. CASE Lock(w)
    BY <1>2, <2>4 DEF Lock, Goes, Ends, TypeOK
  <2> QED
    BY <2>1, <2>2, <2>3, <2>4
\* How far w is now.
<1>4. \/ /\ insertedAt # None /\ lock' = lock /\ pc[w] = "idle"
         /\ op'[w] # None
         /\ \/ pc'[w] = "find" /\ op'[w] = "update"
            \/ pc'[w] = "begin" /\ op'[w] # "update"
      \/ /\ pc[w] = "find" /\ lock' = lock /\ At("active")
         /\ op'[w] = op[w] /\ pc'[w] = "begin" /\ seen'[w] = row.version
      \/ /\ pc[w] \in {"find", "wait"} /\ lock' = lock
         /\ op'[w] = None /\ pc'[w] = "done"
      \/ /\ pc[w] = "begin" /\ lock' = lock /\ op'[w] = op[w] /\ seen'[w] = seen[w]
         /\ pc'[w] = "wait" /\ began'[w] = now
      \/ /\ pc[w] = "wait" /\ lock = None /\ lock' = w /\ Matches(w)
         /\ op'[w] = op[w] /\ seen'[w] = seen[w] /\ began'[w] = began[w] /\ pc'[w] = "locked"
  <2>1. CASE Arrive(w)
    BY <1>2, <2>1, NoneIsNoData DEF Arrive, Goes, TypeOK
  <2>2. CASE FindByID(w)
    BY <1>2, <2>2 DEF FindByID, Goes, Ends, TypeOK
  <2>3. CASE Begin(w)
    BY <1>2, <2>3 DEF Begin, Goes, TypeOK
  <2>4. CASE Lock(w)
    BY <1>2, <2>4 DEF Lock, Goes, Ends, TypeOK
  <2> QED
    BY <2>1, <2>2, <2>3, <2>4
<1>5. TypeOK' /\ TimesFit' /\ ReservationsAreKept'
  <2>1. TypeOK'
    BY <1>1, <1>2, <1>3 DEF TypeOK
  <2>2. TimesFit' /\ ReservationsAreKept'
    BY <1>1, <1>2 DEF TimesFit, ReservationsAreKept
  <2> QED
    BY <2>1, <2>2
<1>6. SweepsAreDue'
  <2>1. lock' = None => lock = None
    BY <1>4, NoneIsNoData
  <2> QED
    BY <1>1, <1>2, <2>1 DEF SweepsAreDue, At
<1>7. WritersFit'
  <2> SUFFICES ASSUME NEW v \in Writer
               PROVE  /\ pc'[v] = "locked" <=> lock' = v
                      /\ op'[v] = None <=> pc'[v] \in {"idle", "done"}
                      /\ pc'[v] # "idle" => insertedAt # None
                      /\ pc'[v] = "find" => op'[v] = "update"
                      /\ pc'[v] \in {"wait", "locked"} => began'[v] # None /\ began'[v] <= now
                      /\ pc'[v] = "locked" =>
                           \/ op'[v] = "confirm" /\ At("pending")
                           \/ op'[v] = "update" /\ At("active") /\ row.version = seen'[v]
                           \/ op'[v] = "delete" /\ At("active")
    BY <1>1 DEF WritersFit, Matches, At
  <2>1. CASE v = w
    <3>1. /\ pc[w] = "locked" <=> lock = w
          /\ op[w] = None <=> pc[w] \in {"idle", "done"}
          /\ pc[w] # "idle" => insertedAt # None
          /\ pc[w] \in {"wait", "locked"} => began[w] # None /\ began[w] <= now
      BY <1>2 DEF WritersFit
    <3>3. now \in Nat
      BY <1>2
    <3>2. now # None /\ now <= now
      BY <3>3, NoneIsNoData
    <3> QED
      BY <1>2, <1>4, <2>1, <3>1, <3>2, NoneIsNoData DEF Matches, Op
  <2>2. CASE v # w
    <3>1. lock' = v <=> lock = v
      BY <1>4, <2>2, NoneIsNoData
    <3> QED
      BY <1>2, <1>3, <2>2, <3>1 DEF WritersFit, Matches
  <2> QED
    BY <2>1, <2>2
<1>8. UpdatesFit'
  <2> SUFFICES ASSUME NEW v \in Writer, op'[v] = "update", pc'[v] \in {"begin", "wait", "locked"}
               PROVE  /\ row # None /\ row.stage # "pending" /\ seen'[v] <= row.version
                      /\ pc'[v] # "begin" /\ row.stage = "active" /\ row.version = seen'[v]
                         => row.updated <= began'[v]
    BY <1>1 DEF UpdatesFit
  <2>1. CASE v = w
    <3>4. row # None => row \in Row
      BY <1>2
    <3>1. row # None => row.version \in Nat /\ row.updated \in Int
      BY <3>4 DEF Row
    <3>2. op[w] = "update" /\ pc[w] \in {"begin", "wait", "locked"} =>
            /\ row # None /\ row.stage # "pending" /\ seen[w] <= row.version
            /\ pc[w] # "begin" /\ row.stage = "active" /\ row.version = seen[w]
                 => row.updated <= began[w]
      BY <1>2 DEF UpdatesFit
    <3>3. row # None /\ row.stage # "pending" => row.updated <= now
      BY <1>2 DEF TimesFit
    <3> QED
      BY <1>4, <2>1, <3>1, <3>2, <3>3, NoneIsNoData DEF At, Op
  <2>2. CASE v # w
    BY <1>2, <1>3, <2>2 DEF UpdatesFit
  <2> QED
    BY <2>1, <2>2
<1> QED
  BY <1>5, <1>6, <1>7, <1>8 DEF Inv

\* What a commit does to the row.
LEMMA CommitsInOrder ==
  ASSUME Inv, NEW w \in Writer, Commit(w)
  PROVE  /\ row \in Row /\ row # None /\ row' \in Row /\ row' # None
         /\ row'.stage # "pending" /\ row'.updated = began[w] /\ began[w] \in Nat /\ began[w] <= now
         /\ \/ row.stage = "pending" /\ row'.version = row.version
            \/ row.stage = "active" /\ row'.stage = "deleted" /\ row'.version = row.version
            \/ /\ row.stage = "active" /\ row'.stage = "active" /\ row'.version = row.version + 1
               /\ row.updated <= row'.updated
<1>1. /\ pc[w] = "locked" /\ row' = Written(op[w], began[w])
      /\ Matches(w) /\ began[w] \in Nat /\ began[w] <= now
  BY TimesAreNumbers DEF Commit, Inv, WritersFit
<1>2. row \in Row /\ row # None
  BY <1>1, TimesAreNumbers DEF Matches, At, Inv
<1>3. CASE op[w] = "confirm" /\ At("pending")
  <2>1. row' = [stage |-> "active", version |-> row.version, updated |-> began[w]]
    BY <1>1, <1>3 DEF Written
  <2>2. /\ row' \in Row /\ row'.stage = "active" /\ row'.updated = began[w]
        /\ row'.version = row.version
    BY <1>1, <1>2, <2>1 DEF Row
  <2> QED
    BY <1>1, <1>2, <1>3, <2>2, NoneIsNoData DEF At
<1>4. CASE op[w] = "update" /\ At("active") /\ row.version = seen[w]
  <2>1. row' = [stage |-> row.stage, version |-> row.version + 1, updated |-> began[w]]
    BY <1>1, <1>4 DEF Written
  <2>2. row.updated <= began[w]
    BY <1>1, <1>4 DEF Inv, UpdatesFit, At
  <2>3. /\ row' \in Row /\ row'.stage = row.stage /\ row'.updated = began[w]
        /\ row'.version = row.version + 1
    BY <1>1, <1>2, <2>1 DEF Row
  <2> QED
    BY <1>1, <1>2, <1>4, <2>2, <2>3, NoneIsNoData DEF At
<1>5. CASE op[w] = "delete" /\ At("active")
  <2>1. row' = [stage |-> "deleted", version |-> row.version, updated |-> began[w]]
    BY <1>1, <1>5 DEF Written
  <2>2. /\ row' \in Row /\ row'.stage = "deleted" /\ row'.updated = began[w]
        /\ row'.version = row.version
    BY <1>1, <1>2, <2>1 DEF Row
  <2> QED
    BY <1>1, <1>2, <1>5, <2>2, NoneIsNoData DEF At
<1> QED
  BY <1>1, <1>3, <1>4, <1>5 DEF Matches

LEMMA CommitKeepsInv ==
  ASSUME Inv, NEW w \in Writer, Commit(w)
  PROVE  Inv'
<1>1. /\ UNCHANGED <<now, ttl, nextTick, failures, created, stampedAt, insertedAt, reclaimedAt>>
      /\ Due' = Due /\ BoundedTTL' = BoundedTTL
      /\ pc[w] = "locked" /\ lock' = None
  BY DEF Commit, Outside, clocks, sweeper, creation, Due, BoundedTTL
<1>2. /\ TypeOK /\ TimesFit /\ WritersFit /\ UpdatesFit /\ ReservationsAreKept
      /\ lock = w
      /\ \A v \in Writer \ {w} : pc[v] # "locked"
  BY <1>1 DEF Inv, WritersFit
<1>3. /\ op' \in [Writer -> Op \cup {None}]
      /\ pc' \in [Writer -> {"idle", "find", "begin", "wait", "locked", "done"}]
      /\ seen' \in [Writer -> Nat]
      /\ began' \in [Writer -> (0 .. Horizon) \cup {None}]
      /\ \A v \in Writer \ {w} :
           op'[v] = op[v] /\ pc'[v] = pc[v] /\ seen'[v] = seen[v] /\ began'[v] = began[v]
      /\ pc'[w] = "done" /\ op'[w] = None
  BY <1>2 DEF Commit, Ends, Goes, TypeOK
<1>4. /\ row \in Row /\ row # None /\ row' \in Row /\ row' # None
      /\ row'.stage # "pending" /\ row'.updated <= now
  BY CommitsInOrder
<1>5. TypeOK'
  BY <1>1, <1>2, <1>3, <1>4 DEF TypeOK
<1>6. TimesFit' /\ SweepsAreDue' /\ ReservationsAreKept'
  BY <1>1, <1>2, <1>4 DEF TimesFit, SweepsAreDue, ReservationsAreKept, At
<1>7. WritersFit'
  <2> SUFFICES ASSUME NEW v \in Writer
               PROVE  /\ pc'[v] # "locked"
                      /\ op'[v] = None <=> pc'[v] \in {"idle", "done"}
                      /\ pc'[v] # "idle" => insertedAt # None
                      /\ pc'[v] = "find" => op'[v] = "update"
                      /\ pc'[v] \in {"wait", "locked"} => began'[v] # None /\ began'[v] <= now
    BY <1>1, NoneIsNoData DEF WritersFit
  <2>1. CASE v = w
    BY <1>1, <1>2, <1>3, <2>1 DEF WritersFit
  <2>2. CASE v # w
    BY <1>2, <1>3, <2>2 DEF WritersFit
  <2> QED
    BY <2>1, <2>2
<1>8. UpdatesFit'
  <2> SUFFICES ASSUME NEW v \in Writer, op'[v] = "update", pc'[v] \in {"begin", "wait", "locked"}
               PROVE  /\ seen'[v] <= row'.version
                      /\ ~(row'.stage = "active" /\ row'.version = seen'[v])
    BY <1>4 DEF UpdatesFit
  <2>1. v # w /\ seen'[v] = seen[v] /\ seen[v] \in Nat
    BY <1>2, <1>3, NoneIsNoData DEF Op, TypeOK
  <2>2. row.stage # "pending" /\ seen[v] <= row.version
    BY <1>2, <1>3, <2>1 DEF UpdatesFit
  <2> QED
    BY <1>4, <2>1, <2>2, CommitsInOrder DEF Row
<1> QED
  BY <1>5, <1>6, <1>7, <1>8 DEF Inv

-----------------------------------------------------------------------------
(* The theorems.                                                           *)

LEMMA InitInv == Init => Inv
<1> SUFFICES ASSUME Init PROVE Inv
  OBVIOUS
<1>1. Interval \in Nat \ {0} /\ Horizon \in Nat /\ MaxFailures \in Nat /\ MaxSkew \in Nat
  BY SweeperIsOn, BoundsAreNaturals, SkewIsBounded
<1>2. [stage |-> "active", version |-> 1, updated |-> 0] \in Row /\ 0 # None
  BY NoneIsNoData DEF Row
<1>3. TypeOK
  BY <1>1, <1>2 DEF Init, TypeOK
<1>4. TimesFit
  BY <1>1, <1>2, NoneIsNoData DEF Init, TimesFit
<1>5. SweepsAreDue /\ ReservationsAreKept
  BY <1>2, NoneIsNoData DEF Init, SweepsAreDue, ReservationsAreKept, At
<1>6. WritersFit /\ UpdatesFit
  BY NoneIsNoData DEF Init, WritersFit, UpdatesFit, Op
<1> QED
  BY <1>3, <1>4, <1>5, <1>6 DEF Inv

LEMMA StepInv == Inv /\ [Next]_vars => Inv'
<1> SUFFICES ASSUME Inv, [Next]_vars PROVE Inv'
  OBVIOUS
<1>1. ASSUME NEW w \in Writer, Write(w) PROVE Inv'
  BY <1>1, ReadersKeepInv, CommitKeepsInv DEF Write
<1>2. CASE UNCHANGED vars
  BY <1>2 DEF vars, clocks, sweeper, creation, writers, Inv, TypeOK, TimesFit, SweepsAreDue, WritersFit,
              UpdatesFit, ReservationsAreKept, At, Due, BoundedTTL, Matches
<1> QED
  BY <1>1, <1>2, PassKeepsInv, SweepKeepsInv, FailureKeepsInv, CreationKeepsInv DEF Next

\* The invariant of the times of a row.
THEOREM Invariance == Spec => []Inv
  BY InitInv, StepInv, PTL DEF Spec

\* Reservations are kept for the TTL, for every TTL, skew and width of the integers.
THEOREM TTLIsRespected == Spec => []ReservationsAreKept
<1>1. Inv => ReservationsAreKept
  BY DEF Inv
<1> QED
  BY <1>1, Invariance, PTL

\* And they are gone in time, for every interval and every number of failures.
THEOREM ReservationsAreReclaimed == Spec => []ReservationsGo
<1>1. ASSUME Inv PROVE ReservationsGo
  <2> SUFFICES ASSUME At("pending"), lock = None
               PROVE  now <= Larger(insertedAt, Due) + Interval * (1 + failures)
    BY DEF ReservationsGo
  <2>1. now \in Nat /\ nextTick \in Nat /\ now <= nextTick
    BY <1>1, TimesAreNumbers DEF Inv, TimesFit
  <2>2. Larger(insertedAt, Due) \in Int /\ Interval * (1 + failures) \in Nat
    BY <1>1, DueIsANumber DEF Inv
  <2>3. nextTick <= Larger(insertedAt, Due) + Interval * (1 + failures)
    BY <1>1 DEF Inv, SweepsAreDue
  <2> QED
    BY <2>1, <2>2, <2>3
<1> QED
  BY <1>1, Invariance, PTL

\* A later version has a later updated_at, although it may have waited for the lock.
THEOREM UpdatesAreStampedInOrder == Spec => UpdatedAtFollowsVersion
<1> DEFINE Follows ==
      row # None /\ row' # None /\ row'.version > row.version => row'.updated >= row.updated
<1>1. ASSUME Inv, [Next]_vars PROVE [Follows]_vars
  <2> SUFFICES ASSUME Next, row # None, row' # None, row'.version > row.version
               PROVE  row'.updated >= row.updated
    BY <1>1
  <2>1. row \in Row
    BY <1>1, TimesAreNumbers DEF Inv
  <2>2. CASE \E w \in Writer : Commit(w)
    BY <1>1, <2>1, <2>2, CommitsInOrder DEF Row
  <2>3. CASE row' = row
    BY <2>1, <2>3 DEF Row
  <2>4. row' = row \/ \E w \in Writer : Commit(w)
    <3>1. CASE Insert
      BY <1>1, <3>1 DEF Insert, Inv, TimesFit
    <3>2. CASE Sweep
      BY <3>2 DEF Sweep
    <3>3. CASE Pass \/ SweepFails \/ Restart \/ Stamp
      BY <3>3 DEF Pass, SweepFails, Restart, Stamp
    <3>4. CASE \E w \in Writer : Write(w)
      BY <3>4 DEF Write, Arrive, FindByID, Begin, Lock
    <3> QED
      BY <3>1, <3>2, <3>3, <3>4 DEF Next
  <2> QED
    BY <2>2, <2>3, <2>4
<1>2. Inv /\ [Next]_vars => [Follows]_vars
  BY <1>1
<1> QED
  BY <1>2, Invariance, PTL DEF Spec, UpdatedAtFollowsVersion
=============================================================================
