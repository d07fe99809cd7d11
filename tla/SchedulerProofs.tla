-------------------------- MODULE SchedulerProofs --------------------------
(***************************************************************************)
(* Proofs about Scheduler and the token bucket, for every finite set of    *)
(* requests, every result, every configuration of limits and all bounds.   *)
(***************************************************************************)
EXTENDS Scheduler, TokenBucketUse, TLAPS, FiniteSetTheorems, WellFoundedInduction

-----------------------------------------------------------------------------
(* Arithmetic *)

\* The quotient and the remainder of refill_bucket add up.
LEMMA DivMod ==
    ASSUME NEW a \in Nat, NEW b \in Nat \ {0}
    PROVE  /\ a \div b \in Nat
           /\ a % b \in Nat
           /\ a = (b * (a \div b)) + (a % b)
OBVIOUS

\* Multiplication by a natural number preserves order.
LEMMA Monotone ==
    ASSUME NEW a \in Int, NEW b \in Int, NEW c \in Nat, a <= b
    PROVE  a * c <= b * c
OBVIOUS

\* The product of an integer and a natural number is an integer.
LEMMA ProductType == \A a \in Int, b \in Nat : a * b \in Int
OBVIOUS

\* One factor less.
LEMMA OneLess ==
    ASSUME NEW a \in Nat \ {0}, NEW b \in Nat
    PROVE  ((a - 1) * b) + b = a * b /\ (a - 1) * b \in Nat
<1>1. (a - 1) * b = (a * b) - b
    OBVIOUS
<1>2. a - 1 \in Nat
    OBVIOUS
<1>3. (a - 1) * b \in Nat
    BY <1>2
<1>4. a * b \in Int
    OBVIOUS
<1> QED BY <1>1, <1>3, <1>4

\* A set of times that is not empty has an earliest one: the row that
\* PriorInputs orders first exists.
LEMMA EarliestExists ==
    ASSUME NEW S, S \subseteq Nat, S # {}
    PROVE  \E n \in S : \A m \in S : n <= m
<1>1. \E n \in S : \A m \in S : ~(<<m, n>> \in OpToRel(<, Nat))
    BY NatLessThanWellFounded, WFMin, Zenon
<1>2. ASSUME NEW m \in Nat, NEW n \in Nat, m < n
      PROVE  <<m, n>> \in OpToRel(<, Nat)
    BY <1>2, Zenon DEF OpToRel
<1>3. \E n \in S : \A m \in S : ~(m < n)
    BY <1>1, <1>2, Zenon
<1> QED BY <1>3

-----------------------------------------------------------------------------
(* The token bucket *)

\* What a bucket holds, in units of 1/refill_interval_ms of a token.
Level(b, p) == (b.tokens * p.refill_interval_ms) + b.remainder

\* The bucket of a scope covers its grants: what is left of the burst and of
\* the refills since a grant is at least what was taken since, that grant
\* included, plus what the bucket still holds.
BucketCovers(b, p, g) ==
    /\ b \in TokenBucketState
    /\ g \in Seq(Nat)
    /\ Level(b, p) <= p.capacity * p.refill_interval_ms
    /\ \A i \in 1..Len(g) :
          /\ g[i] <= b.updated_at
          /\ ((Len(g) - i + 1) * p.refill_interval_ms) + Level(b, p)
                <= (p.capacity * p.refill_interval_ms)
                   + ((b.updated_at - g[i]) * p.refill_tokens)

\* RateBounded, at one scope.
GrantsBounded(p, g) ==
    \A i, j \in DOMAIN g : i <= j =>
        (j - i + 1) * p.refill_interval_ms
            <= p.capacity * p.refill_interval_ms + (g[j] - g[i]) * p.refill_tokens

\* refill_bucket adds no more than the elapsed time refills, and never fills
\* a bucket above its capacity.
LEMMA RefillLevel ==
    ASSUME NEW p \in RatePolicy, NEW b \in TokenBucketState, NEW now \in Nat,
           Refillable(b, now),
           Level(b, p) <= p.capacity * p.refill_interval_ms,
           NEW r, r = refill_bucket(b, p, now)
    PROVE  /\ r \in TokenBucketState
           /\ r.updated_at = now
           /\ Level(r, p) <= p.capacity * p.refill_interval_ms
           /\ Level(r, p) <= Level(b, p) + ((now - b.updated_at) * p.refill_tokens)
<1> DEFINE I == p.refill_interval_ms
           R == p.refill_tokens
           C == p.capacity
           n == ((now - b.updated_at) * R) + b.remainder
           q == n \div I
           m == n % I
           t == b.tokens + q
<1>1. I \in Nat \ {0} /\ R \in Nat \ {0} /\ C \in Nat \ {0}
    BY DEF RatePolicy
<1>2. /\ b.tokens \in Nat /\ b.remainder \in Nat /\ b.updated_at \in Nat
      /\ now - b.updated_at \in Nat
    BY DEF TokenBucketState, Refillable
<1>3. n \in Nat /\ ((now - b.updated_at) * R) \in Nat
    <2> HIDE DEF R
    <2>1. R \in Nat BY <1>1
    <2>2. (now - b.updated_at) * R \in Nat BY <1>2, <2>1
    <2> QED BY <1>2, <2>2
<1>4. q \in Nat /\ m \in Nat /\ n = (I * q) + m
    <2> HIDE DEF I, n
    <2> QED BY <1>1, <1>3, DivMod
<1>5. r = IF b.tokens >= C \/ t >= C THEN FullBucket(p, now)
          ELSE [tokens |-> t, remainder |-> m, updated_at |-> now]
    BY DEF refill_bucket
<1> DEFINE e == (now - b.updated_at) * R
<1>6. /\ e \in Nat /\ e + b.remainder = (I * q) + m
    BY <1>3, <1>4
<1>7. t \in Nat BY <1>2, <1>4
<1> HIDE DEF q, m, e
<1>8. CASE b.tokens >= C \/ t >= C
    <2>1. r = [tokens |-> C, remainder |-> 0, updated_at |-> now]
        BY <1>5, <1>8 DEF FullBucket
    <2>2. Level(r, p) = C * I
        BY <1>1, <2>1 DEF Level
    <2>0. C <= t
        BY <1>1, <1>2, <1>4, <1>8
    <2>3. C * I <= t * I
        BY <1>1, <1>7, <2>0, Monotone
    <2>4. t * I = (b.tokens * I) + (I * q)
        BY <1>1, <1>2, <1>4
    <2>6. C * I <= Level(b, p) + e
        <3> DEFINE ci == C * I
                   ti == t * I
                   bi == b.tokens * I
                   iq == I * q
        <3>1. ci \in Int /\ ti \in Int /\ bi \in Int /\ iq \in Int
            BY <1>1, <1>2, <1>4, <1>7
        <3>2. Level(b, p) = bi + b.remainder
            BY DEF Level
        <3>3. ci <= ti /\ ti = bi + iq /\ e + b.remainder = iq + m
            BY <1>6, <2>3, <2>4
        <3> HIDE DEF ci, ti, bi, iq
        <3>4. ci <= bi + b.remainder + e
            BY <1>2, <1>4, <1>6, <3>1, <3>3
        <3> QED BY <1>2, <1>6, <3>1, <3>2, <3>4 DEF ci
    <2> QED BY <1>1, <2>1, <2>2, <2>6 DEF TokenBucketState, e
<1>9. CASE ~(b.tokens >= C \/ t >= C)
    <2>1. r = [tokens |-> t, remainder |-> m, updated_at |-> now]
        BY <1>5, <1>9
    <2>2. r \in TokenBucketState /\ r.updated_at = now
        BY <1>4, <1>7, <2>1 DEF TokenBucketState
    <2>3. t * I = (b.tokens * I) + (I * q)
        BY <1>1, <1>2, <1>4
    <2>4. Level(r, p) = Level(b, p) + e
        BY <1>1, <1>2, <1>4, <1>6, <2>1, <2>3 DEF Level
    <2>5. Level(r, p) <= C * I
        <3>1. m < I
            BY <1>1, <1>3 DEF m
        <3>2. t + 1 <= C
            BY <1>1, <1>7, <1>9
        <3>3. (t * I) + I <= C * I
            BY <1>1, <1>7, <3>2
        <3> QED BY <1>1, <1>4, <1>7, <2>1, <3>1, <3>3 DEF Level
    <2> QED BY <2>2, <2>4, <2>5, <1>1, <1>2, <1>6 DEF e, Level
<1> QED BY <1>8, <1>9

\* A refill keeps the grants covered.
LEMMA RefillCovers ==
    ASSUME NEW p \in RatePolicy, NEW b, NEW g, NEW now \in Nat,
           BucketCovers(b, p, g), Refillable(b, now),
           NEW r, r = refill_bucket(b, p, now)
    PROVE  BucketCovers(r, p, g) /\ r.updated_at = now
<1> DEFINE I == p.refill_interval_ms
           R == p.refill_tokens
           C == p.capacity
<1>1. I \in Nat /\ R \in Nat /\ C \in Nat
    BY DEF RatePolicy
<1>2. b \in TokenBucketState /\ g \in Seq(Nat)
    BY DEF BucketCovers
<1>3. /\ r \in TokenBucketState
      /\ r.updated_at = now
      /\ Level(r, p) <= C * I
      /\ Level(r, p) <= Level(b, p) + ((now - b.updated_at) * R)
    BY <1>2, RefillLevel DEF BucketCovers
<1>4. /\ b.updated_at \in Nat /\ b.updated_at <= now
      /\ b.tokens \in Nat /\ b.remainder \in Nat
      /\ r.tokens \in Nat /\ r.remainder \in Nat
    BY <1>2, <1>3 DEF TokenBucketState, Refillable
<1>5. Level(b, p) \in Int /\ Level(r, p) \in Int
    BY <1>1, <1>4 DEF Level
<1>6. ASSUME NEW i \in 1..Len(g)
      PROVE  /\ g[i] <= now
             /\ ((Len(g) - i + 1) * I) + Level(r, p) <= (C * I) + ((now - g[i]) * R)
    <2>1. g[i] \in Nat
        BY <1>2
    <2>2. /\ g[i] <= b.updated_at
          /\ ((Len(g) - i + 1) * I) + Level(b, p) <= (C * I) + ((b.updated_at - g[i]) * R)
        BY DEF BucketCovers
    <2>3. (now - g[i]) * R = ((now - b.updated_at) * R) + ((b.updated_at - g[i]) * R)
        BY SMTT(40), <1>1, <1>4, <2>1
    <2> DEFINE k == (Len(g) - i + 1) * I
               ci == C * I
               x == (now - b.updated_at) * R
               y == (b.updated_at - g[i]) * R
               z == (now - g[i]) * R
    <2>4. k \in Int /\ ci \in Int /\ x \in Int /\ y \in Int /\ z \in Int
        <3>1. /\ Len(g) - i + 1 \in Int /\ now - b.updated_at \in Int
              /\ b.updated_at - g[i] \in Int /\ now - g[i] \in Int
            BY <1>2, <1>4, <2>1
        <3>2. C \in Int
            BY <1>1
        <3> QED BY <1>1, <3>1, <3>2, ProductType, Zenon
    <2>5. /\ k + Level(b, p) <= ci + y /\ z = x + y /\ Level(r, p) <= Level(b, p) + x
        BY <1>3, <2>2, <2>3
    <2> HIDE DEF k, ci, x, y, z
    <2>6. k + Level(r, p) <= ci + z
        BY <1>5, <2>4, <2>5
    <2>7. g[i] <= now
        BY <1>4, <2>1, <2>2
    <2> QED BY <2>6, <2>7 DEF k, ci, z
<1> QED BY <1>2, <1>3, <1>6 DEF BucketCovers

\* A grant takes one token and keeps the grants covered and within the rate.
LEMMA GrantCovers ==
    ASSUME NEW p \in RatePolicy, NEW r, NEW g, NEW now \in Nat,
           BucketCovers(r, p, g), GrantsBounded(p, g),
           r.updated_at = now, r.tokens # 0,
           NEW u, u = [tokens |-> r.tokens - 1, remainder |-> r.remainder,
                       updated_at |-> r.updated_at],
           NEW h, h = Append(g, now)
    PROVE  BucketCovers(u, p, h) /\ GrantsBounded(p, h)
<1> DEFINE I == p.refill_interval_ms
           R == p.refill_tokens
           C == p.capacity
           n == Len(g)
<1>1. I \in Nat /\ R \in Nat /\ C \in Nat
    BY DEF RatePolicy
<1>2. r \in TokenBucketState /\ g \in Seq(Nat) /\ n \in Nat
    BY DEF BucketCovers
<1>3. r.tokens \in Nat \ {0} /\ r.remainder \in Nat /\ r.updated_at \in Nat
    BY <1>2 DEF TokenBucketState
<1>4. /\ u.tokens = r.tokens - 1 /\ u.remainder = r.remainder
      /\ u.updated_at = now /\ u \in TokenBucketState
    BY <1>2, <1>3 DEF TokenBucketState
<1>5. h \in Seq(Nat) /\ Len(h) = n + 1 /\ h[n + 1] = now
      /\ (\A i \in 1..n : h[i] = g[i]) /\ DOMAIN h = 1..(n + 1) /\ DOMAIN g = 1..n
    BY <1>2
<1>6. Level(u, p) + I = Level(r, p) /\ Level(u, p) \in Nat
    <2>1. (u.tokens * I) + I = r.tokens * I /\ u.tokens * I \in Nat
        <3>1. ((r.tokens - 1) * I) + I = r.tokens * I /\ (r.tokens - 1) * I \in Nat
            BY <1>1, <1>3, OneLess
        <3> QED BY <1>4, <3>1, Zenon
    <2> QED BY SMTT(40), <1>1, <1>3, <1>4, <2>1 DEF Level
<1>7. Level(r, p) <= C * I
    BY DEF BucketCovers
<1>8. C * I \in Nat
    BY <1>1
<1>9. ASSUME NEW i \in 1..(n + 1)
      PROVE  /\ h[i] <= now /\ h[i] \in Nat
             /\ ((n + 1 - i + 1) * I) + Level(u, p) <= (C * I) + ((now - h[i]) * R)
    <2>1. CASE i = n + 1
        <3>1. h[i] = now /\ (n + 1 - i + 1) * I = I /\ (now - h[i]) * R = 0
            BY <1>1, <1>2, <1>5, <2>1
        <3> HIDE DEF n, I, R, C
        <3> QED BY <1>1, <1>6, <1>7, <1>8, <3>1
    <2>2. CASE i # n + 1
        <3>1. i \in 1..n
            BY <1>2, <2>2
        <3>2. h[i] = g[i] /\ g[i] \in Nat
            BY <1>2, <1>5, <3>1
        <3>3. /\ g[i] <= now
              /\ ((n - i + 1) * I) + Level(r, p) <= (C * I) + ((now - g[i]) * R)
            BY <3>1 DEF BucketCovers
        <3>4. (n + 1 - i + 1) * I = ((n - i + 1) * I) + I
            <4>1. n - i + 1 \in Int /\ n + 1 - i + 1 = (n - i + 1) + 1
                BY <1>2, <3>1
            <4> QED BY <1>1, <4>1
        <3>5. (n - i + 1) * I \in Int /\ (now - g[i]) * R \in Int
            <4>1. n - i + 1 \in Int /\ now - g[i] \in Int /\ I \in Int /\ R \in Int
                BY <1>1, <1>2, <3>1, <3>2
            <4> QED BY <4>1
        <3> DEFINE k == (n - i + 1) * I
                   z == (now - g[i]) * R
                   k1 == (n + 1 - i + 1) * I
                   ci == C * I
        <3>6. k + Level(r, p) <= ci + z /\ k1 = k + I /\ k \in Int /\ z \in Int /\ ci \in Int
            BY <1>8, <3>3, <3>4, <3>5
        <3> HIDE DEF k, z, k1, ci, I
        <3>7. k1 + Level(u, p) <= ci + z
            BY <1>1, <1>6, <3>6
        <3> QED BY <3>2, <3>3, <3>7 DEF k1, ci, z, I
    <2> QED BY <2>1, <2>2
<1>10. BucketCovers(u, p, h)
    <2>1. Level(u, p) <= C * I
        <3> HIDE DEF C, I
        <3> QED BY <1>1, <1>6, <1>7, <1>8
    <2> QED BY <1>4, <1>5, <1>9, <2>1 DEF BucketCovers
<1>11. ASSUME NEW i \in DOMAIN h, NEW j \in DOMAIN h, i <= j
       PROVE  (j - i + 1) * I <= C * I + (h[j] - h[i]) * R
    <2>1. CASE j = n + 1
        <3>1. i \in 1..(n + 1) /\ i \in Int
            BY <1>5
        <3>2. ((n + 1 - i + 1) * I) + Level(u, p) <= (C * I) + ((now - h[i]) * R)
            BY <1>9, <3>1
        <3>3. h[i] \in Nat
            BY <1>9, <3>1
        <3>4. h[j] = now /\ (j - i + 1) * I = (n + 1 - i + 1) * I
            BY <1>5, <2>1
        <3> DEFINE k1 == (n + 1 - i + 1) * I
                   z == (now - h[i]) * R
                   ci == C * I
        <3>5. k1 \in Int /\ z \in Int /\ ci \in Int
            <4>1. n + 1 - i + 1 \in Int /\ now - h[i] \in Int
                BY <1>2, <3>1, <3>3
            <4>2. C \in Int
                BY <1>1
            <4> QED BY <1>1, <4>1, <4>2, ProductType, Zenon
        <3>6. k1 + Level(u, p) <= ci + z
            BY <3>2
        <3> HIDE DEF k1, z, ci
        <3>7. k1 <= ci + z
            BY <1>6, <3>5, <3>6
        <3> QED BY <3>4, <3>7 DEF k1, ci, z
    <2>2. CASE j # n + 1
        <3>1. i \in 1..n /\ j \in 1..n
            BY <1>2, <1>5, <1>11, <2>2
        <3>2. h[i] = g[i] /\ h[j] = g[j]
            BY <1>5, <3>1
        <3> QED BY <1>5, <1>11, <3>1, <3>2 DEF GrantsBounded
    <2> QED BY <2>1, <2>2
<1> QED BY <1>10, <1>11 DEF GrantsBounded

-----------------------------------------------------------------------------
(* Requests, scopes and calls *)

\* The keys of a request are keys of the tables.
LEMMA RequestFacts ==
    ASSUME NEW q \in Requests
    PROVE  /\ q.id \in ReservationIds /\ q.tournament \in Tournaments
           /\ q.match \in Matches /\ q.duration \in Nat
           /\ ScopeKeys(q) \subseteq Scopes
<1>1. q.duration \in Nat
    BY SchedulerAssumption
<1> QED BY <1>1 DEF ReservationIds, Tournaments, Matches, Scopes

\* There are finitely many reservations to count.
LEMMA FiniteReservations == IsFiniteSet(ReservationIds)
<1> DEFINE f == [q \in Requests |-> q.id]
<1>1. f \in Surjection(Requests, ReservationIds)
    BY DEF Surjection, ReservationIds
<1>2. IsFiniteSet(Requests)
    BY SchedulerAssumption, Zenon
<1> QED BY <1>1, <1>2, FS_Surjection

\* No row is mistaken for a missing one.
LEMMA NoRowFacts ==
    /\ NoRow \notin SchedulingLimit /\ NoRow \notin RatePolicy
    /\ NoRow \notin TokenBucketState /\ NoRow \notin ControlRow
    /\ NoRow \notin Reservation /\ NoRow \notin TerminalRow
BY SchedulerAssumption

\* Calls bring times of the clock.
LEMMA SampledFacts ==
    ASSUME TypeOK, NEW now \in Sampled
    PROVE  now \in Nat /\ now <= clock
BY SchedulerAssumption DEF TypeOK, Sampled

\* The loop over the scopes lets an acquisition through only if every scope
\* is configured, below its ceiling and, if rated, can be refilled.
LEMMA OpenLoop ==
    ASSUME NEW q \in Requests, NEW rows, NEW now, LoopVerdict(rows, q, now) = "open",
           NEW s \in ScopeKeys(q)
    PROVE  /\ limits[s] # NoRow
           /\ ~(active_count(rows, s) >= limits[s].max_concurrency)
           /\ Rated(s) => Refillable(buckets[s], now)
<1> DEFINE v == [i \in 1..4 |-> ScopeVerdict(rows, scopes(q)[i], now)]
           stops == {i \in 1..4 : v[i] # "open"}
<1>1. LoopVerdict(rows, q, now)
        = IF stops = {} THEN "open" ELSE v[CHOOSE i \in stops : \A k \in stops : i <= k]
    BY DEF LoopVerdict
<1>2. stops = {}
    <2> SUFFICES ASSUME stops # {} PROVE FALSE
        OBVIOUS
    <2>1. stops \subseteq Nat
        OBVIOUS
    <2>2. \E i \in stops : \A k \in stops : i <= k
        BY <2>1, EarliestExists
    <2> DEFINE c == CHOOSE i \in stops : \A k \in stops : i <= k
    <2>3. c \in stops
        BY <2>2
    <2>4. v[c] = "open"
        BY <1>1
    <2> QED BY <2>3, <2>4
<1>3. PICK i \in 1..4 : s = scopes(q)[i]
    BY DEF ScopeKeys
<1>4. ScopeVerdict(rows, s, now) = "open"
    BY <1>2, <1>3
<1> QED BY <1>4 DEF ScopeVerdict

-----------------------------------------------------------------------------
(* How the rows of execution_reservations evolve *)

\* A row keeps its request and the time it was acquired, a row that has ended
\* stays as it ended, and a live row stays live or ends.
Evolves(old, new) ==
    /\ old = NoRow <=> new = NoRow
    /\ old # NoRow => /\ new \in Reservation
                      /\ new.request = old.request
                      /\ new.acquired = old.acquired
                      /\ ~LiveRow(old) => new = old

\* The step does not complete, extend or activate the row.
Fades(old, new) ==
    old # NoRow => /\ new.expires = old.expires
                   /\ new.status = "completed" => old.status = "completed"
                   /\ new.status = "active" => old.status = "active"

\* The table after the sweep.
LEMMA ExpireFacts ==
    ASSUME TypeOK, NEW now, NEW rows, rows = expire_reservations(now)
    PROVE  /\ rows \in [ReservationIds -> Reservation \cup {NoRow}]
           /\ \A i \in ReservationIds : /\ Evolves(reservations[i], rows[i])
                                         /\ Fades(reservations[i], rows[i])
<1>1. reservations \in [ReservationIds -> Reservation \cup {NoRow}]
    BY DEF TypeOK
<1>2. ASSUME NEW i \in ReservationIds
      PROVE  /\ rows[i] \in Reservation \cup {NoRow}
             /\ Evolves(reservations[i], rows[i])
             /\ Fades(reservations[i], rows[i])
    <2> DEFINE r == reservations[i]
    <2>1. CASE LiveRow(r) /\ r.expires <= now
        <3>1. rows[i] = [r EXCEPT !.status = "expired"]
            BY <2>1, Zenon DEF expire_reservations
        <3>2. r \in Reservation
            BY <1>1, <2>1 DEF LiveRow
        <3>3. /\ rows[i] \in Reservation
              /\ rows[i].request = r.request /\ rows[i].acquired = r.acquired
              /\ rows[i].expires = r.expires /\ rows[i].status = "expired"
            BY <3>1, <3>2 DEF Reservation, Status
        <3> QED BY <2>1, <3>2, <3>3, NoRowFacts DEF Evolves, Fades
    <2>2. CASE ~(LiveRow(r) /\ r.expires <= now)
        <3>1. rows[i] = r
            BY <2>2, Zenon DEF expire_reservations
        <3> QED BY <1>1, <3>1 DEF Evolves, Fades
    <2> QED BY <2>1, <2>2
<1>3. rows = [i \in ReservationIds |-> rows[i]]
    BY DEF expire_reservations
<1> QED BY <1>2, <1>3

\* Every step but a grant lets every row evolve; only commit_result completes
\* a row and only renew_reservation extends one.
LEMMA RowsEvolve ==
    ASSUME TypeOK, Next, ~(\E q \in Requests : AcquireGranted(q)),
           NEW i \in ReservationIds
    PROVE  Evolves(reservations[i], reservations'[i])
<1> DEFINE old == reservations[i]
           new == reservations'[i]
<1>0. old \in Reservation \cup {NoRow}
    BY DEF TypeOK
<1>1. ASSUME new = old
      PROVE  Evolves(old, new)
    BY <1>0, <1>1 DEF Evolves
<1>2. ASSUME NEW now, reservations' = expire_reservations(now)
      PROVE  Evolves(old, new)
    BY <1>2, ExpireFacts
<1>3. CASE Tick
    BY <1>1, <1>3 DEF Tick
<1>4. CASE recovery
    BY <1>2, <1>4 DEF recovery
<1>5. ASSUME NEW c \in Configurations, configure_limits(c)
      PROVE  Evolves(old, new)
    BY <1>1, <1>5 DEF configure_limits
<1>6. ASSUME NEW t \in Tournaments, NEW next \in Controls, control(t, next)
      PROVE  Evolves(old, new)
    <2>1. \/ new = old
          \/ /\ old # NoRow /\ old.status = "active"
             /\ new = [old EXCEPT !.status = "cancel_requested"]
        BY <1>6 DEF control, Present
    <2> QED BY <1>0, <1>1, <2>1, NoRowFacts
            DEF Evolves, LiveRow, Reservation, Status, LiveStatus
<1>7. ASSUME NEW q \in Requests, AcquireRefused(q) \/ AcquireThrottled(q)
      PROVE  Evolves(old, new)
    <2>1. PICK now \in Sampled : reservations' = expire_reservations(now)
        BY <1>7, Zenon DEF AcquireRefused, AcquireThrottled
    <2> QED BY <1>2, <2>1
<1>8. ASSUME NEW q \in Requests, renew_reservation(q)
      PROVE  Evolves(old, new)
    <2>1. PICK now \in Sampled, duration \in Durations :
            /\ Present(q.id) /\ reservations[q.id].status = "active"
            /\ reservations' = [reservations EXCEPT ![q.id] =
                                   [@ EXCEPT !.expires = now + duration]]
        BY <1>8 DEF renew_reservation, Held
    <2>2. now + duration \in Nat
        BY SampledFacts, SchedulerAssumption DEF Durations
    <2>3. CASE i = q.id
        <3>1. new = [old EXCEPT !.expires = now + duration]
            BY <2>1, <2>3 DEF TypeOK
        <3>2. old \in Reservation /\ old.status = "active"
            BY <1>0, <2>1, <2>3 DEF Present
        <3> QED BY <2>2, <3>1, <3>2, NoRowFacts
                DEF Evolves, LiveRow, Reservation, Status, LiveStatus
    <2>4. CASE i # q.id
        BY <1>1, <2>1, <2>4 DEF TypeOK
    <2> QED BY <2>3, <2>4
<1>9. ASSUME NEW j \in ReservationIds, NEW status \in Status,
             LiveRow(reservations[j]), reservations' = SetStatus(j, status)
      PROVE  Evolves(old, new)
    <2>1. CASE i = j
        <3>1. new = [old EXCEPT !.status = status]
            BY <1>9, <2>1 DEF TypeOK, SetStatus
        <3>2. old \in Reservation /\ LiveRow(old)
            BY <1>0, <1>9, <2>1 DEF LiveRow
        <3> QED BY <3>1, <3>2, NoRowFacts DEF Evolves, Reservation
    <2>2. CASE i # j
        BY <1>1, <1>9, <2>2 DEF TypeOK, SetStatus
    <2> QED BY <2>1, <2>2
<1>10. ASSUME NEW q \in Requests, release_reservation(q)
       PROVE  Evolves(old, new)
    <2>1. LiveRow(reservations[q.id]) /\ reservations' = SetStatus(q.id, "released")
        BY <1>10 DEF release_reservation
    <2> QED BY <1>9, <2>1, RequestFacts DEF Status
<1>11. ASSUME NEW q \in Requests, NEW x \in Results, commit_result(q, x)
       PROVE  Evolves(old, new)
    <2>1. LiveRow(reservations[q.id]) /\ reservations' = SetStatus(q.id, "completed")
        BY <1>11 DEF commit_result, Held, Present, LiveRow, LiveStatus
    <2> QED BY <1>9, <2>1, RequestFacts DEF Status
<1> QED BY <1>3, <1>4, <1>5, <1>6, <1>7, <1>8, <1>10, <1>11 DEF Next, acquire_reservation

\* A grant sweeps the table and adds the row of the request.
LEMMA GrantFacts ==
    ASSUME TypeOK, NEW q \in Requests, AcquireGranted(q)
    PROVE  \E now \in Sampled, rows \in [ReservationIds -> Reservation \cup {NoRow}] :
             /\ \A i \in ReservationIds : /\ Evolves(reservations[i], rows[i])
                                           /\ Fades(reservations[i], rows[i])
             /\ Admissible(q, rows, now)
             /\ ~OutOfTokens(q, now)
             /\ reservations[q.id] = NoRow
             /\ ~LiveMatch(rows, q.match)
             /\ reservations' \in [ReservationIds -> Reservation \cup {NoRow}]
             /\ reservations'[q.id] = NewReservation(q, now)
             /\ NewReservation(q, now) \in Reservation
             /\ \A i \in ReservationIds \ {q.id} : reservations'[i] = rows[i]
             /\ buckets' = persist_buckets(q, now, 1)
             /\ grants' = Granted(q, now)
             /\ UNCHANGED <<clock, limits, controls, terminal>>
<1>1. PICK now \in Sampled :
        LET rows == expire_reservations(now)
        IN /\ Admissible(q, rows, now)
           /\ ~OutOfTokens(q, now)
           /\ ~Present(q.id)
           /\ ~LiveMatch(rows, q.match)
           /\ reservations' = [rows EXCEPT ![q.id] = NewReservation(q, now)]
           /\ buckets' = persist_buckets(q, now, 1)
           /\ grants' = Granted(q, now)
           /\ UNCHANGED <<clock, limits, controls, terminal>>
    BY Zenon DEF AcquireGranted
<1> DEFINE rows == expire_reservations(now)
<1>2. /\ rows \in [ReservationIds -> Reservation \cup {NoRow}]
      /\ \A i \in ReservationIds : /\ Evolves(reservations[i], rows[i])
                                    /\ Fades(reservations[i], rows[i])
    BY ExpireFacts
<1>3. NewReservation(q, now) \in Reservation
    BY RequestFacts, SampledFacts DEF NewReservation, Reservation, Status, LiveStatus
<1>4. reservations' = [rows EXCEPT ![q.id] = NewReservation(q, now)]
    BY <1>1
<1>5. q.id \in ReservationIds
    BY RequestFacts
<1>6. /\ Admissible(q, rows, now) /\ ~OutOfTokens(q, now) /\ ~Present(q.id)
      /\ ~LiveMatch(rows, q.match)
      /\ buckets' = persist_buckets(q, now, 1)
      /\ grants' = Granted(q, now)
      /\ UNCHANGED <<clock, limits, controls, terminal>>
    BY <1>1
<1> HIDE DEF rows
<1>7. /\ reservations' \in [ReservationIds -> Reservation \cup {NoRow}]
      /\ reservations'[q.id] = NewReservation(q, now)
      /\ \A i \in ReservationIds \ {q.id} : reservations'[i] = rows[i]
    BY <1>2, <1>3, <1>4, <1>5
<1>8. reservations[q.id] = NoRow
    BY <1>6 DEF Present
<1> QED BY <1>2, <1>3, <1>6, <1>7, <1>8, Zenon

\* reservations stays a table of its ids.
LEMMA ReservationsType ==
    ASSUME TypeOK, Next
    PROVE  reservations' \in [ReservationIds -> Reservation \cup {NoRow}]
<1>1. CASE \E q \in Requests : AcquireGranted(q)
    BY <1>1, GrantFacts
<1>2. CASE ~(\E q \in Requests : AcquireGranted(q))
    <2>1. ASSUME NEW i \in ReservationIds
          PROVE  reservations'[i] \in Reservation \cup {NoRow}
        BY <1>2, RowsEvolve, Zenon DEF Evolves
    <2>2. reservations' = [i \in ReservationIds |-> reservations'[i]]
        <3>1. reservations = [i \in ReservationIds |-> reservations[i]]
            BY DEF TypeOK
        <3>2. CASE Tick \/ \E c \in Configurations : configure_limits(c)
            BY <3>1, <3>2 DEF Tick, configure_limits
        <3>3. CASE recovery
            BY <3>3 DEF recovery, expire_reservations
        <3>4. CASE \E t \in Tournaments, next \in Controls : control(t, next)
            BY <3>4 DEF control
        <3>5. ASSUME NEW q \in Requests, acquire_reservation(q)
              PROVE  reservations' = [i \in ReservationIds |-> reservations'[i]]
            BY <1>2, <3>5 DEF acquire_reservation, AcquireRefused, AcquireThrottled, expire_reservations
        <3>6. ASSUME NEW q \in Requests,
                     renew_reservation(q) \/ release_reservation(q)
                        \/ \E x \in Results : commit_result(q, x)
              PROVE  reservations' = [i \in ReservationIds |-> reservations'[i]]
            BY <3>1, <3>6 DEF renew_reservation, release_reservation, commit_result, SetStatus
        <3> QED BY <3>2, <3>3, <3>4, <3>5, <3>6 DEF Next
    <2> QED BY <2>1, <2>2
<1> QED BY <1>1, <1>2

-----------------------------------------------------------------------------
(* Rates *)

\* Every rated scope has a bucket that covers its grants, and no other scope
\* has one.
BucketsCover ==
    \A s \in Scopes :
        IF Rated(s)
        THEN /\ BucketCovers(buckets[s], limits[s].rate, grants[s])
             /\ GrantsBounded(limits[s].rate, grants[s])
        ELSE buckets[s] = NoRow

\* A rated scope has a policy.
LEMMA RatedPolicy ==
    ASSUME TypeOK, NEW s \in Scopes, Rated(s)
    PROVE  limits[s].rate \in RatePolicy
BY DEF TypeOK, Rated, SchedulingLimit

\* persist_buckets after a refill, with a token taken or not.
LEMMA PersistFacts ==
    ASSUME TypeOK, BucketsCover, NEW q \in Requests, NEW now \in Sampled, NEW rows,
           LoopVerdict(rows, q, now) = "open", NEW s \in Scopes
    PROVE  /\ s \in ScopeKeys(q) /\ Rated(s) =>
                /\ BucketCovers(Refilled(s, now), limits[s].rate, grants[s])
                /\ Refilled(s, now).updated_at = now
           /\ \A taken : persist_buckets(q, now, taken)[s] =
                IF s \in ScopeKeys(q) /\ Rated(s)
                THEN [Refilled(s, now) EXCEPT !.tokens = @ - taken]
                ELSE buckets[s]
<1>1. ASSUME s \in ScopeKeys(q), Rated(s)
      PROVE  /\ BucketCovers(Refilled(s, now), limits[s].rate, grants[s])
             /\ Refilled(s, now).updated_at = now
    <2>1. Refillable(buckets[s], now)
        BY <1>1, OpenLoop
    <2>2. BucketCovers(buckets[s], limits[s].rate, grants[s])
        BY <1>1 DEF BucketsCover
    <2>3. now \in Nat
        BY SampledFacts
    <2> QED BY <1>1, <2>1, <2>2, <2>3, RatedPolicy, RefillCovers DEF Refilled
<1> QED BY <1>1, Zenon DEF persist_buckets

\* A scope whose limit, bucket and grants do not change stays covered.
LEMMA CoverUnchanged ==
    ASSUME BucketsCover, NEW s \in Scopes,
           limits'[s] = limits[s], buckets'[s] = buckets[s], grants'[s] = grants[s]
    PROVE  IF Rated(s)'
           THEN /\ BucketCovers(buckets'[s], limits'[s].rate, grants'[s])
                /\ GrantsBounded(limits'[s].rate, grants'[s])
           ELSE buckets'[s] = NoRow
<1>1. Rated(s)' <=> Rated(s)
    BY DEF Rated
<1> QED BY <1>1, Zenon DEF BucketsCover

\* configure_limits writes full buckets and starts a new account of grants.
LEMMA ConfigureCovers ==
    ASSUME TypeOK, BucketsCover, NEW c \in Configurations, configure_limits(c)
    PROVE  BucketsCover' /\ limits' \in [Scopes -> SchedulingLimit \cup {NoRow}]
<1>1. PICK now \in Sampled :
        /\ limits' = [s \in Scopes |-> IF s \in DOMAIN c THEN c[s] ELSE limits[s]]
        /\ buckets' = [s \in Scopes |->
              IF s \notin DOMAIN c THEN buckets[s]
              ELSE IF c[s].rate = NoRow THEN NoRow ELSE FullBucket(c[s].rate, now)]
        /\ grants' = [s \in Scopes |-> IF s \in DOMAIN c THEN <<>> ELSE grants[s]]
    BY Zenon DEF configure_limits
<1>2. now \in Nat
    BY SampledFacts
<1>3. \A s \in DOMAIN c : c[s] \in SchedulingLimit
    BY SchedulerAssumption, Zenon
<1>4. ASSUME NEW s \in Scopes, s \in DOMAIN c
      PROVE  IF Rated(s)'
             THEN /\ BucketCovers(buckets'[s], limits'[s].rate, grants'[s])
                  /\ GrantsBounded(limits'[s].rate, grants'[s])
             ELSE buckets'[s] = NoRow
    <2>1. limits'[s] = c[s] /\ grants'[s] = <<>>
        BY <1>1, <1>4
    <2>2. buckets'[s] = IF c[s].rate = NoRow THEN NoRow ELSE FullBucket(c[s].rate, now)
        BY <1>1, <1>4, Zenon
    <2>3. c[s] \in SchedulingLimit /\ c[s] # NoRow
        BY <1>3, <1>4, NoRowFacts
    <2>4. Rated(s)' <=> c[s].rate # NoRow
        BY <2>1, <2>3 DEF Rated
    <2>5. CASE c[s].rate # NoRow
        <3> DEFINE p == c[s].rate
                   b == FullBucket(p, now)
        <3>1. p \in RatePolicy
            BY <2>3, <2>5 DEF SchedulingLimit
        <3> HIDE DEF p
        <3>2. b \in TokenBucketState /\ b.tokens = p.capacity /\ b.remainder = 0
            BY <1>2, <3>1 DEF FullBucket, TokenBucketState, RatePolicy
        <3>3. Level(b, p) <= p.capacity * p.refill_interval_ms
            BY <3>1, <3>2 DEF Level, RatePolicy
        <3>4. BucketCovers(b, p, <<>>) /\ GrantsBounded(p, <<>>)
            BY <3>2, <3>3 DEF BucketCovers, GrantsBounded
        <3> QED BY <2>1, <2>2, <2>4, <2>5, <3>4 DEF p
    <2> QED BY <2>2, <2>4, <2>5, Zenon
<1>5. ASSUME NEW s \in Scopes, s \notin DOMAIN c
      PROVE  IF Rated(s)'
             THEN /\ BucketCovers(buckets'[s], limits'[s].rate, grants'[s])
                  /\ GrantsBounded(limits'[s].rate, grants'[s])
             ELSE buckets'[s] = NoRow
    BY <1>1, <1>5, CoverUnchanged
<1>6. limits' \in [Scopes -> SchedulingLimit \cup {NoRow}]
    BY <1>1, <1>3 DEF TypeOK
<1> QED BY <1>4, <1>5, <1>6, Zenon DEF BucketsCover

\* No step lets a scope exceed its rate.
LEMMA BucketsStep ==
    ASSUME TypeOK, BucketsCover, Next
    PROVE  BucketsCover'
<1>1. ASSUME UNCHANGED <<limits, buckets, grants>>
      PROVE  BucketsCover'
    BY <1>1, CoverUnchanged, Zenon DEF BucketsCover
<1>2. ASSUME NEW q \in Requests, AcquireThrottled(q)
      PROVE  BucketsCover'
    <2>1. PICK now \in Sampled :
            /\ LoopVerdict(expire_reservations(now), q, now) = "open"
            /\ buckets' = persist_buckets(q, now, 0)
            /\ UNCHANGED <<limits, grants>>
        BY <1>2 DEF AcquireThrottled, Admissible
    <2> SUFFICES ASSUME NEW s \in Scopes
                 PROVE  IF Rated(s)'
                        THEN /\ BucketCovers(buckets'[s], limits'[s].rate, grants'[s])
                             /\ GrantsBounded(limits'[s].rate, grants'[s])
                        ELSE buckets'[s] = NoRow
        BY Zenon DEF BucketsCover
    <2>2. CASE s \in ScopeKeys(q) /\ Rated(s)
        <3> DEFINE r == Refilled(s, now)
        <3>1. /\ BucketCovers(r, limits[s].rate, grants[s])
              /\ buckets'[s] = [r EXCEPT !.tokens = @ - 0]
            BY <2>1, <2>2, PersistFacts
        <3>2. buckets'[s] = r
            <4> HIDE DEF r
            <4>1. r \in TokenBucketState
                BY <3>1 DEF BucketCovers
            <4> QED BY <3>1, <4>1 DEF TokenBucketState
        <3>3. GrantsBounded(limits[s].rate, grants[s])
            BY <2>2 DEF BucketsCover
        <3>4. Rated(s)'
            BY <2>1, <2>2 DEF Rated
        <3> QED BY <2>1, <3>1, <3>2, <3>3, <3>4, Zenon
    <2>3. CASE ~(s \in ScopeKeys(q) /\ Rated(s))
        <3>1. buckets'[s] = buckets[s]
            BY ZenonT(40), <2>1, <2>3, PersistFacts
        <3> QED BY <2>1, <3>1, CoverUnchanged
    <2> QED BY <2>2, <2>3
<1>3. ASSUME NEW q \in Requests, AcquireGranted(q)
      PROVE  BucketsCover'
    <2>1. PICK now \in Sampled, rows \in [ReservationIds -> Reservation \cup {NoRow}] :
            /\ Admissible(q, rows, now)
            /\ ~OutOfTokens(q, now)
            /\ buckets' = persist_buckets(q, now, 1)
            /\ grants' = Granted(q, now)
            /\ UNCHANGED limits
        BY <1>3, GrantFacts
    <2>2. LoopVerdict(rows, q, now) = "open"
        BY <2>1 DEF Admissible
    <2> SUFFICES ASSUME NEW s \in Scopes
                 PROVE  IF Rated(s)'
                        THEN /\ BucketCovers(buckets'[s], limits'[s].rate, grants'[s])
                             /\ GrantsBounded(limits'[s].rate, grants'[s])
                        ELSE buckets'[s] = NoRow
        BY Zenon DEF BucketsCover
    <2>3. CASE s \in ScopeKeys(q) /\ Rated(s)
        <3> DEFINE r == Refilled(s, now)
                   p == limits[s].rate
        <3>1. /\ BucketCovers(r, p, grants[s])
              /\ r.updated_at = now
              /\ buckets'[s] = [r EXCEPT !.tokens = @ - 1]
            BY <2>1, <2>2, <2>3, PersistFacts
        <3>2. r.tokens # 0
            BY <2>1, <2>3 DEF OutOfTokens
        <3>3. GrantsBounded(p, grants[s])
            BY <2>3 DEF BucketsCover
        <3>4. grants'[s] = Append(grants[s], now)
            BY <2>1, <2>3, Zenon DEF Granted
        <3>5. p \in RatePolicy
            BY <2>3, RatedPolicy
        <3>6. Rated(s)' /\ limits'[s] = limits[s]
            BY <2>1, <2>3 DEF Rated
        <3>7. now \in Nat
            BY SampledFacts
        <3> HIDE DEF r, p
        <3>8. buckets'[s] = [tokens |-> r.tokens - 1, remainder |-> r.remainder,
                             updated_at |-> r.updated_at]
            <4>1. r \in TokenBucketState
                BY <3>1 DEF BucketCovers
            <4> QED BY <3>1, <4>1 DEF TokenBucketState
        <3>9. BucketCovers(buckets'[s], p, grants'[s]) /\ GrantsBounded(p, grants'[s])
            <4>1. BucketCovers(r, p, grants[s]) /\ r.updated_at = now
                BY <3>1, Zenon
            <4> QED BY <4>1, <3>2, <3>3, <3>4, <3>5, <3>7, <3>8, GrantCovers, Zenon
        <3> QED BY <3>6, <3>9, Zenon DEF p
    <2>4. CASE ~(s \in ScopeKeys(q) /\ Rated(s))
        <3>1. buckets'[s] = buckets[s]
            BY ZenonT(40), <2>1, <2>2, <2>4, PersistFacts
        <3>2. grants'[s] = grants[s]
            BY <2>1, <2>4, Zenon DEF Granted
        <3> QED BY <2>1, <3>1, <3>2, CoverUnchanged
    <2> QED BY <2>3, <2>4
<1>4. CASE Tick \/ recovery \/ \E t \in Tournaments, next \in Controls : control(t, next)
    BY <1>1, <1>4 DEF Tick, recovery, control
<1>5. ASSUME NEW q \in Requests,
             \/ AcquireRefused(q) \/ renew_reservation(q) \/ release_reservation(q)
             \/ \E x \in Results : commit_result(q, x)
      PROVE  BucketsCover'
    BY <1>1, <1>5 DEF AcquireRefused, renew_reservation, release_reservation, commit_result
<1>6. ASSUME NEW c \in Configurations, configure_limits(c)
      PROVE  BucketsCover'
    BY <1>6, ConfigureCovers
<1> QED BY <1>2, <1>3, <1>4, <1>5, <1>6 DEF Next, acquire_reservation

-----------------------------------------------------------------------------
(* Types *)

\* Every step keeps the tables well formed: the buckets because they cover
\* their grants, the reservations because their rows evolve.
LEMMA TypeStep ==
    ASSUME TypeOK, BucketsCover, Next
    PROVE  TypeOK'
<1>1. reservations' \in [ReservationIds -> Reservation \cup {NoRow}]
    BY ReservationsType
<1>2. clock' \in 0..Horizon
    <2>1. clock \in 0..Horizon /\ Horizon \in Nat
        BY SchedulerAssumption, Zenon DEF TypeOK
    <2>2. clock' = clock \/ (clock < Horizon /\ clock' = clock + 1)
        BY ZenonT(40) DEF Next, Tick, recovery, configure_limits, control, acquire_reservation,
           AcquireRefused, AcquireThrottled, AcquireGranted, renew_reservation,
           release_reservation, commit_result
    <2> QED BY <2>1, <2>2
<1>3. /\ limits' \in [Scopes -> SchedulingLimit \cup {NoRow}]
      /\ \A s \in Scopes : buckets'[s] \in TokenBucketState \cup {NoRow}
    <2>1. limits' \in [Scopes -> SchedulingLimit \cup {NoRow}]
        <3>1. CASE UNCHANGED limits
            BY <3>1, Zenon DEF TypeOK
        <3>2. ASSUME NEW c \in Configurations, configure_limits(c)
              PROVE  limits' \in [Scopes -> SchedulingLimit \cup {NoRow}]
            BY <3>2, ConfigureCovers
        <3> QED BY <3>1, <3>2, ZenonT(40) DEF Next, Tick, recovery, control, acquire_reservation,
              AcquireRefused, AcquireThrottled, AcquireGranted, renew_reservation,
              release_reservation, commit_result
    <2>2. BucketsCover'
        BY BucketsStep
    <2> QED BY <2>1, <2>2, Zenon DEF BucketsCover, BucketCovers
<1>4. /\ buckets' = [s \in Scopes |-> buckets'[s]]
      /\ grants' \in [Scopes -> Seq(Nat)]
    <2>0. /\ buckets = [s \in Scopes |-> buckets[s]]
          /\ grants \in [Scopes -> Seq(Nat)]
        BY DEF TypeOK
    <2>1. CASE UNCHANGED <<buckets, grants>>
        BY <2>0, <2>1
    <2>2. ASSUME NEW c \in Configurations, configure_limits(c)
          PROVE  /\ buckets' = [s \in Scopes |-> buckets'[s]]
                 /\ grants' \in [Scopes -> Seq(Nat)]
        <3>1. grants' = [s \in Scopes |-> IF s \in DOMAIN c THEN <<>> ELSE grants[s]]
            BY <2>2, Zenon DEF configure_limits
        <3>2. buckets' = [s \in Scopes |-> buckets'[s]]
            BY <2>2 DEF configure_limits
        <3> QED BY <2>0, <3>1, <3>2
    <2>3. ASSUME NEW q \in Requests, AcquireThrottled(q)
          PROVE  /\ buckets' = [s \in Scopes |-> buckets'[s]]
                 /\ grants' \in [Scopes -> Seq(Nat)]
        BY <2>0, <2>3 DEF AcquireThrottled, persist_buckets
    <2>4. ASSUME NEW q \in Requests, AcquireGranted(q)
          PROVE  /\ buckets' = [s \in Scopes |-> buckets'[s]]
                 /\ grants' \in [Scopes -> Seq(Nat)]
        <3>1. PICK now \in Sampled : buckets' = persist_buckets(q, now, 1) /\ grants' = Granted(q, now)
            BY <2>4, GrantFacts, Zenon
        <3>2. now \in Nat
            BY SampledFacts
        <3>3. buckets' = [s \in Scopes |-> buckets'[s]]
            BY <3>1 DEF persist_buckets
        <3>4. ASSUME NEW s \in Scopes
              PROVE  grants'[s] = Append(grants[s], now) \/ grants'[s] = grants[s]
            BY <3>1, Zenon DEF Granted
        <3>5. grants' = [s \in Scopes |-> grants'[s]]
            BY <3>1 DEF Granted
        <3>6. ASSUME NEW s \in Scopes
              PROVE  grants'[s] \in Seq(Nat)
            <4>1. grants[s] \in Seq(Nat)
                BY <2>0
            <4>2. Append(grants[s], now) \in Seq(Nat)
                BY <3>2, <4>1
            <4> QED BY <3>4, <4>1, <4>2, Zenon
        <3> QED BY <3>3, <3>5, <3>6
    <2> QED BY <2>1, <2>2, <2>3, <2>4, Zenon DEF Next, Tick, recovery, control,
          acquire_reservation, AcquireRefused, renew_reservation, release_reservation,
          commit_result
<1>5. controls' \in [Tournaments -> ControlRow \cup {NoRow}]
    <2>0. controls \in [Tournaments -> ControlRow \cup {NoRow}]
        BY DEF TypeOK
    <2>1. CASE UNCHANGED controls
        BY <2>0, <2>1
    <2>2. ASSUME NEW t \in Tournaments, NEW next \in Controls, control(t, next)
          PROVE  controls' \in [Tournaments -> ControlRow \cup {NoRow}]
        <3>1. PICK now \in Sampled :
                controls' = [controls EXCEPT ![t] = [control |-> next, updated |-> now]]
            BY <2>2, Zenon DEF control
        <3>2. [control |-> next, updated |-> now] \in ControlRow
            BY SampledFacts DEF ControlRow
        <3> QED BY <2>0, <3>1, <3>2
    <2> QED BY <2>1, <2>2, ZenonT(40) DEF Next, Tick, recovery, configure_limits, acquire_reservation,
          AcquireRefused, AcquireThrottled, AcquireGranted, renew_reservation,
          release_reservation, commit_result
<1>6. terminal' \in [Matches -> TerminalRow \cup {NoRow}]
    <2>0. terminal \in [Matches -> TerminalRow \cup {NoRow}]
        BY DEF TypeOK
    <2>1. CASE UNCHANGED terminal
        BY <2>0, <2>1
    <2>2. ASSUME NEW q \in Requests, NEW x \in Results, commit_result(q, x)
          PROVE  terminal' \in [Matches -> TerminalRow \cup {NoRow}]
        <3>1. /\ x.match = q.match
              /\ terminal' = [terminal EXCEPT ![x.match] = [result |-> x, reservation |-> q.id]]
            BY <2>2, Zenon DEF commit_result
        <3>2. [result |-> x, reservation |-> q.id] \in TerminalRow
            BY RequestFacts DEF TerminalRow
        <3> QED BY <2>0, <3>1, <3>2, RequestFacts
    <2> QED BY <2>1, <2>2, Zenon DEF Next, Tick, recovery, configure_limits, control,
          acquire_reservation, AcquireRefused, AcquireThrottled, AcquireGranted,
          renew_reservation, release_reservation
<1> QED
    <2>1. buckets' \in [Scopes -> TokenBucketState \cup {NoRow}]
        BY <1>3, <1>4
    <2> QED BY <1>1, <1>2, <1>3, <1>4, <1>5, <1>6, <2>1, Zenon DEF TypeOK

-----------------------------------------------------------------------------
(* Ceilings *)

\* The live reservations of a scope.
Live(s) == {i \in ReservationIds :
               LiveRow(reservations[i]) /\ s \in ScopeKeys(reservations[i].request)}

\* A live row was live before, unless the step granted it.
LEMMA LiveShrinks ==
    ASSUME NEW old, NEW new, Evolves(old, new)
    PROVE  LiveRow(new) => LiveRow(old) /\ new.request = old.request
BY DEF Evolves, LiveRow

\* No step lets a scope exceed its ceiling.
LEMMA ConcurrencyStep ==
    ASSUME TypeOK, ConcurrencyBounded, Next
    PROVE  ConcurrencyBounded'
<1>1. \A s \in Scopes : Live(s) \subseteq ReservationIds /\ IsFiniteSet(Live(s))
    BY FiniteReservations, FS_Subset DEF Live
<1>2. \A s \in Scopes : /\ limits[s] = NoRow => Live(s) = {}
                        /\ limits[s] # NoRow => Cardinality(Live(s)) <= limits[s].max_concurrency
    BY Zenon DEF ConcurrencyBounded, Live
<1> SUFFICES ASSUME NEW s \in Scopes
             PROVE  /\ limits'[s] = NoRow => Live(s)' = {}
                    /\ limits'[s] # NoRow => Cardinality(Live(s)') <= limits'[s].max_concurrency
    BY Zenon DEF ConcurrencyBounded, Live
<1>3. Cardinality(Live(s)) \in Nat
    BY <1>1, FS_CardinalityType
<1>4. limits[s] # NoRow => limits[s].max_concurrency \in Nat
    BY DEF TypeOK, SchedulingLimit
<1>5. CASE \E q \in Requests : AcquireGranted(q)
    <2>1. PICK q \in Requests : AcquireGranted(q)
        BY <1>5
    <2>2. PICK now \in Sampled, rows \in [ReservationIds -> Reservation \cup {NoRow}] :
            /\ \A i \in ReservationIds : Evolves(reservations[i], rows[i])
            /\ Admissible(q, rows, now)
            /\ reservations'[q.id] = NewReservation(q, now)
            /\ \A i \in ReservationIds \ {q.id} : reservations'[i] = rows[i]
            /\ UNCHANGED limits
        BY <2>1, GrantFacts, Zenon
    <2> DEFINE kept == {i \in ReservationIds :
                          LiveRow(rows[i]) /\ s \in ScopeKeys(rows[i].request)}
    <2>3. kept \subseteq Live(s)
        BY <2>2, LiveShrinks DEF Live
    <2>4. IsFiniteSet(kept) /\ Cardinality(kept) <= Cardinality(Live(s)) /\ Cardinality(kept) \in Nat
        BY <1>1, <2>3, FS_Subset, FS_CardinalityType
    <2>5. CASE s \in ScopeKeys(q)
        <3>1. /\ limits[s] # NoRow
              /\ ~(active_count(rows, s) >= limits[s].max_concurrency)
            BY <2>2, <2>5, OpenLoop DEF Admissible
        <3>2. active_count(rows, s) = Cardinality(kept)
            BY Zenon DEF active_count
        <3>3. Live(s)' \subseteq kept \cup {q.id}
            BY <2>2 DEF Live
        <3> HIDE DEF kept
        <3>4. /\ IsFiniteSet(kept \cup {q.id})
              /\ Cardinality(kept \cup {q.id}) <= Cardinality(kept) + 1
              /\ Cardinality(kept \cup {q.id}) \in Nat
            <4>1. /\ IsFiniteSet(kept \cup {q.id})
                  /\ Cardinality(kept \cup {q.id})
                        = IF q.id \in kept THEN Cardinality(kept) ELSE Cardinality(kept) + 1
                BY <2>4, FS_AddElement, Zenon
            <4>2. Cardinality(kept \cup {q.id}) \in Nat
                BY <4>1, FS_CardinalityType, Zenon
            <4> QED BY <2>4, <4>1, <4>2
        <3>5. Cardinality(Live(s)') <= Cardinality(kept \cup {q.id}) /\ Cardinality(Live(s)') \in Nat
            BY <3>3, <3>4, FS_Subset, FS_CardinalityType
        <3>6. Cardinality(kept) + 1 <= limits[s].max_concurrency
            BY <1>4, <2>4, <3>1, <3>2
        <3> QED BY <1>4, <2>2, <2>4, <3>1, <3>4, <3>5, <3>6
    <2>6. CASE s \notin ScopeKeys(q)
        <3>1. NewReservation(q, now).request = q
            BY DEF NewReservation
        <3>2. Live(s)' \subseteq kept
            BY <2>2, <2>6, <3>1 DEF Live
        <3>3. Live(s)' \subseteq Live(s)
            BY <2>3, <3>2, Zenon
        <3>4. Cardinality(Live(s)') <= Cardinality(Live(s)) /\ Cardinality(Live(s)') \in Nat
            BY <1>1, <3>3, FS_Subset, FS_CardinalityType
        <3> QED BY <1>2, <1>3, <1>4, <2>2, <3>3, <3>4
    <2> QED BY <2>5, <2>6
<1>6. CASE ~(\E q \in Requests : AcquireGranted(q))
    <2>1. Live(s)' \subseteq Live(s)
        BY <1>6, RowsEvolve, LiveShrinks DEF Live
    <2>2. Cardinality(Live(s)') <= Cardinality(Live(s)) /\ Cardinality(Live(s)') \in Nat
        BY <1>1, <2>1, FS_Subset, FS_CardinalityType
    <2>3. CASE limits'[s] = limits[s]
        BY <1>2, <1>3, <1>4, <2>1, <2>2, <2>3
    <2>4. ASSUME NEW c \in Configurations, configure_limits(c), s \in DOMAIN c
          PROVE  /\ limits'[s] # NoRow /\ limits'[s].max_concurrency \in Nat
                 /\ Cardinality(Live(s)) = 0
        <3>1. limits'[s] = c[s]
            BY <2>4 DEF configure_limits
        <3>2. c[s] \in SchedulingLimit
            BY <2>4, SchedulerAssumption, Zenon
        <3>3. active_count(reservations, s) = 0
            BY <2>4, Zenon DEF configure_limits
        <3> QED BY <3>1, <3>2, <3>3, NoRowFacts DEF active_count, Live, SchedulingLimit
    <2>5. ASSUME NEW c \in Configurations, configure_limits(c), s \notin DOMAIN c
          PROVE  limits'[s] = limits[s]
        BY <2>5 DEF configure_limits
    <2>6. UNCHANGED limits \/ \E c \in Configurations : configure_limits(c)
        BY ZenonT(40) DEF Next, Tick, recovery, control, acquire_reservation, AcquireRefused,
           AcquireThrottled, AcquireGranted, renew_reservation, release_reservation, commit_result
    <2> QED BY <2>2, <2>3, <2>4, <2>5, <2>6
<1> QED BY <1>5, <1>6

-----------------------------------------------------------------------------
(* Matches and cancellation *)

\* Where a row comes from: a grant makes it, a publication completes it, a
\* renewal extends it, and every other step lets it fade.
LEMMA RowSource ==
    ASSUME TypeOK, Next, NEW i \in ReservationIds, reservations'[i] # NoRow
    PROVE  \/ \E q \in Requests : AcquireGranted(q) /\ i = q.id
           \/ \E q \in Requests, x \in Results : commit_result(q, x) /\ i = q.id
           \/ /\ \E q \in Requests : renew_reservation(q) /\ i = q.id
              /\ reservations'[i].status = reservations[i].status
           \/ reservations[i] # NoRow /\ Fades(reservations[i], reservations'[i])
<1> DEFINE old == reservations[i]
           new == reservations'[i]
           faded == old # NoRow /\ Fades(old, new)
<1>0. old \in Reservation \cup {NoRow}
    BY DEF TypeOK
<1>1. ASSUME new = old
      PROVE  faded
    BY <1>0, <1>1 DEF Fades
<1>2. ASSUME NEW now, reservations' = expire_reservations(now)
      PROVE  faded
    BY <1>2, ExpireFacts DEF Evolves
<1>3. CASE Tick \/ \E c \in Configurations : configure_limits(c)
    BY <1>1, <1>3 DEF Tick, configure_limits
<1>4. CASE recovery
    BY <1>2, <1>4 DEF recovery
<1>5. ASSUME NEW t \in Tournaments, NEW next \in Controls, control(t, next)
      PROVE  faded
    <2>1. \/ new = old
          \/ old # NoRow /\ new = [old EXCEPT !.status = "cancel_requested"]
        BY <1>5 DEF control, Present
    <2> QED BY <1>0, <1>1, <2>1 DEF Fades, Reservation
<1>6. ASSUME NEW q \in Requests, AcquireRefused(q) \/ AcquireThrottled(q)
      PROVE  faded
    <2>1. PICK now \in Sampled : reservations' = expire_reservations(now)
        BY <1>6, Zenon DEF AcquireRefused, AcquireThrottled
    <2> QED BY <1>2, <2>1
<1>7. ASSUME NEW q \in Requests, AcquireGranted(q), i # q.id
      PROVE  faded
    <2>1. PICK rows \in [ReservationIds -> Reservation \cup {NoRow}] :
            /\ Evolves(old, rows[i]) /\ Fades(old, rows[i])
            /\ new = rows[i]
        BY <1>7, GrantFacts, Zenon
    <2> QED BY <2>1 DEF Evolves
<1>8. ASSUME NEW q \in Requests, renew_reservation(q)
      PROVE  faded \/ (i = q.id /\ new.status = old.status)
    <2>1. PICK now \in Sampled, duration \in Durations :
            /\ Present(q.id)
            /\ reservations' = [reservations EXCEPT ![q.id] =
                                   [@ EXCEPT !.expires = now + duration]]
        BY <1>8 DEF renew_reservation, Held
    <2>2. CASE i = q.id
        <3>1. new = [old EXCEPT !.expires = now + duration]
            BY <2>1, <2>2 DEF TypeOK
        <3>2. old \in Reservation
            BY <1>0, <2>1, <2>2 DEF Present
        <3> QED BY <2>2, <3>1, <3>2 DEF Reservation
    <2>3. CASE i # q.id
        BY <1>1, <2>1, <2>3 DEF TypeOK
    <2> QED BY <2>2, <2>3
<1>9. ASSUME NEW q \in Requests, release_reservation(q)
      PROVE  faded
    <2>1. Present(q.id) /\ reservations' = SetStatus(q.id, "released")
        BY <1>9 DEF release_reservation, Held
    <2>2. CASE i = q.id
        <3>1. new = [old EXCEPT !.status = "released"]
            BY <2>1, <2>2 DEF TypeOK, SetStatus
        <3>2. old \in Reservation
            BY <1>0, <2>1, <2>2 DEF Present
        <3> QED BY <3>1, <3>2, NoRowFacts DEF Fades, Reservation
    <2>3. CASE i # q.id
        BY <1>1, <2>1, <2>3 DEF TypeOK, SetStatus
    <2> QED BY <2>2, <2>3
<1>10. ASSUME NEW q \in Requests, NEW x \in Results, commit_result(q, x), i # q.id
       PROVE  faded
    <2>1. reservations' = SetStatus(q.id, "completed")
        BY <1>10 DEF commit_result
    <2> QED BY <1>1, <1>10, <2>1 DEF TypeOK, SetStatus
<1> QED BY <1>3, <1>4, <1>5, <1>6, <1>7, <1>8, <1>9, <1>10, Zenon DEF Next, acquire_reservation

\* What a publication does.
LEMMA CommitFacts ==
    ASSUME TypeOK, NEW q \in Requests, NEW x \in Results, commit_result(q, x)
    PROVE  /\ reservations[q.id] \in Reservation /\ reservations[q.id].status = "active"
           /\ reservations[q.id].request.match = q.match
           /\ reservations[q.id].request.inputs = x.inputs
           /\ terminal[q.match] = NoRow /\ x.match = q.match
           /\ reservations'[q.id].status = "completed"
           /\ terminal'[q.match] = [result |-> x, reservation |-> q.id]
           /\ [result |-> x, reservation |-> q.id] \in TerminalRow
           /\ \A m \in Matches \ {q.match} : terminal'[m] = terminal[m]
           /\ UNCHANGED controls
<1>1. /\ Present(q.id) /\ reservations[q.id].status = "active"
      /\ reservations[q.id].request.match = x.match
      /\ reservations[q.id].request.inputs = q.inputs
      /\ terminal[x.match] = NoRow /\ x.match = q.match /\ x.inputs = q.inputs
      /\ reservations' = SetStatus(q.id, "completed")
      /\ terminal' = [terminal EXCEPT ![x.match] = [result |-> x, reservation |-> q.id]]
      /\ UNCHANGED controls
    BY Zenon DEF commit_result, Held
<1>2. q.id \in ReservationIds /\ q.match \in Matches
    BY RequestFacts
<1>3. reservations[q.id] \in Reservation
    BY <1>1, <1>2 DEF TypeOK, Present
<1>4. reservations'[q.id] = [reservations[q.id] EXCEPT !.status = "completed"]
    BY <1>1, <1>2 DEF SetStatus, TypeOK
<1>5. reservations'[q.id].status = "completed"
    BY <1>3, <1>4 DEF Reservation
<1>6. terminal \in [Matches -> TerminalRow \cup {NoRow}]
    BY DEF TypeOK
<1>7. /\ terminal'[q.match] = [result |-> x, reservation |-> q.id]
      /\ \A m \in Matches \ {q.match} : terminal'[m] = terminal[m]
    BY <1>1, <1>2, <1>6
<1>8. [result |-> x, reservation |-> q.id] \in TerminalRow
    BY <1>2 DEF TerminalRow
<1> QED BY <1>1, <1>3, <1>5, <1>7, <1>8

\* Only a publication changes terminal_match_results.
LEMMA TerminalSteps ==
    ASSUME Next
    PROVE  \/ UNCHANGED terminal
           \/ \E q \in Requests, x \in Results : commit_result(q, x)
BY Zenon DEF Next, Tick, recovery, configure_limits, control, acquire_reservation,
   AcquireRefused, AcquireThrottled, AcquireGranted, renew_reservation, release_reservation

\* MatchIsConsistent, row by row.
RowsAgree ==
    \A i, k \in ReservationIds :
        (Present(i) /\ Present(k) /\ reservations[i].request.match = reservations[k].request.match) =>
            /\ reservations[i].request.inputs = reservations[k].request.inputs
            /\ LiveRow(reservations[i]) /\ LiveRow(reservations[k]) => i = k

CompletedIsPublished ==
    \A i \in ReservationIds :
        Present(i) /\ reservations[i].status = "completed" =>
            LET m == reservations[i].request.match
            IN terminal[m] # NoRow /\ terminal[m].reservation = i

PublishedIsCompleted ==
    \A m \in Matches : terminal[m] # NoRow =>
        LET k == terminal[m].reservation
        IN /\ Present(k) /\ reservations[k].status = "completed"
           /\ reservations[k].request.match = m
           /\ terminal[m].result.match = m
           /\ terminal[m].result.inputs = reservations[k].request.inputs
           /\ \A i \in ReservationIds :
                 LiveRow(reservations[i]) => reservations[i].request.match # m

MatchRows == RowsAgree /\ CompletedIsPublished /\ PublishedIsCompleted

\* The rows of a match are consistent just when MatchIsConsistent says so.
LEMMA MatchRowsImply ==
    ASSUME TypeOK, MatchRows
    PROVE  MatchIsConsistent
<1> SUFFICES ASSUME NEW m \in Matches
             PROVE
        LET rows == {i \in ReservationIds : /\ Present(i)
                                            /\ reservations[i].request.match = m}
            live == {i \in rows : reservations[i].status \in LiveStatus}
            completed == {i \in rows : reservations[i].status = "completed"}
        IN /\ \A i, k \in rows :
                  reservations[i].request.inputs = reservations[k].request.inputs
           /\ \A i, k \in live : i = k
           /\ terminal[m] = NoRow => completed = {}
           /\ terminal[m] # NoRow =>
                 /\ live = {}
                 /\ completed = {terminal[m].reservation}
                 /\ terminal[m].result.match = m
                 /\ terminal[m].result.inputs
                       = reservations[terminal[m].reservation].request.inputs
    BY Zenon DEF MatchIsConsistent
<1> DEFINE rows == {i \in ReservationIds : /\ Present(i)
                                           /\ reservations[i].request.match = m}
           live == {i \in rows : reservations[i].status \in LiveStatus}
           completed == {i \in rows : reservations[i].status = "completed"}
<1>1. \A i, k \in rows : reservations[i].request.inputs = reservations[k].request.inputs
    BY DEF MatchRows, RowsAgree
<1>2. \A i, k \in live : i = k
    BY DEF MatchRows, RowsAgree, LiveRow, Present
<1>3. terminal[m] = NoRow => completed = {}
    BY DEF MatchRows, CompletedIsPublished
<1>4. ASSUME terminal[m] # NoRow
      PROVE  /\ live = {}
             /\ completed = {terminal[m].reservation}
             /\ terminal[m].result.match = m
             /\ terminal[m].result.inputs = reservations[terminal[m].reservation].request.inputs
    <2>1. terminal[m].reservation \in ReservationIds
        BY <1>4 DEF TypeOK, TerminalRow
    <2>2. live = {}
        BY <1>4 DEF MatchRows, PublishedIsCompleted, LiveRow, Present
    <2>3. completed = {terminal[m].reservation}
        BY <1>4, <2>1 DEF MatchRows, PublishedIsCompleted, CompletedIsPublished
    <2> QED BY <1>4, <2>2, <2>3, Zenon DEF MatchRows, PublishedIsCompleted
<1> QED BY <1>1, <1>2, <1>3, <1>4, Zenon

\* An acquisition repeats the inputs of the rows of its match.
LEMMA PriorInputsFacts ==
    ASSUME TypeOK, RowsAgree, NEW q \in Requests, RepeatsInputs(q),
           NEW i \in ReservationIds, Present(i), reservations[i].request.match = q.match
    PROVE  reservations[i].request.inputs = q.inputs
<1> DEFINE rows == {k \in ReservationIds : /\ Present(k)
                                           /\ reservations[k].request.match = q.match}
           first == {k \in rows : \A l \in rows :
                        reservations[k].acquired <= reservations[l].acquired}
           times == {reservations[k].acquired : k \in rows}
<1>1. \A k \in rows : reservations[k].acquired \in Nat
    BY DEF TypeOK, Present, Reservation
<1>2. times \subseteq Nat /\ times # {}
    BY <1>1
<1>3. PICK n \in times : \A l \in times : n <= l
    BY <1>2, EarliestExists
<1>4. PICK k \in rows : reservations[k].acquired = n
    OBVIOUS
<1>5. k \in first
    BY <1>3, <1>4
<1>6. PriorInputs(q) = {reservations[l].request.inputs : l \in first}
    BY Zenon DEF PriorInputs
<1>7. q.inputs \in PriorInputs(q)
    <2>1. PriorInputs(q) # {}
        <3> HIDE DEF first
        <3> QED BY <1>5, <1>6
    <2> QED BY <2>1 DEF RepeatsInputs
<1>8. PICK l \in first : reservations[l].request.inputs = q.inputs
    <2> HIDE DEF first
    <2> QED BY <1>6, <1>7
<1>9. l \in ReservationIds /\ Present(l) /\ reservations[l].request.match = q.match
    OBVIOUS
<1> QED BY <1>8, <1>9, Zenon DEF RowsAgree

\* A grant keeps the rows of every match consistent.
LEMMA GrantKeepsMatches ==
    ASSUME TypeOK, MatchRows, NEW q \in Requests, AcquireGranted(q)
    PROVE  MatchRows'
<1>1. PICK now \in Sampled, rows \in [ReservationIds -> Reservation \cup {NoRow}] :
        /\ \A i \in ReservationIds : Evolves(reservations[i], rows[i]) /\ Fades(reservations[i], rows[i])
        /\ Admissible(q, rows, now)
        /\ reservations[q.id] = NoRow
        /\ ~LiveMatch(rows, q.match)
        /\ reservations'[q.id] = NewReservation(q, now)
        /\ NewReservation(q, now) \in Reservation
        /\ \A i \in ReservationIds \ {q.id} : reservations'[i] = rows[i]
        /\ UNCHANGED terminal
    BY GrantFacts, Zenon
<1>2. q.id \in ReservationIds /\ q.match \in Matches
    BY RequestFacts
<1> DEFINE new == NewReservation(q, now)
<1>3. new.request = q /\ new.status = "active" /\ new # NoRow /\ new \in Reservation
    BY <1>1, NoRowFacts DEF NewReservation
<1>4. terminal[q.match] = NoRow /\ RepeatsInputs(q)
    BY <1>1 DEF Admissible
<1>5. ASSUME NEW i \in ReservationIds, i # q.id, reservations'[i] # NoRow
      PROVE  /\ Present(i) /\ reservations'[i].request = reservations[i].request
             /\ LiveRow(reservations'[i]) => LiveRow(reservations[i])
             /\ LiveRow(reservations'[i]) => reservations'[i].request.match # q.match
             /\ reservations'[i].status = "completed" => reservations[i].status = "completed"
    <2>1. reservations'[i] = rows[i]
        BY <1>1, <1>5
    <2>2. Evolves(reservations[i], rows[i]) /\ Fades(reservations[i], rows[i])
        BY <1>1
    <2>3. LiveRow(rows[i]) => rows[i].request.match # q.match
        BY <1>1 DEF LiveMatch
    <2> QED BY <1>5, <2>1, <2>2, <2>3, LiveShrinks DEF Evolves, Fades, Present
<1> HIDE DEF new
<1>6. reservations'[q.id] = new
    BY <1>1 DEF new
<1>7. RowsAgree'
    <2> SUFFICES ASSUME NEW i \in ReservationIds, NEW k \in ReservationIds,
                        reservations'[i] # NoRow, reservations'[k] # NoRow,
                        reservations'[i].request.match = reservations'[k].request.match
                 PROVE  /\ reservations'[i].request.inputs = reservations'[k].request.inputs
                        /\ LiveRow(reservations'[i]) /\ LiveRow(reservations'[k]) => i = k
        BY Zenon DEF RowsAgree, Present
    <2>1. CASE i # q.id /\ k # q.id
        <3>1. /\ Present(i) /\ Present(k)
              /\ reservations[i].request.match = reservations[k].request.match
            BY <1>5, <2>1
        <3> QED BY <1>5, <2>1, <3>1 DEF MatchRows, RowsAgree
    <2>2. ASSUME NEW j \in ReservationIds, j # q.id, reservations'[j] # NoRow,
                 reservations'[j].request.match = q.match
          PROVE  reservations'[j].request.inputs = q.inputs /\ ~LiveRow(reservations'[j])
        <3>1. Present(j) /\ reservations[j].request.match = q.match
            BY <1>5, <2>2
        <3>2. reservations[j].request.inputs = q.inputs
            BY <1>4, <3>1, PriorInputsFacts DEF MatchRows
        <3> QED BY <1>5, <2>2, <3>2
    <2> QED BY <1>3, <1>6, <2>1, <2>2
<1>8. CompletedIsPublished'
    <2> SUFFICES ASSUME NEW i \in ReservationIds,
                        reservations'[i] # NoRow, reservations'[i].status = "completed"
                 PROVE  LET m == reservations'[i].request.match
                        IN terminal'[m] # NoRow /\ terminal'[m].reservation = i
        BY Zenon DEF CompletedIsPublished, Present
    <2>1. i # q.id
        BY <1>3, <1>6
    <2>2. /\ Present(i) /\ reservations[i].status = "completed"
          /\ reservations'[i].request = reservations[i].request
        BY <1>5, <2>1
    <2>3. LET m == reservations[i].request.match
          IN terminal[m] # NoRow /\ terminal[m].reservation = i
        BY <2>2, Zenon DEF MatchRows, CompletedIsPublished
    <2> QED BY <1>1, <2>2, <2>3, Zenon
<1>9. PublishedIsCompleted'
    <2> SUFFICES ASSUME NEW m \in Matches, terminal'[m] # NoRow
                 PROVE  LET k == terminal'[m].reservation
                        IN /\ reservations'[k] # NoRow /\ reservations'[k].status = "completed"
                           /\ reservations'[k].request.match = m
                           /\ terminal'[m].result.match = m
                           /\ terminal'[m].result.inputs = reservations'[k].request.inputs
                           /\ \A i \in ReservationIds :
                                 LiveRow(reservations'[i]) => reservations'[i].request.match # m
        BY Zenon DEF PublishedIsCompleted, Present
    <2>1. terminal[m] # NoRow /\ terminal'[m] = terminal[m] /\ m # q.match
        BY <1>1, <1>4
    <2> DEFINE k == terminal[m].reservation
    <2>2. k \in ReservationIds
        BY <2>1 DEF TypeOK, TerminalRow
    <2>3. /\ Present(k) /\ reservations[k].status = "completed"
          /\ reservations[k].request.match = m
          /\ terminal[m].result.match = m
          /\ terminal[m].result.inputs = reservations[k].request.inputs
          /\ \A i \in ReservationIds : LiveRow(reservations[i]) => reservations[i].request.match # m
        BY <2>1, Zenon DEF MatchRows, PublishedIsCompleted
    <2> HIDE DEF k
    <2>4. k # q.id
        BY <1>1, <2>3 DEF Present
    <2>5. reservations'[k] = reservations[k]
        BY <1>1, <2>2, <2>3, <2>4 DEF Evolves, LiveRow, LiveStatus, Present
    <2>6. ASSUME NEW i \in ReservationIds, LiveRow(reservations'[i])
          PROVE  reservations'[i].request.match # m
        BY <1>3, <1>5, <1>6, <2>1, <2>3, <2>6 DEF LiveRow
    <2> QED BY <2>1, <2>3, <2>5, <2>6 DEF k, Present
<1> QED BY <1>7, <1>8, <1>9 DEF MatchRows

\* Every other step keeps them consistent too.
LEMMA MatchStep ==
    ASSUME TypeOK, MatchRows, Next
    PROVE  MatchRows'
<1>1. CASE \E q \in Requests : AcquireGranted(q)
    BY <1>1, GrantKeepsMatches
<1>2. CASE ~(\E q \in Requests : AcquireGranted(q))
    <2>1. \A i \in ReservationIds : Evolves(reservations[i], reservations'[i])
        BY <1>2, RowsEvolve
    <2>2. RowsAgree'
        BY <2>1, LiveShrinks DEF MatchRows, RowsAgree, Evolves, Present
    <2>3. CASE \E q \in Requests, x \in Results : commit_result(q, x)
        <3>1. PICK q \in Requests, x \in Results : commit_result(q, x)
            BY <2>3
        <3>2. /\ reservations[q.id] \in Reservation /\ reservations[q.id].status = "active"
              /\ reservations[q.id].request.match = q.match
              /\ reservations[q.id].request.inputs = x.inputs
              /\ terminal[q.match] = NoRow /\ x.match = q.match
              /\ reservations'[q.id].status = "completed"
              /\ terminal'[q.match] = [result |-> x, reservation |-> q.id]
              /\ [result |-> x, reservation |-> q.id] \in TerminalRow
              /\ \A m \in Matches \ {q.match} : terminal'[m] = terminal[m]
            BY <3>1, CommitFacts
        <3>3. q.id \in ReservationIds /\ q.match \in Matches
            BY RequestFacts
        <3>4. /\ LiveRow(reservations[q.id]) /\ Present(q.id)
              /\ reservations'[q.id] # NoRow
              /\ reservations'[q.id].request = reservations[q.id].request
            BY <2>1, <3>2, <3>3, NoRowFacts DEF LiveRow, LiveStatus, Present, Evolves
        <3>5. ASSUME NEW i \in ReservationIds, i # q.id, reservations'[i] # NoRow
              PROVE  reservations'[i] = reservations[i]
            BY <3>1, <3>5 DEF commit_result, SetStatus, TypeOK
        <3>6. terminal'[q.match] # NoRow /\ terminal'[q.match].reservation = q.id
              /\ terminal'[q.match].result = x
            BY <3>2, NoRowFacts
        <3>7. CompletedIsPublished'
            <4> SUFFICES ASSUME NEW i \in ReservationIds,
                                reservations'[i] # NoRow, reservations'[i].status = "completed"
                         PROVE  LET m == reservations'[i].request.match
                                IN terminal'[m] # NoRow /\ terminal'[m].reservation = i
                BY Zenon DEF CompletedIsPublished, Present
            <4>1. CASE i = q.id
                BY <3>2, <3>4, <3>6, <4>1
            <4>2. CASE i # q.id
                <5> DEFINE m == reservations[i].request.match
                <5>1. reservations'[i] = reservations[i]
                    BY <3>5, <4>2
                <5>2. terminal[m] # NoRow /\ terminal[m].reservation = i
                    BY <5>1 DEF MatchRows, CompletedIsPublished, Present
                <5>3. m \in Matches
                    <6>1. reservations[i] \in Reservation
                        BY <5>1 DEF TypeOK
                    <6> QED BY <6>1, RequestFacts DEF Reservation
                <5> HIDE DEF m
                <5>4. m # q.match
                    BY <3>2, <5>2
                <5>5. terminal'[m] = terminal[m]
                    BY <3>2, <5>3, <5>4
                <5> QED BY <5>1, <5>2, <5>5, Zenon DEF m
            <4> QED BY <4>1, <4>2
        <3>8. ASSUME NEW m \in Matches, terminal'[m] # NoRow
              PROVE  LET k == terminal'[m].reservation
                     IN /\ reservations'[k] # NoRow /\ reservations'[k].status = "completed"
                        /\ reservations'[k].request.match = m
                        /\ terminal'[m].result.match = m
                        /\ terminal'[m].result.inputs = reservations'[k].request.inputs
                        /\ \A i \in ReservationIds :
                              LiveRow(reservations'[i]) => reservations'[i].request.match # m
            <4>1. CASE m = q.match
                <5>1. ASSUME NEW i \in ReservationIds, LiveRow(reservations'[i])
                      PROVE  reservations'[i].request.match # m
                    <6>1. i # q.id
                        BY <3>2, <5>1 DEF LiveRow, LiveStatus
                    <6>2. reservations'[i] = reservations[i] /\ Present(i)
                        BY <3>5, <5>1, <6>1 DEF LiveRow, Present
                    <6>3. LiveRow(reservations[i])
                        BY <5>1, <6>2
                    <6> QED BY <3>2, <3>3, <3>4, <4>1, <6>1, <6>2, <6>3 DEF MatchRows, RowsAgree
                <5> QED BY <3>2, <3>4, <3>6, <4>1, <5>1
            <4>2. CASE m # q.match
                <5>1. terminal'[m] = terminal[m]
                    BY <3>2, <4>2
                <5> DEFINE k == terminal[m].reservation
                <5>2. /\ Present(k) /\ reservations[k].status = "completed"
                      /\ reservations[k].request.match = m
                      /\ terminal[m].result.match = m
                      /\ terminal[m].result.inputs = reservations[k].request.inputs
                      /\ \A i \in ReservationIds : LiveRow(reservations[i]) => reservations[i].request.match # m
                    BY <3>8, <5>1, Zenon DEF MatchRows, PublishedIsCompleted
                <5>3. k \in ReservationIds
                    BY <3>8, <5>1 DEF TypeOK, TerminalRow
                <5> HIDE DEF k
                <5>4. reservations'[k] = reservations[k]
                    BY <2>1, <5>2, <5>3 DEF Evolves, LiveRow, LiveStatus, Present
                <5>5. ASSUME NEW i \in ReservationIds, LiveRow(reservations'[i])
                      PROVE  reservations'[i].request.match # m
                    BY <2>1, <5>2, <5>5, LiveShrinks
                <5> QED BY <5>1, <5>2, <5>4, <5>5 DEF k, Present
            <4> QED BY <4>1, <4>2
        <3>9. PublishedIsCompleted'
            BY <3>8, Zenon DEF PublishedIsCompleted, Present
        <3> QED BY <2>2, <3>7, <3>9 DEF MatchRows
    <2>4. CASE ~(\E q \in Requests, x \in Results : commit_result(q, x))
        <3>1. UNCHANGED terminal
            BY <2>4, TerminalSteps
        <3>2. ASSUME NEW i \in ReservationIds, reservations'[i] # NoRow,
                     reservations'[i].status = "completed"
              PROVE  Present(i) /\ reservations[i].status = "completed"
            BY <1>2, <2>1, <2>4, <3>2, RowSource DEF Fades, Evolves, Present
        <3>3. CompletedIsPublished'
            <4> SUFFICES ASSUME NEW i \in ReservationIds,
                                reservations'[i] # NoRow, reservations'[i].status = "completed"
                         PROVE  LET m == reservations'[i].request.match
                                IN terminal'[m] # NoRow /\ terminal'[m].reservation = i
                BY Zenon DEF CompletedIsPublished, Present
            <4>1. Present(i) /\ reservations[i].status = "completed"
                BY <3>2
            <4>2. reservations'[i].request = reservations[i].request
                BY <2>1, <4>1 DEF Evolves, Present
            <4> QED BY <3>1, <4>1, <4>2, Zenon DEF MatchRows, CompletedIsPublished
        <3>4. ASSUME NEW m \in Matches, terminal'[m] # NoRow
              PROVE  LET k == terminal'[m].reservation
                     IN /\ reservations'[k] # NoRow /\ reservations'[k].status = "completed"
                        /\ reservations'[k].request.match = m
                        /\ terminal'[m].result.match = m
                        /\ terminal'[m].result.inputs = reservations'[k].request.inputs
                        /\ \A i \in ReservationIds :
                              LiveRow(reservations'[i]) => reservations'[i].request.match # m
            <4> DEFINE k == terminal[m].reservation
            <4>1. terminal'[m] = terminal[m]
                BY <3>1
            <4>2. /\ Present(k) /\ reservations[k].status = "completed"
                  /\ reservations[k].request.match = m
                  /\ terminal[m].result.match = m
                  /\ terminal[m].result.inputs = reservations[k].request.inputs
                  /\ \A i \in ReservationIds : LiveRow(reservations[i]) => reservations[i].request.match # m
                BY <3>4, <4>1, Zenon DEF MatchRows, PublishedIsCompleted
            <4>3. k \in ReservationIds
                BY <3>4, <4>1 DEF TypeOK, TerminalRow
            <4> HIDE DEF k
            <4>4. reservations'[k] = reservations[k]
                BY <2>1, <4>2, <4>3 DEF Evolves, LiveRow, LiveStatus, Present
            <4>5. ASSUME NEW i \in ReservationIds, LiveRow(reservations'[i])
                  PROVE  reservations'[i].request.match # m
                BY <2>1, <4>2, <4>5, LiveShrinks
            <4> QED BY <4>1, <4>2, <4>4, <4>5 DEF k, Present
        <3>5. PublishedIsCompleted'
            BY <3>4, Zenon DEF PublishedIsCompleted, Present
        <3> QED BY <2>2, <3>3, <3>5 DEF MatchRows
    <2> QED BY <2>3, <2>4
<1> QED BY <1>1, <1>2

\* Only control changes tournament_worker_controls.
LEMMA ControlSteps ==
    ASSUME Next
    PROVE  \/ UNCHANGED controls
           \/ \E t \in Tournaments, next \in Controls : control(t, next)
BY Zenon DEF Next, Tick, recovery, configure_limits, commit_result, acquire_reservation,
   AcquireRefused, AcquireThrottled, AcquireGranted, renew_reservation, release_reservation

\* load_control, from the row.
RowControl(row) == IF row = NoRow THEN "running" ELSE row.control

\* Cancelling a tournament signals its active reservations, and none becomes
\* active afterwards.
LEMMA SignalStep ==
    ASSUME TypeOK, CancelledTournamentIsSignalled, Next
    PROVE  CancelledTournamentIsSignalled'
<1> SUFFICES ASSUME NEW i \in ReservationIds, reservations'[i] # NoRow,
                    reservations'[i].status = "active"
             PROVE  RowControl(controls'[reservations'[i].request.tournament]) # "cancelled"
    BY Zenon DEF CancelledTournamentIsSignalled, Present, load_control, RowControl
<1>1. CASE \E q \in Requests : AcquireGranted(q) /\ i = q.id
    <2>1. PICK q \in Requests : AcquireGranted(q) /\ i = q.id
        BY <1>1
    <2>2. PICK now \in Sampled, rows \in [ReservationIds -> Reservation \cup {NoRow}] :
            /\ Admissible(q, rows, now)
            /\ reservations'[q.id] = NewReservation(q, now)
            /\ UNCHANGED controls
        BY <2>1, GrantFacts, Zenon
    <2>3. load_control(q.tournament) = "running"
        BY <2>2 DEF Admissible
    <2>4. reservations'[i].request = q
        BY <2>1, <2>2 DEF NewReservation
    <2> QED BY <2>2, <2>3, <2>4 DEF load_control, RowControl
<1>2. CASE \E q \in Requests, x \in Results : commit_result(q, x) /\ i = q.id
    BY <1>2, CommitFacts
<1>3. CASE ~(\E q \in Requests : AcquireGranted(q) /\ i = q.id)
           /\ ~(\E q \in Requests, x \in Results : commit_result(q, x) /\ i = q.id)
    <2>1. Present(i) /\ reservations[i].status = "active"
        BY <1>3, RowSource DEF Fades, renew_reservation, Held, Present
    <2>2. reservations[i] \in Reservation
        BY <2>1 DEF TypeOK, Present
    <2>3. reservations'[i].request = reservations[i].request
        <3>1. CASE \E q \in Requests : AcquireGranted(q)
            <4>1. PICK q \in Requests : AcquireGranted(q)
                BY <3>1
            <4>2. i # q.id
                BY <1>3, <4>1
            <4>3. \E rows \in [ReservationIds -> Reservation \cup {NoRow}] :
                    Evolves(reservations[i], rows[i]) /\ reservations'[i] = rows[i]
                BY <4>1, <4>2, GrantFacts, Zenon
            <4> QED BY <2>1, <4>3 DEF Evolves, Present
        <3>2. CASE ~(\E q \in Requests : AcquireGranted(q))
            BY <2>1, <3>2, RowsEvolve DEF Evolves, Present
        <3> QED BY <3>1, <3>2
    <2> DEFINE t == reservations[i].request.tournament
    <2>4. load_control(t) # "cancelled" /\ t \in Tournaments
        BY <2>1, <2>2, RequestFacts DEF CancelledTournamentIsSignalled, Reservation
    <2>5. CASE UNCHANGED controls
        BY <2>3, <2>4, <2>5 DEF load_control, RowControl
    <2>6. ASSUME NEW u \in Tournaments, NEW next \in Controls, control(u, next)
          PROVE  RowControl(controls'[t]) # "cancelled"
        <3>1. PICK now \in Sampled :
                controls' = [controls EXCEPT ![u] = [control |-> next, updated |-> now]]
            BY <2>6, Zenon DEF control
        <3>2. [control |-> next, updated |-> now] # NoRow
            <4>1. [control |-> next, updated |-> now] \in ControlRow
                BY SampledFacts DEF ControlRow
            <4> QED BY <4>1, NoRowFacts
        <3>3. CASE t = u /\ next = "cancelled"
            <4>1. reservations'[i] = [reservations[i] EXCEPT !.status = "cancel_requested"]
                BY <2>1, <2>6, <3>3 DEF control
            <4> QED BY <2>2, <4>1 DEF Reservation
        <3>4. CASE t = u /\ next # "cancelled"
            <4>1. controls'[t] = [control |-> next, updated |-> now]
                BY <2>4, <3>1, <3>4 DEF TypeOK
            <4> QED BY <3>2, <3>4, <4>1 DEF RowControl
        <3>5. CASE t # u
            <4>1. controls'[t] = controls[t]
                BY <2>4, <3>1, <3>5 DEF TypeOK
            <4> QED BY <2>4, <4>1 DEF load_control, RowControl
        <3> QED BY <3>3, <3>4, <3>5
    <2> QED BY <2>3, <2>5, <2>6, ControlSteps
<1> QED BY <1>1, <1>2, <1>3

-----------------------------------------------------------------------------
(* Action properties *)

\* A cancelled tournament keeps its control, and its reservations are
\* neither made, extended nor completed.
LEMMA CancelledStep ==
    ASSUME TypeOK, CancelledTournamentIsSignalled, Next,
           NEW t \in Tournaments, load_control(t) = "cancelled"
    PROVE  /\ controls'[t] = controls[t]
           /\ \A i \in ReservationIds :
                 reservations'[i] # NoRow /\ reservations'[i].request.tournament = t =>
                    /\ Present(i)
                    /\ reservations'[i].expires = reservations[i].expires
                    /\ reservations'[i].status = "completed"
                          => reservations[i].status = "completed"
<1>1. controls'[t] = controls[t]
    <2>1. ASSUME NEW u \in Tournaments, NEW next \in Controls, control(u, next)
          PROVE  controls'[t] = controls[t]
        <3>1. u # t
            BY <2>1 DEF control, load_control
        <3>2. PICK now \in Sampled :
                controls' = [controls EXCEPT ![u] = [control |-> next, updated |-> now]]
            BY <2>1, Zenon DEF control
        <3> QED BY <3>1, <3>2 DEF TypeOK
    <2> QED BY <2>1, ControlSteps
<1> SUFFICES ASSUME NEW i \in ReservationIds, reservations'[i] # NoRow,
                    reservations'[i].request.tournament = t
             PROVE  /\ Present(i)
                    /\ reservations'[i].expires = reservations[i].expires
                    /\ reservations'[i].status = "completed"
                          => reservations[i].status = "completed"
    BY <1>1
<1>2. ASSUME NEW q \in Requests, AcquireGranted(q), i = q.id
      PROVE  FALSE
    <2>1. PICK now \in Sampled, rows \in [ReservationIds -> Reservation \cup {NoRow}] :
            /\ Admissible(q, rows, now)
            /\ reservations'[q.id] = NewReservation(q, now)
        BY <1>2, GrantFacts, Zenon
    <2>2. load_control(q.tournament) = "running"
        BY <2>1 DEF Admissible
    <2>3. reservations'[i].request = q
        BY <1>2, <2>1 DEF NewReservation
    <2> QED BY <2>2, <2>3
<1>3. ASSUME ~(\E q \in Requests : AcquireGranted(q)), Present(i), reservations[i].status = "active"
      PROVE  FALSE
    <2>1. reservations'[i].request = reservations[i].request
        BY <1>3, RowsEvolve DEF Evolves, Present
    <2> QED BY <1>3, <2>1 DEF CancelledTournamentIsSignalled
<1>4. ASSUME NEW q \in Requests, NEW x \in Results, commit_result(q, x), i = q.id
      PROVE  Present(i) /\ reservations[i].status = "active" /\ reservations'[i] # reservations[i]
             /\ reservations'[i].request = reservations[i].request
    <2>1. reservations[i] \in Reservation /\ reservations[i].status = "active"
          /\ reservations'[i].status = "completed"
        BY <1>4, CommitFacts
    <2>2. reservations' = SetStatus(q.id, "completed")
        BY <1>4 DEF commit_result
    <2>3. reservations'[i] = [reservations[i] EXCEPT !.status = "completed"]
        BY <1>4, <2>2 DEF SetStatus, TypeOK
    <2> QED BY <2>1, <2>3, NoRowFacts DEF Present, Reservation
<1>5. ASSUME NEW q \in Requests, renew_reservation(q), i = q.id
      PROVE  Present(i) /\ reservations[i].status = "active"
             /\ reservations'[i].request = reservations[i].request
    <2>1. Present(i) /\ reservations[i].status = "active"
        BY <1>5 DEF renew_reservation, Held
    <2>2. PICK now \in Sampled, duration \in Durations :
            reservations' = [reservations EXCEPT ![q.id] = [@ EXCEPT !.expires = now + duration]]
        BY <1>5, Zenon DEF renew_reservation
    <2>3. reservations'[i] = [reservations[i] EXCEPT !.expires = now + duration]
        BY <1>5, <2>2 DEF TypeOK
    <2>4. reservations[i] \in Reservation
        BY <2>1 DEF TypeOK, Present
    <2> QED BY <2>1, <2>3, <2>4 DEF Reservation
<1>6. \A q \in Requests : renew_reservation(q) => i # q.id
    BY <1>5, Zenon DEF CancelledTournamentIsSignalled
<1>7. \A q \in Requests, x \in Results : commit_result(q, x) => i # q.id
    BY <1>4, Zenon DEF CancelledTournamentIsSignalled
<1>8. reservations[i] # NoRow /\ Fades(reservations[i], reservations'[i])
    BY <1>2, <1>6, <1>7, RowSource, Zenon
<1> QED BY <1>8 DEF Fades, Present

\* A published result and an ended reservation stay as they are.
LEMMA EndedStep ==
    ASSUME TypeOK, Next
    PROVE  /\ \A m \in Matches : terminal[m] # NoRow => terminal'[m] = terminal[m]
           /\ \A i \in ReservationIds :
                 Present(i) /\ ~LiveRow(reservations[i]) => reservations'[i] = reservations[i]
<1>1. ASSUME NEW m \in Matches, terminal[m] # NoRow
      PROVE  terminal'[m] = terminal[m]
    <2>1. ASSUME NEW q \in Requests, NEW x \in Results, commit_result(q, x)
          PROVE  terminal'[m] = terminal[m]
        <3>1. terminal[q.match] = NoRow
              /\ \A n \in Matches \ {q.match} : terminal'[n] = terminal[n]
            BY <2>1, CommitFacts
        <3> QED BY <1>1, <3>1
    <2> QED BY <2>1, TerminalSteps
<1>2. ASSUME NEW i \in ReservationIds, Present(i), ~LiveRow(reservations[i])
      PROVE  reservations'[i] = reservations[i]
    <2>1. ASSUME NEW q \in Requests, AcquireGranted(q)
          PROVE  reservations'[i] = reservations[i]
        <3>1. \E rows \in [ReservationIds -> Reservation \cup {NoRow}] :
                /\ Evolves(reservations[i], rows[i])
                /\ reservations[q.id] = NoRow
                /\ \A k \in ReservationIds \ {q.id} : reservations'[k] = rows[k]
            BY <2>1, GrantFacts, Zenon
        <3> QED BY <1>2, <3>1 DEF Evolves, Present
    <2>2. CASE ~(\E q \in Requests : AcquireGranted(q))
        BY <1>2, <2>2, RowsEvolve DEF Evolves, Present
    <2> QED BY <2>1, <2>2
<1> QED BY <1>1, <1>2

-----------------------------------------------------------------------------
(* Theorems *)

\* The inductive invariant.  RateBounded alone is not inductive: what a
\* bucket still holds has to be related to the grants already made.
SchedulerInv ==
    /\ TypeOK
    /\ BucketsCover
    /\ ConcurrencyBounded
    /\ MatchRows
    /\ CancelledTournamentIsSignalled

\* The invariant holds in the initial state.
LEMMA SchedulerInvInit == Init => SchedulerInv
<1> SUFFICES ASSUME Init PROVE SchedulerInv
    OBVIOUS
<1>1. TypeOK
    <2>1. 0 \in 0..Horizon
        <3>1. Horizon \in Nat
            BY SchedulerAssumption, Zenon
        <3> QED BY <3>1
    <2> QED BY <2>1 DEF Init, TypeOK
<1>2. BucketsCover
    BY DEF Init, BucketsCover, Rated
<1>3. ConcurrencyBounded
    BY DEF Init, ConcurrencyBounded, LiveRow
<1>4. MatchRows
    BY DEF Init, MatchRows, RowsAgree, CompletedIsPublished, PublishedIsCompleted, Present
<1>5. CancelledTournamentIsSignalled
    BY DEF Init, CancelledTournamentIsSignalled, Present
<1> QED BY <1>1, <1>2, <1>3, <1>4, <1>5 DEF SchedulerInv

\* Every step preserves it.
LEMMA SchedulerInvNext == SchedulerInv /\ [Next]_vars => SchedulerInv'
<1> SUFFICES ASSUME SchedulerInv, [Next]_vars PROVE SchedulerInv'
    OBVIOUS
<1>1. CASE Next
    BY <1>1, TypeStep, BucketsStep, ConcurrencyStep, MatchStep, SignalStep DEF SchedulerInv
<1>2. CASE UNCHANGED vars
    <2>1. TypeOK' /\ BucketsCover'
        BY <1>2 DEF vars, SchedulerInv, TypeOK, BucketsCover, Rated
    <2>2. ConcurrencyBounded'
        BY <1>2 DEF vars, SchedulerInv, ConcurrencyBounded
    <2>3. MatchRows' /\ CancelledTournamentIsSignalled'
        BY <1>2 DEF vars, SchedulerInv, MatchRows, RowsAgree, CompletedIsPublished,
           PublishedIsCompleted, Present, CancelledTournamentIsSignalled, load_control
    <2> QED BY <2>1, <2>2, <2>3 DEF SchedulerInv
<1> QED BY <1>1, <1>2

\* Every reachable state satisfies the inductive invariant.
THEOREM SchedulerInvariant == Spec => []SchedulerInv
BY SchedulerInvInit, SchedulerInvNext, PTL DEF Spec

\* Ceilings and rates hold at all times, for every configuration, every
\* staleness of the callers' clocks and every number of workers: no scope
\* exceeds its max_concurrency, and over any window the grants of a rated
\* scope stay within its burst plus what the window refills.
THEOREM LimitsAlwaysHold == Spec => []LimitsHold
<1>1. SchedulerInv => LimitsHold
    <2> SUFFICES ASSUME SchedulerInv PROVE LimitsHold
        OBVIOUS
    <2>1. RateBounded
        BY Zenon DEF SchedulerInv, BucketsCover, RateBounded, GrantsBounded
    <2> QED BY <2>1 DEF SchedulerInv, LimitsHold
<1> QED BY <1>1, SchedulerInvariant, PTL

\* A match runs once and publishes once, workers of a cancelled tournament
\* are signalled, and neither a cancellation nor a result nor the end of a
\* reservation is ever taken back.
THEOREM SchedulerIsSafe == Spec => SchedulerSafety
<1>1. SchedulerInv => MatchIsConsistent /\ CancelledTournamentIsSignalled
    BY MatchRowsImply DEF SchedulerInv
<1>2. SchedulerInv /\ [Next]_vars =>
        [\A t \in Tournaments : load_control(t) = "cancelled" =>
          /\ controls'[t] = controls[t]
          /\ \A i \in ReservationIds :
                reservations'[i] # NoRow /\ reservations'[i].request.tournament = t =>
                   /\ Present(i)
                   /\ reservations'[i].expires = reservations[i].expires
                   /\ reservations'[i].status = "completed"
                         => reservations[i].status = "completed"]_vars
    BY CancelledStep, Zenon DEF SchedulerInv
<1>3. SchedulerInv /\ [Next]_vars =>
        [/\ \A m \in Matches : terminal[m] # NoRow => terminal'[m] = terminal[m]
         /\ \A i \in ReservationIds :
             Present(i) /\ ~LiveRow(reservations[i])
                 => reservations'[i] = reservations[i]]_vars
    BY EndedStep, Zenon DEF SchedulerInv
<1> QED BY <1>1, <1>2, <1>3, SchedulerInvariant, PTL
        DEF Spec, SchedulerSafety, CancelledStaysCancelled, EndedIsFinal

-----------------------------------------------------------------------------
(* One bucket, polled and drained: refill and retry are exact *)

\* A number has a quotient and a remainder.
LEMMA DivExists ==
    ASSUME NEW a \in Nat, NEW b \in Nat \ {0}
    PROVE  \E q \in Nat, m \in Nat : a = (b * q) + m /\ m < b
<1>1. /\ a \div b \in Nat /\ a % b \in Nat
      /\ a = (b * (a \div b)) + (a % b) /\ a % b < b
    BY DivMod
<1> QED BY <1>1, Zenon

\* Quotient and remainder are determined by their equation.
LEMMA DivModUnique ==
    ASSUME NEW a \in Nat, NEW b \in Nat \ {0}, NEW q \in Nat, NEW r \in Nat, a = (b * q) + r, r < b
    PROVE  a \div b = q /\ a % b = r
<1>1. PICK k \in Nat : k = a \div b
    BY DivMod
<1>2. PICK m \in Nat : m = a % b
    BY DivMod
<1>3. a = (b * k) + m /\ m < b
    BY <1>1, <1>2, DivMod
<1>4. ASSUME k < q
      PROVE  FALSE
    <2>1. k + 1 <= q
        BY <1>4
    <2>2. (k + 1) * b <= q * b
        BY <2>1, Monotone
    <2>3. (k + 1) * b = (b * k) + b /\ q * b = b * q
        OBVIOUS
    <2>4. b * k \in Nat /\ b * q \in Nat
        OBVIOUS
    <2> QED BY <1>3, <2>2, <2>3, <2>4
<1>5. ASSUME q < k
      PROVE  FALSE
    <2>1. q + 1 <= k
        BY <1>5
    <2>2. (q + 1) * b <= k * b
        BY <2>1, Monotone
    <2>3. (q + 1) * b = (b * q) + b /\ k * b = b * k
        OBVIOUS
    <2>4. b * k \in Nat /\ b * q \in Nat
        OBVIOUS
    <2> QED BY <1>3, <2>2, <2>3, <2>4
<1>6. k = q
    BY <1>4, <1>5
<1>7. b * k \in Nat
    OBVIOUS
<1> QED BY <1>1, <1>2, <1>3, <1>6, <1>7

\* What refill_bucket computes, with the quotient and the remainder named.
LEMMA RefillIs ==
    ASSUME NEW p \in RatePolicy, NEW b \in TokenBucketState, NEW now \in Nat, Refillable(b, now),
           NEW q \in Nat, NEW m \in Nat, m < p.refill_interval_ms,
           ((now - b.updated_at) * p.refill_tokens) + b.remainder = (p.refill_interval_ms * q) + m
    PROVE  /\ b.tokens >= p.capacity \/ b.tokens + q >= p.capacity => refill_bucket(b, p, now) = FullBucket(p, now)
           /\ ~(b.tokens >= p.capacity \/ b.tokens + q >= p.capacity) =>
                refill_bucket(b, p, now) = [tokens |-> b.tokens + q, remainder |-> m, updated_at |-> now]
<1>1. PICK n \in Nat : n = ((now - b.updated_at) * p.refill_tokens) + b.remainder
    <2>1. /\ now - b.updated_at \in Nat /\ p.refill_tokens \in Nat /\ b.remainder \in Nat
        BY DEF RatePolicy, TokenBucketState, Refillable
    <2>2. (now - b.updated_at) * p.refill_tokens \in Nat
        BY <2>1
    <2> QED BY <2>1, <2>2
<1>2. PICK i \in Nat \ {0} : i = p.refill_interval_ms
    BY DEF RatePolicy
<1>3. n \div i = q /\ n % i = m
    BY <1>1, <1>2, DivModUnique
<1> QED BY <1>1, <1>2, <1>3, Zenon DEF refill_bucket

\* A refill in between changes nothing: refill_bucket drops no remainder.
LEMMA RefillTwice ==
    ASSUME NEW p \in RatePolicy, NEW b \in TokenBucketState, NEW t1 \in Nat, NEW t2 \in Nat,
           b.updated_at <= t1, t1 <= t2
    PROVE  refill_bucket(refill_bucket(b, p, t1), p, t2) = refill_bucket(b, p, t2)
<1>1. PICK i \in Nat \ {0} : i = p.refill_interval_ms
    BY DEF RatePolicy
<1>2. PICK s \in Nat : s = p.refill_tokens
    BY DEF RatePolicy
<1>3. PICK c \in Nat \ {0} : c = p.capacity
    BY DEF RatePolicy
<1>4. /\ b.tokens \in Nat /\ b.remainder \in Nat /\ b.updated_at \in Nat
      /\ Refillable(b, t1) /\ Refillable(b, t2)
    BY DEF TokenBucketState, Refillable
<1>5. PICK e1 \in Nat : e1 = (t1 - b.updated_at) * s
    <2>1. t1 - b.updated_at \in Nat
        BY <1>4
    <2> QED BY <2>1
<1>6. PICK e2 \in Nat : e2 = (t2 - t1) * s
    <2>1. t2 - t1 \in Nat
        OBVIOUS
    <2> QED BY <2>1
<1>7. (t2 - b.updated_at) * s = e1 + e2
    <2>1. t2 - b.updated_at = (t1 - b.updated_at) + (t2 - t1)
        BY <1>4
    <2>2. t1 - b.updated_at \in Int /\ t2 - t1 \in Int
        BY <1>4
    <2> QED BY <1>5, <1>6, <2>1, <2>2
<1>8. PICK q1 \in Nat, m1 \in Nat : e1 + b.remainder = (i * q1) + m1 /\ m1 < i
    <2>1. e1 + b.remainder \in Nat
        BY <1>4
    <2> QED BY <2>1, DivExists
<1>9. PICK q2 \in Nat, m2 \in Nat : e2 + m1 = (i * q2) + m2 /\ m2 < i
    <2>1. e2 + m1 \in Nat
        OBVIOUS
    <2> QED BY <2>1, DivExists
<1>10. (e1 + e2) + b.remainder = (i * (q1 + q2)) + m2
    <2>1. PICK x \in Nat : x = i * q1
        OBVIOUS
    <2>2. PICK y \in Nat : y = i * q2
        OBVIOUS
    <2>3. i * (q1 + q2) = x + y
        BY <2>1, <2>2
    <2>4. e1 + b.remainder = x + m1 /\ e2 + m1 = y + m2
        BY <1>8, <1>9, <2>1, <2>2
    <2>5. e1 + e2 + b.remainder = (x + y) + m2
        BY <1>4, <2>4
    <2> QED BY <2>3, <2>5
<1>11. PICK r : r = refill_bucket(b, p, t1)
    OBVIOUS
<1>12. /\ b.tokens >= c \/ b.tokens + q1 >= c => r = FullBucket(p, t1)
       /\ ~(b.tokens >= c \/ b.tokens + q1 >= c) => r = [tokens |-> b.tokens + q1, remainder |-> m1, updated_at |-> t1]
    BY <1>1, <1>2, <1>3, <1>4, <1>5, <1>8, <1>11, RefillIs
<1>13. /\ b.tokens >= c \/ b.tokens + (q1 + q2) >= c => refill_bucket(b, p, t2) = FullBucket(p, t2)
       /\ ~(b.tokens >= c \/ b.tokens + (q1 + q2) >= c) =>
            refill_bucket(b, p, t2) = [tokens |-> b.tokens + (q1 + q2), remainder |-> m2, updated_at |-> t2]
    <2>1. q1 + q2 \in Nat
        OBVIOUS
    <2> QED BY <1>1, <1>2, <1>3, <1>4, <1>7, <1>9, <1>10, <2>1, RefillIs
<1>14. CASE b.tokens >= c \/ b.tokens + q1 >= c
    <2>1. r = FullBucket(p, t1) /\ r.tokens >= p.capacity
        BY <1>3, <1>12, <1>14 DEF FullBucket
    <2>2. refill_bucket(r, p, t2) = FullBucket(p, t2)
        BY <2>1, Zenon DEF refill_bucket
    <2>3. b.tokens >= c \/ b.tokens + (q1 + q2) >= c
        BY <1>4, <1>14
    <2> QED BY <1>11, <1>13, <2>2, <2>3
<1>15. CASE ~(b.tokens >= c \/ b.tokens + q1 >= c)
    <2>1. /\ r = [tokens |-> b.tokens + q1, remainder |-> m1, updated_at |-> t1]
        BY <1>12, <1>15
    <2>2. /\ r \in TokenBucketState /\ r.tokens = b.tokens + q1 /\ r.remainder = m1 /\ r.updated_at = t1
        BY <1>4, <2>1 DEF TokenBucketState
    <2>3. Refillable(r, t2) /\ ((t2 - r.updated_at) * p.refill_tokens) + r.remainder = (i * q2) + m2
        BY <1>2, <1>6, <1>9, <2>2 DEF Refillable
    <2>4. /\ r.tokens >= c \/ r.tokens + q2 >= c => refill_bucket(r, p, t2) = FullBucket(p, t2)
          /\ ~(r.tokens >= c \/ r.tokens + q2 >= c) =>
               refill_bucket(r, p, t2) = [tokens |-> r.tokens + q2, remainder |-> m2, updated_at |-> t2]
        BY <1>1, <1>3, <1>9, <2>2, <2>3, RefillIs
    <2>5. /\ r.tokens + q2 = b.tokens + (q1 + q2) /\ ~(r.tokens >= c) /\ ~(b.tokens >= c)
        BY <1>4, <1>15, <2>2
    <2> QED BY <1>11, <1>13, <2>4, <2>5
<1> QED BY <1>14, <1>15

\* token_retry_at, of an empty bucket: not a millisecond early or late.
LEMMA RetryIsExact ==
    ASSUME NEW p \in RatePolicy, NEW b \in TokenBucketState, b.tokens = 0, b.remainder < p.refill_interval_ms,
           NEW retry, retry = token_retry_at(b, p, b.updated_at)
    PROVE  refill_bucket(b, p, retry).tokens > 0 /\ refill_bucket(b, p, retry - 1).tokens = 0
<1>1. PICK i \in Nat \ {0} : i = p.refill_interval_ms
    BY DEF RatePolicy
<1>2. PICK s \in Nat \ {0} : s = p.refill_tokens
    BY DEF RatePolicy
<1>3. PICK c \in Nat \ {0} : c = p.capacity
    BY DEF RatePolicy
<1>4. PICK u \in Nat : u = b.updated_at
    BY DEF TokenBucketState
<1>5. PICK m \in Nat : m = b.remainder /\ m < i
    BY <1>1 DEF TokenBucketState
<1>6. (i - m) + s - 1 \in Nat
    BY <1>5
<1>7. PICK w \in Nat, x \in Nat : (i - m) + s - 1 = (s * w) + x /\ x < s /\ w = ((i - m) + s - 1) \div s
    BY <1>6, DivMod
<1>8. retry = u + w
    <2>1. ~(b.tokens > 0)
        OBVIOUS
    <2> QED BY <1>1, <1>2, <1>4, <1>5, <1>7, <2>1, Zenon DEF token_retry_at
<1>9. s * w >= i - m /\ s * w <= (i - m) + s - 1 /\ s * w \in Nat
    <2>1. s * w \in Nat
        OBVIOUS
    <2> QED BY <1>5, <1>7, <2>1
<1>10. w >= 1
    <2>1. w = 0 => s * w = 0
        OBVIOUS
    <2> QED BY <1>5, <1>9, <2>1
<1>11. refill_bucket(b, p, retry).tokens > 0
    <2>1. (w * s) + m \in Nat /\ (w * s) + m >= i /\ w * s = s * w
        BY <1>5, <1>9
    <2>2. PICK q \in Nat, y \in Nat : (w * s) + m = (i * q) + y /\ y < i
        BY <2>1, DivExists
    <2>3. q >= 1
        <3>1. q = 0 => i * q = 0
            OBVIOUS
        <3> QED BY <2>1, <2>2, <3>1
    <2>4. retry \in Nat /\ Refillable(b, retry) /\ retry - b.updated_at = w
        BY <1>4, <1>8 DEF Refillable
    <2>5. /\ b.tokens >= c \/ b.tokens + q >= c => refill_bucket(b, p, retry) = FullBucket(p, retry)
          /\ ~(b.tokens >= c \/ b.tokens + q >= c) =>
               refill_bucket(b, p, retry) = [tokens |-> b.tokens + q, remainder |-> y, updated_at |-> retry]
        BY <1>1, <1>2, <1>3, <1>5, <2>2, <2>4, RefillIs
    <2>6. FullBucket(p, retry).tokens > 0
        BY <1>3 DEF FullBucket
    <2>7. [tokens |-> b.tokens + q, remainder |-> y, updated_at |-> retry].tokens > 0
        BY <2>3
    <2> QED BY <2>5, <2>6, <2>7
<1>12. refill_bucket(b, p, retry - 1).tokens = 0
    <2>1. (w - 1) * s = (s * w) - s
        OBVIOUS
    <2>2. PICK n \in Nat : n = ((w - 1) * s) + m /\ n < i
        <3>1. (w - 1) * s \in Nat
            BY <1>10
        <3>2. ((w - 1) * s) + m < i
            BY <1>5, <1>9, <2>1
        <3> QED BY <3>1, <3>2
    <2>3. n = (i * 0) + n
        OBVIOUS
    <2>4. retry - 1 \in Nat /\ Refillable(b, retry - 1) /\ (retry - 1) - b.updated_at = w - 1
        BY <1>4, <1>8, <1>10 DEF Refillable
    <2>5. ~(b.tokens >= c \/ b.tokens + 0 >= c) =>
               refill_bucket(b, p, retry - 1) = [tokens |-> b.tokens + 0, remainder |-> n, updated_at |-> retry - 1]
        <3>1. 0 \in Nat /\ ((retry - 1 - b.updated_at) * p.refill_tokens) + b.remainder = (p.refill_interval_ms * 0) + n
            BY <1>1, <1>2, <1>5, <2>2, <2>3, <2>4
        <3> QED BY <1>1, <1>3, <2>2, <2>4, <3>1, RefillIs
    <2>6. ~(b.tokens >= c \/ b.tokens + 0 >= c)
        BY <1>3
    <2> QED BY <2>5, <2>6
<1> QED BY <1>11, <1>12

\* Every bucket that an acquisition can find in the table.
BucketInv ==
    /\ policy \in RatePolicy
    /\ BucketCovers(bucket, policy, drawn) /\ GrantsBounded(policy, drawn)
    /\ bucket.remainder < policy.refill_interval_ms

\* A refill leaves less than a token as the remainder.
LEMMA RemainderIsFraction ==
    ASSUME NEW p \in RatePolicy, NEW b \in TokenBucketState, NEW now \in Nat, Refillable(b, now)
    PROVE  refill_bucket(b, p, now).remainder < p.refill_interval_ms
<1>1. PICK i \in Nat \ {0} : i = p.refill_interval_ms
    BY DEF RatePolicy
<1>2. PICK n \in Nat : n = ((now - b.updated_at) * p.refill_tokens) + b.remainder
    <2>1. /\ now - b.updated_at \in Nat /\ p.refill_tokens \in Nat /\ b.remainder \in Nat
        BY DEF RatePolicy, TokenBucketState, Refillable
    <2>2. (now - b.updated_at) * p.refill_tokens \in Nat
        BY <2>1
    <2> QED BY <2>1, <2>2
<1>3. PICK q \in Nat, m \in Nat : n = (i * q) + m /\ m < i
    BY DivExists
<1>4. \/ refill_bucket(b, p, now) = FullBucket(p, now)
      \/ refill_bucket(b, p, now) = [tokens |-> b.tokens + q, remainder |-> m, updated_at |-> now]
    BY <1>1, <1>2, <1>3, RefillIs
<1>5. FullBucket(p, now).remainder = 0
    BY DEF FullBucket
<1> QED BY <1>1, <1>3, <1>4, <1>5

\* Polls and grants.
LEMMA BucketKeeps == BucketInv /\ [BucketNext]_bucketVars => BucketInv'
<1> SUFFICES ASSUME BucketInv, [BucketNext]_bucketVars
             PROVE  BucketInv'
    OBVIOUS
<1>0. policy \in RatePolicy /\ bucket \in TokenBucketState /\ BucketCovers(bucket, policy, drawn)
    BY DEF BucketInv, BucketCovers
<1>h. \A now \in 0..BucketHorizon : now \in Nat
    BY BucketAssumption
<1>1. CASE Poll
    <2>1. PICK now \in 0..BucketHorizon :
            /\ Refillable(bucket, now) /\ bucket' = refill_bucket(bucket, policy, now)
            /\ UNCHANGED <<policy, drawn>>
        BY <1>1, Zenon DEF Poll
    <2>2. now \in Nat
        BY <1>h
    <2>3. BucketCovers(bucket', policy, drawn)
        BY <1>0, <2>1, <2>2, RefillCovers
    <2>4. bucket'.remainder < policy.refill_interval_ms
        BY <1>0, <2>1, <2>2, RemainderIsFraction
    <2>5. policy' = policy /\ drawn' = drawn
        BY <2>1
    <2> QED BY <2>3, <2>4, <2>5, Zenon DEF BucketInv
<1>2. CASE Grant
    <2>1. PICK now \in 0..BucketHorizon :
            /\ Refillable(bucket, now) /\ refill_bucket(bucket, policy, now).tokens > 0
            /\ bucket' = [refill_bucket(bucket, policy, now) EXCEPT !.tokens = @ - 1]
            /\ drawn' = Append(drawn, now) /\ UNCHANGED policy
        BY <1>2, Zenon DEF Grant
    <2>2. now \in Nat
        BY <1>h
    <2>3. PICK r : r = refill_bucket(bucket, policy, now)
        OBVIOUS
    <2>4. BucketCovers(r, policy, drawn) /\ r.updated_at = now
        BY <1>0, <2>1, <2>2, <2>3, RefillCovers
    <2>5. r.remainder < policy.refill_interval_ms
        BY <1>0, <2>1, <2>2, <2>3, RemainderIsFraction
    <2>6. r \in TokenBucketState /\ r.tokens # 0
        BY <2>1, <2>3, <2>4 DEF BucketCovers, TokenBucketState
    <2>7. bucket' = [tokens |-> r.tokens - 1, remainder |-> r.remainder, updated_at |-> r.updated_at]
        BY <2>1, <2>3, <2>6 DEF TokenBucketState
    <2>8. BucketCovers(bucket', policy, drawn') /\ GrantsBounded(policy, drawn')
        BY <1>0, <2>1, <2>2, <2>4, <2>6, <2>7, GrantCovers DEF BucketInv
    <2>9. bucket'.remainder < policy.refill_interval_ms
        BY <2>5, <2>7
    <2> QED BY <1>0, <2>1, <2>8, <2>9 DEF BucketInv
<1>3. CASE UNCHANGED bucketVars
    BY <1>3, Zenon DEF bucketVars, BucketInv
<1> QED BY <1>1, <1>2, <1>3 DEF BucketNext

\* For every policy, and however polls and grants of a bucket interleave: the
\* retry time of an empty bucket is the first millisecond with a token, a
\* refill in between gains and loses nothing, and the grants of every window
\* of time stay within the burst and what the window refills.
THEOREM BucketAlwaysExact == BucketSpec => []BucketIsExact
<1>1. BucketInit => BucketInv
    <2> SUFFICES ASSUME BucketInit
                 PROVE  BucketInv
        OBVIOUS
    <2>1. policy \in RatePolicy
        BY BucketAssumption DEF BucketInit, RatePolicy
    <2>2. /\ policy.capacity \in Nat \ {0} /\ policy.refill_interval_ms \in Nat \ {0}
        BY <2>1 DEF RatePolicy
    <2>3. bucket = [tokens |-> policy.capacity, remainder |-> 0, updated_at |-> 0] /\ drawn = <<>>
        BY DEF BucketInit, FullBucket
    <2>4. bucket \in TokenBucketState /\ drawn \in Seq(Nat) /\ Len(drawn) = 0 /\ DOMAIN drawn = {}
        BY <2>2, <2>3 DEF TokenBucketState
    <2>5. Level(bucket, policy) <= policy.capacity * policy.refill_interval_ms
        BY <2>2, <2>3 DEF Level
    <2>6. BucketCovers(bucket, policy, drawn) /\ GrantsBounded(policy, drawn)
        BY <2>4, <2>5 DEF BucketCovers, GrantsBounded
    <2> QED BY <2>1, <2>2, <2>3, <2>6 DEF BucketInv
<1>2. BucketInv /\ [BucketNext]_bucketVars => BucketInv'
    BY BucketKeeps
<1>3. BucketInv => BucketIsExact
    <2> SUFFICES ASSUME BucketInv
                 PROVE  BucketIsExact
        OBVIOUS
    <2>0. policy \in RatePolicy /\ bucket \in TokenBucketState
        BY DEF BucketInv, BucketCovers
    <2>1. RetryAtIsEarliest
        BY <2>0, RetryIsExact DEF BucketInv, RetryAtIsEarliest
    <2>2. PollingIsInvisible
        <3> SUFFICES ASSUME NEW t1 \in bucket.updated_at..BucketHorizon, NEW t2 \in t1..BucketHorizon
                     PROVE  refill_bucket(refill_bucket(bucket, policy, t1), policy, t2)
                                = refill_bucket(bucket, policy, t2)
            BY Zenon DEF PollingIsInvisible
        <3>1. bucket.updated_at \in Nat
            BY <2>0 DEF TokenBucketState
        <3>2. t1 \in Nat /\ t2 \in Nat /\ bucket.updated_at <= t1 /\ t1 <= t2
            BY <3>1, BucketAssumption
        <3> QED BY <2>0, <3>2, RefillTwice
    <2>3. WindowsStayWithinRate
        BY Zenon DEF BucketInv, GrantsBounded, WindowsStayWithinRate
    <2> QED BY <2>1, <2>2, <2>3 DEF BucketIsExact
<1> QED BY <1>1, <1>2, <1>3, PTL DEF BucketSpec

=============================================================================
