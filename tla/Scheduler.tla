----------------------------- MODULE Scheduler -----------------------------
(***************************************************************************)
(* Scheduling controls and worker recovery: the tables of migration 10 and *)
(* the transactions of SqliteSchedulerRepository on them.  Callers are any *)
(* number of supervisors and workers; each call carries a `now` sampled    *)
(* before it waits for the database, so it may be up to MaxDelay older     *)
(* than the `now` of calls that committed before it.                       *)
(*                                                                         *)
(* A transaction is one action; a call that answers an error rolls back    *)
(* and is no action.  Renew, release and publish are called by whoever     *)
(* holds the ExecutionReservation: the worker, a late worker whose lease   *)
(* has run out, or a supervisor that got it from reconstruct.              *)
(***************************************************************************)
EXTENDS TokenBucket, FiniteSets, Sequences

CONSTANTS
    Requests,         \* the ReservationRequests that workers may make
    Results,          \* the TerminalMatchResults that workers may publish
    Configurations,   \* the limits that operators may configure, by scope key
    NoRow,            \* a row that does not exist, and SQL NULL
    MaxDelay,         \* how stale the `now` of a call can be
    ConfigureUntil,   \* bound on the times at which limits are configured
    ControlUntil,     \* bound on the times at which controls are set
    RenewUntil,       \* bound on the times at which reservations are renewed
    Horizon           \* bound on the clock

VARIABLES
    clock,         \* the injected Unix-millisecond clock
    limits,        \* scheduler_limits and its policies, by scope key
    buckets,       \* scheduler_buckets, by scope key
    controls,      \* tournament_worker_controls
    reservations,  \* execution_reservations and execution_reservation_scopes
    terminal,      \* terminal_match_results, by match
    grants         \* history: when tokens were taken since the configuration

vars == <<clock, limits, buckets, controls, reservations, terminal, grants>>

-----------------------------------------------------------------------------
(* Data *)

ReservationIds == {q.id : q \in Requests}
Tournaments == {q.tournament : q \in Requests}
Matches == {q.match : q \in Requests}
Durations == {q.duration : q \in Requests}

\* SchedulerScope::key of the four scopes of a request, in the order of
\* ReservationRequest::scopes.
scopes(q) == <<<<"global", 0>>, <<"tournament", q.tournament>>,
               <<"harness", q.harness>>, <<"provider", q.provider>>>>
ScopeKeys(q) == {scopes(q)[i] : i \in 1..4}
Scopes == UNION {ScopeKeys(q) : q \in Requests}

\* SchedulingLimit: a ceiling and a RatePolicy, or NoRow for no rate.
SchedulingLimit == [max_concurrency: Nat \ {0}, rate: RatePolicy \cup {NoRow}]

Controls == {"running", "paused", "draining", "cancelled"}
LiveStatus == {"active", "cancel_requested"}
Status == LiveStatus \cup {"released", "expired", "completed"}

ControlRow == [control: Controls, updated: Nat]
TerminalRow == [result: Results, reservation: ReservationIds]
Reservation == [request: Requests, status: Status, acquired: Nat, expires: Nat]

ASSUME SchedulerAssumption ==
    /\ Requests \subseteq [id: Nat, tournament: Nat, match: Nat, harness: Nat,
                           provider: Nat, inputs: Nat, owner: Nat,
                           duration: Nat \ {0}]
    /\ IsFiniteSet(Requests)
    /\ Results \subseteq [match: Matches, inputs: Nat, sha: Nat, charge: Nat,
                          telemetry: Nat, rating: Nat]
    /\ \A c \in Configurations :
           DOMAIN c \subseteq Scopes /\ \A s \in DOMAIN c : c[s] \in SchedulingLimit
    /\ NoRow \notin SchedulingLimit \cup RatePolicy \cup TokenBucketState
                    \cup ControlRow \cup Reservation \cup TerminalRow
    /\ MaxDelay \in Nat
    /\ ConfigureUntil \in Nat
    /\ ControlUntil \in Nat
    /\ RenewUntil \in Nat
    /\ Horizon \in Nat

\* The values a call that commits now may have sampled as its `now`.
Sampled == {t \in 0..clock : t + MaxDelay >= clock}

Present(i) == reservations[i] # NoRow
LiveRow(row) == row # NoRow /\ row.status \in LiveStatus

-----------------------------------------------------------------------------
(* Steps of the transactions *)

\* Mutant: only active reservations are swept, not cancelled ones.
ExpireActiveOnly(now) ==
    [i \in ReservationIds |->
        IF /\ reservations[i] # NoRow
           /\ reservations[i].status = "active"
           /\ reservations[i].expires <= now
        THEN [reservations[i] EXCEPT !.status = "expired"]
        ELSE reservations[i]]

\* The reservation table after expire_reservations.
expire_reservations(now) ==
    [i \in ReservationIds |->
        IF LiveRow(reservations[i]) /\ reservations[i].expires <= now
        THEN [reservations[i] EXCEPT !.status = "expired"]
        ELSE reservations[i]]

active_count(rows, s) ==
    Cardinality({i \in ReservationIds :
        LiveRow(rows[i]) /\ s \in ScopeKeys(rows[i].request)})

load_control(t) == IF controls[t] = NoRow THEN "running" ELSE controls[t].control

\* The inputs of the reservation of the match that was acquired first,
\* whatever became of it (several when they were acquired at the same time).
PriorInputs(q) ==
    LET rows == {i \in ReservationIds : /\ Present(i)
                                        /\ reservations[i].request.match = q.match}
        first == {i \in rows : \A k \in rows :
                      reservations[i].acquired <= reservations[k].acquired}
    IN {reservations[i].request.inputs : i \in first}

RepeatsInputs(q) == PriorInputs(q) = {} \/ q.inputs \in PriorInputs(q)

Rated(s) == limits[s] # NoRow /\ limits[s].rate # NoRow

\* What the loop over the scopes finds at one scope, in the order of its tests.
ScopeVerdict(rows, s, now) ==
    IF limits[s] = NoRow THEN "corrupt"
    ELSE IF active_count(rows, s) >= limits[s].max_concurrency THEN "full"
    ELSE IF Rated(s) /\ ~Refillable(buckets[s], now) THEN "corrupt"
    ELSE "open"

\* The verdict of the loop: the first scope that ends it decides.
LoopVerdict(rows, q, now) ==
    LET v == [i \in 1..4 |-> ScopeVerdict(rows, scopes(q)[i], now)]
        stops == {i \in 1..4 : v[i] # "open"}
    IN IF stops = {} THEN "open"
       ELSE v[CHOOSE i \in stops : \A k \in stops : i <= k]

\* The bucket of a scope of the request after the refill of this acquisition.
Refilled(s, now) == refill_bucket(buckets[s], limits[s].rate, now)

OutOfTokens(q, now) ==
    \E s \in ScopeKeys(q) : Rated(s) /\ Refilled(s, now).tokens = 0

\* persist_buckets, after `taken` tokens were taken from every rated scope.
persist_buckets(q, now, taken) ==
    [s \in Scopes |-> IF s \in ScopeKeys(q) /\ Rated(s)
                      THEN [Refilled(s, now) EXCEPT !.tokens = @ - taken]
                      ELSE buckets[s]]

\* History: the grant, at the scopes where it cost a token.
Granted(q, now) ==
    [s \in Scopes |-> IF s \in ScopeKeys(q) /\ Rated(s)
                      THEN Append(grants[s], now) ELSE grants[s]]

-----------------------------------------------------------------------------
(* configure_limits *)

\* Mutant: limits may change under live reservations.
ConfigureUnderLoad(c) ==
    \E now \in Sampled :
        /\ now <= ConfigureUntil
        /\ limits' = [s \in Scopes |-> IF s \in DOMAIN c THEN c[s] ELSE limits[s]]
        /\ buckets' = [s \in Scopes |->
              IF s \notin DOMAIN c THEN buckets[s]
              ELSE IF c[s].rate = NoRow THEN NoRow ELSE FullBucket(c[s].rate, now)]
        /\ grants' = [s \in Scopes |-> IF s \in DOMAIN c THEN <<>> ELSE grants[s]]
        /\ UNCHANGED <<clock, controls, reservations, terminal>>

\* All scopes of the call or none.  Live reservations that have run out but
\* were not swept still count.
configure_limits(c) ==
    \E now \in Sampled :
        /\ now <= ConfigureUntil
        /\ DOMAIN c # {}
        /\ \A s \in DOMAIN c : active_count(reservations, s) = 0
        /\ limits' = [s \in Scopes |-> IF s \in DOMAIN c THEN c[s] ELSE limits[s]]
        /\ buckets' = [s \in Scopes |->
              IF s \notin DOMAIN c THEN buckets[s]
              ELSE IF c[s].rate = NoRow THEN NoRow ELSE FullBucket(c[s].rate, now)]
        /\ grants' = [s \in Scopes |-> IF s \in DOMAIN c THEN <<>> ELSE grants[s]]
        /\ UNCHANGED <<clock, controls, reservations, terminal>>

-----------------------------------------------------------------------------
(* control *)

\* The CHECK (updated_at_ms >= acquired_at_ms) refuses a cancellation whose
\* `now` is older than a reservation it would signal.
control(t, next) ==
    LET signalled == IF next # "cancelled" THEN {}
                     ELSE {i \in ReservationIds :
                              /\ Present(i)
                              /\ reservations[i].status = "active"
                              /\ reservations[i].request.tournament = t}
    IN \E now \in Sampled :
        /\ now <= ControlUntil
        /\ controls[t] # NoRow =>
              controls[t].control # "cancelled" /\ controls[t].updated <= now
        /\ \A i \in signalled : reservations[i].acquired <= now
        /\ controls' = [controls EXCEPT ![t] = [control |-> next, updated |-> now]]
        /\ reservations' =
              [i \in ReservationIds |->
                  IF i \in signalled
                  THEN [reservations[i] EXCEPT !.status = "cancel_requested"]
                  ELSE reservations[i]]
        /\ UNCHANGED <<clock, limits, buckets, terminal, grants>>

-----------------------------------------------------------------------------
(* acquire_reservation: one action per way to commit *)

\* The answers that commit nothing but the sweep: AlreadyFinished; Paused,
\* Draining and Cancelled; Limited by a ceiling.
AcquireRefused(q) ==
    \E now \in Sampled :
        LET rows == expire_reservations(now)
        IN /\ \/ terminal[q.match] # NoRow /\ terminal[q.match].result.inputs = q.inputs
              \/ /\ terminal[q.match] = NoRow
                 /\ RepeatsInputs(q)
                 /\ \/ load_control(q.tournament) # "running"
                    \/ LoopVerdict(rows, q, now) = "full"
           /\ reservations' = rows
           /\ UNCHANGED <<clock, limits, buckets, controls, terminal, grants>>

\* The acquisition gets past every check but the tokens.
Admissible(q, rows, now) ==
    /\ terminal[q.match] = NoRow
    /\ RepeatsInputs(q)
    /\ load_control(q.tournament) = "running"
    /\ LoopVerdict(rows, q, now) = "open"

\* Limited { retry_at }: the refilled buckets are persisted, no token is taken.
AcquireThrottled(q) ==
    \E now \in Sampled :
        LET rows == expire_reservations(now)
        IN /\ Admissible(q, rows, now)
           /\ OutOfTokens(q, now)
           /\ reservations' = rows
           /\ buckets' = persist_buckets(q, now, 0)
           /\ UNCHANGED <<clock, limits, controls, terminal, grants>>

\* The row of insert_reservation.  Its primary key and the unique index on the
\* match of live rows answer Conflict.
NewReservation(q, now) ==
    [request |-> q, status |-> "active", acquired |-> now,
     expires |-> now + q.duration]

LiveMatch(rows, m) ==
    \E i \in ReservationIds : LiveRow(rows[i]) /\ rows[i].request.match = m

\* Mutant: the unique index on live matches is missing.
AcquireTwice(q) ==
    \E now \in Sampled :
        LET rows == expire_reservations(now)
        IN /\ Admissible(q, rows, now)
           /\ ~OutOfTokens(q, now)
           /\ ~Present(q.id)
           /\ reservations' = [rows EXCEPT ![q.id] = NewReservation(q, now)]
           /\ buckets' = persist_buckets(q, now, 1)
           /\ grants' = Granted(q, now)
           /\ UNCHANGED <<clock, limits, controls, terminal>>

\* Acquired: one token of every rated scope, and the reservation.
AcquireGranted(q) ==
    \E now \in Sampled :
        LET rows == expire_reservations(now)
        IN /\ Admissible(q, rows, now)
           /\ ~OutOfTokens(q, now)
           /\ ~Present(q.id)
           /\ ~LiveMatch(rows, q.match)
           /\ reservations' = [rows EXCEPT ![q.id] = NewReservation(q, now)]
           /\ buckets' = persist_buckets(q, now, 1)
           /\ grants' = Granted(q, now)
           /\ UNCHANGED <<clock, limits, controls, terminal>>

acquire_reservation(q) == AcquireRefused(q) \/ AcquireThrottled(q) \/ AcquireGranted(q)

-----------------------------------------------------------------------------
(* renew_reservation, release_reservation, commit_result, recovery *)

\* The WHERE clause that the three share: the row of the reservation that the
\* caller holds.
Held(q) ==
    /\ Present(q.id)
    /\ reservations[q.id].request.owner = q.owner
    /\ reservations[q.id].request.inputs = q.inputs

SetStatus(i, status) == [reservations EXCEPT ![i] = [@ EXCEPT !.status = status]]

\* The caller chooses the new duration.
renew_reservation(q) ==
    \E now \in Sampled, duration \in Durations :
        /\ now <= RenewUntil
        /\ Held(q)
        /\ reservations[q.id].status = "active"
        /\ now < reservations[q.id].expires
        /\ reservations[q.id].expires < now + duration
        /\ reservations[q.id].acquired <= now
        /\ reservations' = [reservations EXCEPT ![q.id] =
                               [@ EXCEPT !.expires = now + duration]]
        /\ UNCHANGED <<clock, limits, buckets, controls, terminal, grants>>

\* The expiry is not consulted: capacity is given back even late.
release_reservation(q) ==
    \E now \in Sampled :
        /\ Held(q)
        /\ LiveRow(reservations[q.id])
        /\ reservations[q.id].acquired <= now
        /\ reservations' = SetStatus(q.id, "released")
        /\ UNCHANGED <<clock, limits, buckets, controls, terminal, grants>>

\* The UNIQUE downstream keys and reservation_id of terminal_match_results.
FreshKeys(x, i) ==
    \A m \in Matches : terminal[m] # NoRow =>
        /\ terminal[m].result.charge # x.charge
        /\ terminal[m].result.telemetry # x.telemetry
        /\ terminal[m].result.rating # x.rating
        /\ terminal[m].reservation # i

\* A repeated publication answers AlreadyApplied or Conflict and changes nothing.
commit_result(q, x) ==
    \E now \in Sampled :
        /\ x.match = q.match
        /\ x.inputs = q.inputs
        /\ terminal[x.match] = NoRow
        /\ Held(q)
        /\ reservations[q.id].status = "active"
        /\ reservations[q.id].request.match = x.match
        /\ now < reservations[q.id].expires
        /\ reservations[q.id].acquired <= now
        /\ FreshKeys(x, q.id)
        /\ reservations' = SetStatus(q.id, "completed")
        /\ terminal' = [terminal EXCEPT ![x.match] = [result |-> x, reservation |-> q.id]]
        /\ UNCHANGED <<clock, limits, buckets, controls, grants>>

recovery ==
    \E now \in Sampled :
        /\ reservations' = expire_reservations(now)
        /\ UNCHANGED <<clock, limits, buckets, controls, terminal, grants>>

-----------------------------------------------------------------------------
(* Specification *)

Tick ==
    /\ clock < Horizon
    /\ clock' = clock + 1
    /\ UNCHANGED <<limits, buckets, controls, reservations, terminal, grants>>

Init ==
    /\ clock = 0
    /\ limits = [s \in Scopes |-> NoRow]
    /\ buckets = [s \in Scopes |-> NoRow]
    /\ controls = [t \in Tournaments |-> NoRow]
    /\ reservations = [i \in ReservationIds |-> NoRow]
    /\ terminal = [m \in Matches |-> NoRow]
    /\ grants = [s \in Scopes |-> <<>>]

Next ==
    \/ Tick
    \/ recovery
    \/ \E c \in Configurations : configure_limits(c)
    \/ \E t \in Tournaments, next \in Controls : control(t, next)
    \/ \E q \in Requests :
          \/ acquire_reservation(q)
          \/ renew_reservation(q)
          \/ release_reservation(q)
          \/ \E x \in Results : commit_result(q, x)

Spec == Init /\ [][Next]_vars

\* Time passes, and some supervisor keeps calling reconstruct, or acquire,
\* which sweeps the same way.  Nothing else is assumed: workers may die.
Fairness == WF_vars(Tick) /\ WF_vars(recovery)

LiveSpec == Spec /\ Fairness

-----------------------------------------------------------------------------
(* Properties *)

TypeOK ==
    /\ clock \in 0..Horizon
    /\ limits \in [Scopes -> SchedulingLimit \cup {NoRow}]
    /\ buckets \in [Scopes -> TokenBucketState \cup {NoRow}]
    /\ controls \in [Tournaments -> ControlRow \cup {NoRow}]
    /\ reservations \in [ReservationIds -> Reservation \cup {NoRow}]
    /\ terminal \in [Matches -> TerminalRow \cup {NoRow}]
    /\ grants \in [Scopes -> Seq(Nat)]

\* No scope ever has more live reservations than its ceiling, whatever the
\* order of acquisitions, cancellations, sweeps and reconfigurations: the count
\* in acquire_reservation and the refusal in configure_limits suffice.
ConcurrencyBounded ==
    \A s \in Scopes :
        LET live == {i \in ReservationIds :
                        /\ LiveRow(reservations[i])
                        /\ s \in ScopeKeys(reservations[i].request)}
        IN /\ limits[s] = NoRow => live = {}
           /\ limits[s] # NoRow => Cardinality(live) <= limits[s].max_concurrency

\* Over any window, the acquisitions charged to a rated scope stay within its
\* burst capacity plus what the window refills, although callers bring stale
\* times and throttled callers poll the bucket.
RateBounded ==
    \A s \in Scopes : Rated(s) =>
        \A i, j \in DOMAIN grants[s] : i <= j =>
            (j - i + 1) * limits[s].rate.refill_interval_ms
                <= limits[s].rate.capacity * limits[s].rate.refill_interval_ms
                   + (grants[s][j] - grants[s][i]) * limits[s].rate.refill_tokens

\* A match is executed by one worker at a time, from one set of inputs in all
\* its retries, and never again once its result is published; the published
\* result is the one of the only reservation that completed.
MatchIsConsistent ==
    \A m \in Matches :
        LET rows == {i \in ReservationIds : /\ Present(i)
                                            /\ reservations[i].request.match = m}
            live == {i \in rows : reservations[i].status \in LiveStatus}
            completed == {i \in rows : reservations[i].status = "completed"}
        IN /\ \A i, k \in rows :
                  reservations[i].request.inputs = reservations[k].request.inputs
           /\ \A i, k \in live : i = k
           /\ terminal[m] = NoRow => completed = {}
           /\ terminal[m] # NoRow =>
                 /\ live = {}
                 /\ completed = {terminal[m].reservation}
                 /\ terminal[m].result.match = m
                 /\ terminal[m].result.inputs
                       = reservations[terminal[m].reservation].request.inputs

\* A cancelled tournament has no reservation that could still renew or
\* publish: all its live ones carry the cancellation signal.
CancelledTournamentIsSignalled ==
    \A i \in ReservationIds :
        Present(i) /\ reservations[i].status = "active"
            => load_control(reservations[i].request.tournament) # "cancelled"

\* Cancelling is final: from then on no reservation of the tournament appears,
\* extends or publishes, and the control never changes again.
CancelledStaysCancelled ==
    [][\A t \in Tournaments : load_control(t) = "cancelled" =>
          /\ controls'[t] = controls[t]
          /\ \A i \in ReservationIds :
                reservations'[i] # NoRow /\ reservations'[i].request.tournament = t =>
                   /\ Present(i)
                   /\ reservations'[i].expires = reservations[i].expires
                   /\ reservations'[i].status = "completed"
                         => reservations[i].status = "completed"]_vars

\* Published results are immutable, and a reservation that has ended stays as
\* it ended: a late worker can neither revive nor re-label it.
EndedIsFinal ==
    [][/\ \A m \in Matches : terminal[m] # NoRow => terminal'[m] = terminal[m]
       /\ \A i \in ReservationIds :
             Present(i) /\ ~LiveRow(reservations[i])
                 => reservations'[i] = reservations[i]]_vars

\* The capacity of a worker that died comes back: every live reservation ends,
\* cancelled ones included, once nobody renews it (RenewUntil bounds renewals,
\* and the clock must be able to reach the expiry).
CapacityReturns ==
    \A i \in ReservationIds :
        LiveRow(reservations[i]) /\ reservations[i].expires <= Horizon
            ~> ~LiveRow(reservations[i])

\* Ceilings and rates hold at all times: over reconfiguration, expiry, late
\* callers and clocks that run back.
LimitsHold == TypeOK /\ ConcurrencyBounded /\ RateBounded

\* A match runs once and publishes once, workers of a cancelled tournament are
\* told, and neither a cancellation nor a result is ever taken back.
SchedulerSafety ==
    [](MatchIsConsistent /\ CancelledTournamentIsSignalled) /\ CancelledStaysCancelled /\ EndedIsFinal
=============================================================================
