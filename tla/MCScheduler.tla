---------------------------- MODULE MCScheduler ----------------------------
(* Small instances of Scheduler. *)
EXTENDS Scheduler

Request(id, tournament, match, inputs, owner) ==
    [id |-> id, tournament |-> tournament, match |-> match, harness |-> 1,
     provider |-> 1, inputs |-> inputs, owner |-> owner, duration |-> 2]

Result(match, inputs, sha, key) ==
    [match |-> match, inputs |-> inputs, sha |-> sha, charge |-> key,
     telemetry |-> key, rating |-> key]

Limit(max, rate) == [max_concurrency |-> max, rate |-> rate]
Rate(capacity, refill, interval) ==
    [capacity |-> capacity, refill_tokens |-> refill, refill_interval_ms |-> interval]

\* A match, its retry by another worker, an attempt with other inputs, and a
\* second match of the tournament.
MCRequests == {Request(1, 1, 1, 1, 1), Request(2, 1, 1, 1, 2),
               Request(3, 1, 1, 2, 1), Request(4, 1, 2, 1, 1)}
\* Two outcomes of the first match; the second match reuses a key of one.
MCResults == {Result(1, 1, 1, 1), Result(1, 1, 2, 2), Result(2, 1, 3, 2)}

MCScopes == {<<"global", 0>>, <<"tournament", 1>>, <<"harness", 1>>, <<"provider", 1>>}

\* Two at a time everywhere, a provider that refills two tokens in three
\* milliseconds, a global bucket of one token per millisecond; then one at a
\* time at the harness.
Throttled == [s \in MCScopes |->
    Limit(2, CASE s = <<"provider", 1>> -> Rate(2, 2, 3)
               [] s = <<"global", 0>> -> Rate(1, 1, 1)
               [] OTHER -> NoRow)]
Narrow == [s \in {<<"harness", 1>>} |-> Limit(1, NoRow)]
MCConfigurations == {Throttled, Narrow}
=============================================================================
