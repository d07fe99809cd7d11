-------------------------- MODULE StatisticsStore --------------------------
(***************************************************************************)
(* Match statistics: a finished game's public log becomes one observation  *)
(* per seat, sources are recorded once, and an aggregate is rebuilt from   *)
(* them source by source.  An identifier is a number with a length, since  *)
(* what is derived from it must fit the same limit.                        *)
(***************************************************************************)
EXTENDS Integers, Sequences, FiniteSets, SequencesExt, FiniteSetsExt

CONSTANTS
    Logs,          \* the event logs sources may carry, good and bad
    Metrics,       \* telemetry values: [availability, value]
    SourceIds,
    IdLength,      \* length of each source identifier
    IdLimit,       \* valid_id: the longest identifier
    SeatSuffix,    \* length of ":seat-1"
    CounterLimit,  \* u64::MAX
    Recorders      \* callers of the repository

ASSUME StatisticsAssumption ==
    /\ SourceIds \subseteq Nat /\ IsFiniteSet(SourceIds)
    /\ IdLimit \in Nat /\ SeatSuffix > 0 /\ CounterLimit \in Nat
    /\ \A log \in Logs : log \in Seq(ToSet(log)) /\ \A e \in ToSet(log) :
            e.seat \in {1, 2} /\ \A seat \in {1, 2} : e.result.scores[seat] \in Int
    /\ \A m \in Metrics : m.availability \in {"exact", "estimated", "unavailable"}

VARIABLES
    stSources,   \* recorded sources: identifier -> [log, metric]
    stRows,      \* statistics_observations: [source, seat, observation]
    stOps        \* per caller, the call under way

statisticsVars == <<stSources, stRows, stOps>>

StatSeats == {1, 2}
Other(seat) == 3 - seat
NoResult == [reason |-> "none", scores |-> <<0, 0>>, winner |-> 0]
Unavailable == [availability |-> "unavailable", value |-> 0]

-----------------------------------------------------------------------------
(* One game *)

event_result_is_consistent(e) ==
    CASE e.kind = "resigned" -> e.result.reason = "resignation"
      [] e.kind \in {"passed", "exchanged"} -> e.result.reason \in {"none", "scoreless"}
      [] e.kind = "played" -> e.result.reason \in {"none", "scoreless", "rack_emptied"}

\* The winner a result must name.
ExpectedWinner(e) ==
    LET s == e.result.scores IN
    CASE e.result.reason = "resignation" -> Other(e.seat)
      [] e.result.reason /= "resignation" /\ s[1] > s[2] -> 1
      [] e.result.reason /= "resignation" /\ s[1] < s[2] -> 2
      [] OTHER -> 0

\* MatchStatisticsInput::validate: one result, at the end of the log.
ValidLog(log) ==
    /\ log /= <<>>
    /\ \A i \in DOMAIN log :
        /\ event_result_is_consistent(log[i])
        /\ (log[i].result /= NoResult) = (i = Len(log))
    /\ Last(log).result.winner = ExpectedWinner(Last(log))

One(condition) == IF condition THEN 1 ELSE 0
CountOf(log, seat, kind) == Cardinality({ i \in DOMAIN log : log[i].kind = kind /\ log[i].seat = seat })

\* What the moves of a seat scored.
ScoreOfMoves(log, seat) ==
    FoldLeft(LAMBDA n, e : n + (IF e.kind = "played" /\ e.seat = seat THEN e.score ELSE 0), 0, log)

\* derive, for one seat.
Observation(id, source, seat) ==
    LET log == source.log
        result == Last(log).result
    IN [id_length |-> IdLength[id] + SeatSuffix, seat |-> seat, games |-> 1,
        wins |-> One(result.winner = seat), losses |-> One(result.winner = Other(seat)),
        ties |-> One(result.winner = 0),
        score_for |-> result.scores[seat], score_against |-> result.scores[Other(seat)],
        spread |-> result.scores[seat] - result.scores[Other(seat)],
        scoring_moves |-> CountOf(log, seat, "played"),
        move_score |-> ScoreOfMoves(log, seat),
        passes |-> CountOf(log, seat, "passed"), exchanges |-> CountOf(log, seat, "exchanged"),
        tokens |-> source.metric]

derive_observations(id, source) == [seat \in StatSeats |-> Observation(id, source, seat)]

\* insert_observation, for the two seats: a row carries its whole observation.
ObservationRows(id, source) ==
    { [source |-> id, seat |-> seat, observation |-> Observation(id, source, seat)] : seat \in StatSeats }

-----------------------------------------------------------------------------
(* Aggregation *)

TotalValue(metrics) == SumFunction([i \in DOMAIN metrics |-> metrics[i].value])

\* The metrics of the observations, by the observation's identity.
combine_metrics(metrics) ==
    IF DOMAIN metrics = {} \/ \E i \in DOMAIN metrics : metrics[i].availability = "unavailable"
    THEN Unavailable
    ELSE [value |-> TotalValue(metrics),
          availability |-> IF \E i \in DOMAIN metrics : metrics[i].availability = "estimated"
                           THEN "estimated" ELSE "exact"]

\* ratio: rounded to the nearest; -1 is None.
ratio(numerator, denominator, scale) ==
    IF denominator = 0 THEN -1 ELSE (numerator * scale + denominator \div 2) \div denominator

\* Mutant: only the sources of the other seat are selected.
MatchesBySeat(filter, o) == filter = 0 \/ filter /= o.seat

\* StatisticsFilter::matches; 0 selects both seats.
FilterMatches(filter, o) == filter \in {0, o.seat}

validate_observation(o) == o.id_length <= IdLimit /\ o.wins + o.losses + o.ties = 1

\* StatisticsAccumulator::add, for the observations of a source: those that
\* the filter selects, by source and seat.
AccumulatorWith(accumulated, filter, id, os) ==
    LET chosen == { <<id, seat>> : seat \in { s \in StatSeats : FilterMatches(filter, os[s]) } }
    IN [key \in DOMAIN accumulated \cup chosen |->
            IF key \in chosen THEN os[key[2]] ELSE accumulated[key]]

Total(field, os) == SumFunction([key \in DOMAIN os |-> os[key][field]])

\* aggregate_values; checked_add turns an overflow into an error.
aggregate_values(os) ==
    LET tokens == combine_metrics([key \in DOMAIN os |-> os[key].tokens])
        games == Total("games", os)
    IN [ok |-> tokens.value <= CounterLimit /\ Total("move_score", os) <= CounterLimit,
        games |-> games, wins |-> Total("wins", os), losses |-> Total("losses", os),
        ties |-> Total("ties", os), spread |-> Total("spread", os),
        win_rate |-> ratio(Total("wins", os), games, 100),
        average |-> ratio(Total("move_score", os), Total("scoring_moves", os), 10),
        tokens |-> tokens]

-----------------------------------------------------------------------------
(* The repository *)

NoSources == [x \in {} |-> 0]
StatIdle == [kind |-> "idle"]
StatDone(result) == [kind |-> "done", result |-> result]

\* load_source with validate_observation_rows: the rows are what the stored
\* source derives to now.
LoadsClean(id) == { r \in stRows : r.source = id } = ObservationRows(id, stSources[id])

\* record_source up to its transaction.
RecordLoad(c, id, source) ==
    /\ stOps[c] = StatIdle
    /\ stOps' = [stOps EXCEPT ![c] =
            IF IdLength[id] > IdLimit \/ ~ValidLog(source.log) THEN StatDone("invalid_input")
            ELSE IF id \notin DOMAIN stSources
            THEN [kind |-> "record", id |-> id, source |-> source]
            ELSE IF ~LoadsClean(id) THEN StatDone("corrupt")
            ELSE IF stSources[id] = source
            THEN [kind |-> "done", result |-> "already_applied", id |-> id, source |-> source]
            ELSE StatDone("conflict")]
    /\ UNCHANGED <<stSources, stRows>>

\* The transaction: source and observations; the key is unique.
RecordTransaction(c) ==
    LET op == stOps[c] IN
    /\ op.kind = "record"
    /\ \/ /\ op.id \in DOMAIN stSources
          /\ stOps' = [stOps EXCEPT ![c] = StatDone("conflict")] /\ UNCHANGED <<stSources, stRows>>
       \/ /\ op.id \notin DOMAIN stSources
          /\ stSources' = [id \in DOMAIN stSources \cup {op.id} |->
                IF id = op.id THEN op.source ELSE stSources[id]]
          /\ stRows' = stRows \cup ObservationRows(op.id, op.source)
          /\ stOps' = [stOps EXCEPT ![c] = [kind |-> "done", result |-> "applied", id |-> op.id,
                                            source |-> op.source]]

\* rebuild: the identifiers first, in order, then each source by itself.
RebuildList(c, filter) ==
    /\ stOps[c] = StatIdle
    /\ stOps' = [stOps EXCEPT ![c] =
            [kind |-> "rebuild", filter |-> filter, listed |-> DOMAIN stSources,
             left |-> DOMAIN stSources, observations |-> NoSources]]
    /\ UNCHANGED <<stSources, stRows>>

RebuildLoad(c) ==
    LET op == stOps[c]
        id == Min(op.left)
        os == derive_observations(id, stSources[id])
    IN /\ op.kind = "rebuild" /\ op.left /= {}
       /\ stOps' = [stOps EXCEPT ![c] =
            IF LoadsClean(id) /\ \A seat \in StatSeats : validate_observation(os[seat])
            THEN [kind |-> "rebuild", filter |-> op.filter, listed |-> op.listed, left |-> op.left \ {id},
                  observations |-> AccumulatorWith(op.observations, op.filter, id, os)]
            ELSE StatDone("corrupt")]
       /\ UNCHANGED <<stSources, stRows>>

\* public and operator; an overflow is reported as corruption.
RebuildAnswer(c) ==
    LET op == stOps[c]
        aggregate == aggregate_values(op.observations)
    IN /\ op.kind = "rebuild" /\ op.left = {}
       /\ stOps' = [stOps EXCEPT ![c] =
            IF aggregate.ok
            THEN [kind |-> "done", result |-> "rebuilt", filter |-> op.filter,
                  listed |-> op.listed, aggregate |-> aggregate]
            ELSE StatDone("overflow")]
       /\ UNCHANGED <<stSources, stRows>>

StatReturn(c) ==
    /\ stOps[c].kind = "done"
    /\ stOps' = [stOps EXCEPT ![c] = StatIdle] /\ UNCHANGED <<stSources, stRows>>

StatisticsInit == stSources = NoSources /\ stRows = {} /\ stOps = [c \in Recorders |-> StatIdle]

StatisticsNext ==
    \E c \in Recorders :
        \/ \E id \in SourceIds, log \in Logs, metric \in Metrics :
                RecordLoad(c, id, [log |-> log, metric |-> metric])
        \/ RecordTransaction(c)
        \/ \E filter \in {0} \cup StatSeats : RebuildList(c, filter)
        \/ RebuildLoad(c) \/ RebuildAnswer(c) \/ StatReturn(c)

StatisticsSpec == StatisticsInit /\ [][StatisticsNext]_statisticsVars

-----------------------------------------------------------------------------
\* Sources carry logs that passed validation.
StatisticsTypeOK ==
    /\ DOMAIN stSources \subseteq SourceIds /\ { r.source : r \in stRows } = DOMAIN stSources
    /\ \A id \in DOMAIN stSources : ValidLog(stSources[id].log) /\ stSources[id].metric \in Metrics
    /\ \A c \in Recorders : stOps[c].kind \in {"idle", "record", "rebuild", "done"}

\* A caller told that its source is recorded finds that very source there,
\* also when another caller recorded under the same identifier meanwhile.
RecordedIsKept ==
    \A c \in Recorders :
        (stOps[c].kind = "done" /\ stOps[c].result \in {"applied", "already_applied"}) =>
            stOps[c].id \in DOMAIN stSources /\ stSources[stOps[c].id] = stOps[c].source

Winners(ids) == { id \in ids : Last(stSources[id].log).result.winner /= 0 }

\* A rebuild that answers counts every source listed at its start exactly
\* once per selected seat, whatever is recorded while it reads; wins and
\* losses of the two seats cancel out, ties are neither.
RebuildCountsTheListing ==
    \A c \in Recorders : (stOps[c].kind = "done" /\ stOps[c].result = "rebuilt") =>
        LET a == stOps[c].aggregate
            sources == stOps[c].listed
            seats == IF stOps[c].filter = 0 THEN 2 ELSE 1
        IN /\ a.games = seats * Cardinality(sources)
           /\ a.wins + a.losses + a.ties = a.games
           /\ a.ties = seats * Cardinality(sources \ Winners(sources))
           /\ seats = 2 => a.spread = 0 /\ a.wins = a.losses
           /\ seats = 1 => a.wins = Cardinality({ id \in sources :
                                Last(stSources[id].log).result.winner = stOps[c].filter })

\* A total is presented as exact only if every selected game has an exact
\* value, and is absent as soon as one game has none.
PartialIsNotTotal ==
    \A c \in Recorders : (stOps[c].kind = "done" /\ stOps[c].result = "rebuilt") =>
        LET known == { stSources[id].metric.availability : id \in stOps[c].listed }
            shown == stOps[c].aggregate.tokens.availability
        IN /\ shown = "exact" => known = {"exact"}
           /\ shown = "unavailable" => stOps[c].listed = {} \/ "unavailable" \in known
           /\ shown = "estimated" => "unavailable" \notin known

\* What was accepted can be read back: a rebuild of a store that nobody
\* tampered with never reports corrupt history.  A source whose identifier
\* leaves no room for the seat suffix is accepted and breaks it.
AcceptedIsReadable ==
    \A c \in Recorders : stOps[c].kind = "done" => stOps[c].result /= "corrupt"

\* Recorded sources stay, a rebuild counts what it listed once, and a partial
\* sum is not shown as a total.
StatisticsSafety ==
    StatisticsTypeOK /\ RecordedIsKept /\ RebuildCountsTheListing /\ PartialIsNotTotal
=============================================================================
