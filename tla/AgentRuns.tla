---------------------------- MODULE AgentRuns ----------------------------
(***************************************************************************)
(* The attribution of agent runs: SqliteAgentAttributionRepository with    *)
(* its tables, and RunTelemetryArchive, the sanitised record of a run.     *)
(* Each method is one transaction; its callers choose the arguments, and   *)
(* a retry or a stale caller may choose them wrongly.                      *)
(*                                                                         *)
(* A JSON value is one path through it: the containers from the outside in *)
(* and the leaf.  The sanitiser and the validator treat siblings alike.    *)
(***************************************************************************)
EXTENDS Naturals, Sequences, FiniteSets, SequencesExt

CONSTANTS
    RunIds, NoRow,
    Manifests,    \* content-addressed: the digest stands for the bytes
    GameSeats,    \* pairs <<game_id, seat_number>> that exist
    HumanSeat,    \* a seat of them that was created for a human
    RunOutcomes,  \* of "finished", "failed", "cancelled": no check tells them apart
    LastTime,     \* bound: timestamps are 0..LastTime
    JsonDepth,    \* 32, the depth the sanitiser cuts at
    MaxArchived   \* bound: MAX_TELEMETRY_TURNS and its siblings

Times == 0..LastTime
Never == LastTime + 1          \* retention "retain"

VARIABLES
    manifestRows,  \* agent_manifests
    seatRun,       \* seats.participant_kind and participant_id
    runRows,       \* agent_runs
    resultRows,    \* agent_run_results
    budgetRows,    \* agent_run_budget_telemetry: recorded_at
    archiveRows,   \* agent_run_telemetry
    replayRows,    \* game_replay_agents
    toolJson       \* the arguments of a tool call in the telemetry to archive

runVars ==
    <<manifestRows, seatRun, runRows, resultRows, budgetRows, archiveRows, replayRows, toolJson>>

RunRow == [seat: GameSeats, manifest: Manifests, created: Times,
           status: {"pending"} \cup RunOutcomes]
ResultRow == [manifest: Manifests, outcome: RunOutcomes, completed: Times]

ASSUME RunsAssumption ==
    /\ NoRow \notin RunRow /\ NoRow \notin ResultRow /\ "pending" \notin RunOutcomes
    /\ LastTime \in Nat /\ JsonDepth \in Nat \ {0} /\ MaxArchived \in Nat

Exists(table, r) == table[r] /= NoRow

-----------------------------------------------------------------------------
(* The sanitiser of tool arguments and results *)

Containers == {"array", "key", "sensitive"}
Leaves == {"null", "number", "text", "dirty_text", "long_text"}
JsonValues ==
    { Append(path, leaf) : path \in BoundedSeq(Containers, JsonDepth + 1), leaf \in Leaves }

sanitize_text(leaf) ==
    CASE leaf = "dirty_text" -> "text"
      [] leaf = "long_text" -> "truncated"
      [] OTHER -> leaf

\* Both functions go down a value, at depth i - 1 at position i of the path,
\* until one of their cases but the last applies: below the depth limit, at a
\* leaf, or at a sensitive key whose value is not null.
Stops(value, i) ==
    \/ i > JsonDepth
    \/ i = Len(value)
    \/ value[i] = "sensitive" /\ value[i + 1] /= "null"

StopOf(value) ==
    CHOOSE i \in 1..Len(value) : Stops(value, i) /\ \A j \in 1..i - 1 : ~Stops(value, j)

\* sanitize_json_at_depth: what it passed on the way down is kept.
sanitize_json(value) ==
    LET i == StopOf(value) IN
    SubSeq(value, 1, i - 1) \o
        (IF i > JsonDepth THEN <<"truncated">>
         ELSE IF i = Len(value) THEN <<sanitize_text(value[i])>>
         ELSE <<"sensitive", "redacted">>)

is_sanitized_json(value) ==
    LET i == StopOf(value) IN
    IF i > JsonDepth THEN value[i] = "truncated"
    ELSE IF i = Len(value) THEN value[i] \notin {"dirty_text", "long_text"}
    ELSE value[i + 1] = "redacted"

\* The one value the two disagree on: a sensitive key whose null is cut.
NullAtTheCut(value) ==
    /\ Len(value) > JsonDepth
    /\ value[JsonDepth] = "sensitive" /\ value[JsonDepth + 1] = "null"
    /\ \A i \in 1..JsonDepth - 1 : value[i] /= "sensitive"

-----------------------------------------------------------------------------
(* RunTelemetryArchive::capture *)

\* The driver's telemetry: turns as [started, completed] pairs, the sequence
\* numbers of its lifecycle events, and the JSON of one tool call.
capture(run, manifest, seat, at, expires, turns, lifecycle, json) ==
    [run |-> run, manifest |-> manifest, seat |-> seat, captured |-> at, expires |-> expires,
     turns |-> SubSeq(turns, 1, IF Len(turns) > MaxArchived THEN MaxArchived ELSE Len(turns)),
     lifecycle |-> SubSeq(lifecycle, 1,
                          IF Len(lifecycle) > MaxArchived THEN MaxArchived ELSE Len(lifecycle)),
     json |-> sanitize_json(json)]

\* The checks capture makes of the driver before it converts anything.
DriverIsOrdered(turns, lifecycle) ==
    /\ \A i \in DOMAIN lifecycle : lifecycle[i] = i - 1
    /\ \A i \in DOMAIN turns : turns[i].completed >= turns[i].started

\* validate: what is demanded of an archive, new or loaded.
ValidArchive(a) ==
    /\ a.expires >= a.captured
    /\ Len(a.turns) <= MaxArchived /\ Len(a.lifecycle) <= MaxArchived
    /\ \A i \in DOMAIN a.lifecycle : a.lifecycle[i] = i - 1
    /\ \A i \in DOMAIN a.turns : a.turns[i].completed >= a.turns[i].started
    /\ is_sanitized_json(a.json)

-----------------------------------------------------------------------------
(* The repository *)

RunsInit ==
    /\ manifestRows = {}
    /\ seatRun = [s \in GameSeats |-> IF s = HumanSeat THEN "human" ELSE "unassigned"]
    /\ runRows = [r \in RunIds |-> NoRow] /\ resultRows = [r \in RunIds |-> NoRow]
    /\ budgetRows = [r \in RunIds |-> NoRow] /\ archiveRows = [r \in RunIds |-> NoRow]
    /\ replayRows = {} /\ toolJson \in JsonValues

\* The seat UPDATE of create_run finds its row.
Assignable(r, s) == seatRun[s] \in {"unassigned", r}

\* The manifest, the seat and the pending run: all or nothing.  The primary
\* key and UNIQUE (game_id, seat_number) refuse the insertion.
create_run(r, s, m, t) ==
    /\ Assignable(r, s) /\ ~Exists(runRows, r)
    /\ \A other \in RunIds : Exists(runRows, other) => runRows[other].seat /= s
    /\ manifestRows' = manifestRows \cup {m}
    /\ seatRun' = [seatRun EXCEPT ![s] = r]
    /\ runRows' = [runRows EXCEPT
            ![r] = [seat |-> s, manifest |-> m, created |-> t, status |-> "pending"]]
    /\ UNCHANGED <<resultRows, budgetRows, archiveRows, replayRows>>

record_result(r, m, outcome, t) ==
    /\ Exists(runRows, r) /\ runRows[r].manifest = m
    /\ runRows[r].status = "pending" /\ runRows[r].created <= t
    /\ runRows' = [runRows EXCEPT ![r].status = outcome]
    /\ resultRows' = [resultRows EXCEPT
            ![r] = [manifest |-> m, outcome |-> outcome, completed |-> t]]
    /\ UNCHANGED <<manifestRows, seatRun, budgetRows, archiveRows, replayRows>>

Completed(r, m, t) ==
    Exists(resultRows, r) /\ resultRows[r].manifest = m /\ resultRows[r].completed <= t

record_budget_telemetry(r, m, t) ==
    /\ Completed(r, m, t) /\ ~Exists(budgetRows, r)
    /\ budgetRows' = [budgetRows EXCEPT ![r] = t]
    /\ UNCHANGED <<manifestRows, seatRun, runRows, resultRows, archiveRows, replayRows>>

\* The join of record_run_telemetry: one row when the archive names the run
\* with its manifest, game and seat.
Correlated(a) ==
    Exists(runRows, a.run) /\ runRows[a.run].manifest = a.manifest /\ runRows[a.run].seat = a.seat

record_run_telemetry(a, t) ==
    /\ ValidArchive(a) /\ t >= a.captured /\ a.expires >= t
    /\ Correlated(a) /\ Completed(a.run, a.manifest, t) /\ ~Exists(archiveRows, a.run)
    /\ archiveRows' = [archiveRows EXCEPT ![a.run] = [archive |-> a, recorded |-> t]]
    /\ UNCHANGED <<manifestRows, seatRun, runRows, resultRows, budgetRows, replayRows>>

ExpiredRuns(now) ==
    { r \in RunIds : Exists(archiveRows, r) /\ archiveRows[r].archive.expires <= now }

\* Mutant: the archives go first, and with them the runs to look up.
PurgeArchivesFirst(now) ==
    /\ ExpiredRuns(now) /= {}
    /\ archiveRows' = [r \in RunIds |-> IF r \in ExpiredRuns(now) THEN NoRow ELSE archiveRows[r]]
    /\ UNCHANGED <<manifestRows, seatRun, runRows, resultRows, budgetRows, replayRows>>

\* purge_expired_run_telemetry, when it deletes anything.
purge_expired_run_telemetry(now) ==
    /\ ExpiredRuns(now) /= {}
    /\ budgetRows' = [r \in RunIds |-> IF r \in ExpiredRuns(now) THEN NoRow ELSE budgetRows[r]]
    /\ archiveRows' = [r \in RunIds |-> IF r \in ExpiredRuns(now) THEN NoRow ELSE archiveRows[r]]
    /\ UNCHANGED <<manifestRows, seatRun, runRows, resultRows, replayRows>>

\* attach_replay: the foreign key on (run, game, seat, manifest), one row per
\* replay and seat.
attach_replay(r, s, m) ==
    /\ Exists(runRows, r) /\ runRows[r].seat = s /\ runRows[r].manifest = m
    /\ \A row \in replayRows : row.seat /= s
    /\ replayRows' = replayRows \cup {[run |-> r, seat |-> s, manifest |-> m]}
    /\ UNCHANGED <<manifestRows, seatRun, runRows, resultRows, budgetRows, archiveRows>>

\* Telemetry a driver may hand over, in order or not.
SomeTurns == {<<[started |-> 0, completed |-> 1]>>, <<[started |-> 1, completed |-> 0]>>}
SomeLifecycle == { [i \in 1..MaxArchived + 1 |-> i - 1], <<1>> }

\* A driver's telemetry, captured at one time and recorded at another.
CaptureAndRecord(r, m, s) ==
    /\ Completed(r, m, LastTime) /\ ~Exists(archiveRows, r)
    /\ \E at, t \in Times, expires \in Times \cup {Never}, turns \in SomeTurns,
       lifecycle \in SomeLifecycle :
        /\ DriverIsOrdered(turns, lifecycle)
        /\ record_run_telemetry(capture(r, m, s, at, expires, turns, lifecycle, toolJson), t)

RunsStep ==
    \E r \in RunIds, m \in Manifests :
        \/ \E s \in GameSeats :
            \/ \E t \in Times : create_run(r, s, m, t)
            \/ CaptureAndRecord(r, m, s)
            \/ attach_replay(r, s, m)
        \/ \E t \in Times :
            \/ \E outcome \in RunOutcomes : record_result(r, m, outcome, t)
            \/ record_budget_telemetry(r, m, t)
            \/ purge_expired_run_telemetry(t)

RunsNext == RunsStep /\ UNCHANGED toolJson

RunsSpec == RunsInit /\ [][RunsNext]_runVars

-----------------------------------------------------------------------------
\* The tables hold rows of their types.
RunsTypeOK ==
    /\ manifestRows \subseteq Manifests
    /\ seatRun \in [GameSeats -> RunIds \cup {"human", "unassigned"}]
    /\ \A r \in RunIds :
        /\ runRows[r] \in RunRow \cup {NoRow}
        /\ resultRows[r] \in ResultRow \cup {NoRow}
        /\ budgetRows[r] \in Times \cup {NoRow}
        /\ Exists(archiveRows, r) => ValidArchive(archiveRows[r].archive)

\* One immutable digest links everything said of a seat: the run that holds
\* the seat, its registered manifest, its result and the replay's attribution
\* all name the same run and manifest, whatever callers sent.
AttributionAgrees ==
    /\ \A r \in RunIds : Exists(runRows, r) =>
        /\ runRows[r].manifest \in manifestRows /\ seatRun[runRows[r].seat] = r
        /\ Exists(resultRows, r) => resultRows[r].manifest = runRows[r].manifest
        /\ Exists(resultRows, r) <=> runRows[r].status /= "pending"
    /\ \A row \in replayRows :
        /\ runRows[row.run].manifest = row.manifest /\ runRows[row.run].seat = row.seat

\* Telemetry tells of a run that is over: its row repeats the run's manifest
\* and seat and was recorded no earlier than the run ended.
TelemetryFollowsResult ==
    \A r \in RunIds :
        /\ Exists(archiveRows, r) =>
            /\ Exists(resultRows, r) /\ archiveRows[r].recorded >= resultRows[r].completed
            /\ archiveRows[r].archive.manifest = runRows[r].manifest
            /\ archiveRows[r].archive.seat = runRows[r].seat
        /\ Exists(budgetRows, r) => budgetRows[r] >= resultRows[r].completed

\* An archive leaves only together with the budget snapshot of its run.
PurgedTogether ==
    [][\A r \in RunIds : Exists(archiveRows, r) /\ archiveRows'[r] = NoRow =>
            budgetRows'[r] = NoRow]_runVars

\* What capture sanitises, validate accepts, here and when the row is loaded
\* again; a sensitive null exactly at the depth limit is the one exception
\* (it becomes the truncation marker, and validate wants the redaction one).
SanitizedIsAccepted == ~NullAtTheCut(toolJson) => is_sanitized_json(sanitize_json(toolJson))

\* What is stored of a run agrees, follows its result and is purged together;
\* what the sanitiser produces the validator accepts.
RunsSafety ==
    [](RunsTypeOK /\ AttributionAgrees /\ TelemetryFollowsResult /\ SanitizedIsAccepted) /\ PurgedTogether
=============================================================================
