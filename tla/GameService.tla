---------------------------- MODULE GameService ----------------------------
(***************************************************************************)
(* The mutation pipeline of one game: ApplicationService::act and the      *)
(* deadline worker, and the tables that SqliteGameRepository keeps for     *)
(* them.  The pool has several connections, so calls interleave between    *)
(* any two statements that are not in one transaction: each read of        *)
(* load_game is a step of its own, and only commit_action_record is a      *)
(* transaction.                                                            *)
(*                                                                         *)
(* Clients repeat commands at will, with the same key or with another, and *)
(* leave at any time.  A server that dies takes all its calls with it.     *)
(***************************************************************************)
EXTENDS Turns, Sequences, FiniteSets

CONSTANTS
    Clients,                 \* concurrent calls of `act`
    Timer,                   \* the deadline worker
    Commands,                \* the GameActionCommands that clients may send
    TurnDuration,            \* policy.turn_duration_ms
    TimeoutResponse,         \* "pass" or "resign"
    InvalidAttemptLimit,     \* policy.invalid_attempt_limit
    InvalidAttemptResponse,  \* "reject_only", "pass" or "resign"
    NoRow,                   \* a row that does not exist
    MaxVersion,              \* bound on the versions that calls name
    Horizon                  \* bound on the clock

VARIABLES
    clock,       \* ApplicationClock
    log,         \* games, game_snapshots, public_events and private_events:
                 \* the entry of version v is log[v + 1]
    deadlines,   \* turn_deadlines: the row of turn v is deadlines[v + 1]
    records,     \* idempotency_records, by key
    counters,    \* invalid_attempt_counters, by turn and seat (0: no row)
    replays,     \* the versions in game_replays
    calls,       \* what each call in progress holds in memory
    reply,       \* history: the last answer that a client has seen
    scan         \* the result of the last iteration of the deadline worker

tables == <<log, deadlines, records, counters, replays>>
vars == <<clock, log, deadlines, records, counters, replays, calls, reply,
          scan>>

-----------------------------------------------------------------------------
(* Data *)

\* Mutant: the key of a timeout leaves out the turn.
TimeoutKeyOfGame(v) == -1

\* The key "timeout:<game>:<turn>:<policy>"; client keys are positive.
TimeoutKey(v) == -(v + 1)
Versions == 0..MaxVersion
Keys == {c.key : c \in Commands} \cup {TimeoutKey(v) : v \in Versions}

\* A deadline names its seat only in the table: `seat` is not in its payload.
TimeoutCommand(v) ==
    [key |-> TimeoutKey(v), seat |-> 0, version |-> v, move |-> TimeoutResponse]
AllCommands == Commands \cup {TimeoutCommand(v) : v \in Versions}

Entry == [key: Int, move: LegalMoves \cup {"create"}, state: State]
TurnDeadline == [seat: Seats, at: Nat]
Outcomes == {"accepted", "illegal", "version_conflict"}
IdempotencyRecord == [payload: AllCommands, outcome: Outcomes]
Answers == Outcomes \cup {"idempotency_conflict", "conflict", "corrupt",
                          "engine_error", "deadline_not_reached"}

ASSUME GameServiceAssumption ==
    /\ Commands \subseteq [key: Nat \ {0}, seat: Seats, version: 0..(MaxVersion - 1),
                           move: Moves]
    /\ Timer \notin Clients
    /\ TurnDuration \in Nat
    /\ TimeoutResponse \in {"pass", "resign"}
    /\ InvalidAttemptLimit \in Nat \ {0}
    /\ InvalidAttemptResponse \in {"reject_only", "pass", "resign"}
    /\ MaxVersion \in Nat \ {0}
    /\ Horizon \in Nat
    /\ NoRow \notin IdempotencyRecord \cup TurnDeadline \cup Outcomes

Steps == {"idle", "load", "public", "private", "recover", "count", "commit",
          "recheck"}
\* `due` is set once resolve_timeout has seen that the deadline has passed.
Call == [step: Steps, cmd: AllCommands \cup {NoRow}, due: BOOLEAN,
         base: Versions, at: Nat, count: Nat]

Idle == [step |-> "idle", cmd |-> NoRow, due |-> FALSE, base |-> 0, at |-> 0,
         count |-> 0]

Version == Len(log) - 1
StateAt(v) == log[v + 1].state
Active == StateAt(Version).phase = "active"

-----------------------------------------------------------------------------
(* What a call computes from the record that it loaded *)

Seat(cmd) == IF cmd.key < 0 THEN deadlines[cmd.version + 1].seat ELSE cmd.seat

CallVerdict(call) ==
    Verdict(StateAt(call.base), call.base, Seat(call.cmd), call.cmd.version,
            call.cmd.move)

\* count_invalid, and not a version conflict.
Counted(call) == call.cmd.key > 0 /\ CallVerdict(call) = "illegal"

LimitReached(count) ==
    count >= InvalidAttemptLimit /\ InvalidAttemptResponse # "reject_only"

\* The response of the policy is applied to the snapshot that was loaded.
CanForce(call) ==
    Verdict(StateAt(call.base), call.base, Seat(call.cmd), call.cmd.version,
            InvalidAttemptResponse) = "accepted"

\* The moves of the successor, if the commit brings one.
Successor(call) ==
    IF CallVerdict(call) = "accepted" THEN {call.cmd.move}
    ELSE IF Counted(call) /\ LimitReached(call.count) THEN {InvalidAttemptResponse}
    ELSE {}

\* next_deadline
NextDeadline(state, at) ==
    IF state.phase = "active"
    THEN [seat |-> state.current, at |-> at + TurnDuration]
    ELSE NoRow

-----------------------------------------------------------------------------
(* Steps of a call *)

Step(c, step) == calls' = [calls EXCEPT ![c] = [@ EXCEPT !.step = step]]

\* The deadline worker ignores the races that it knows and gives up the
\* iteration on every other error.
ScanResult(answer) ==
    IF answer \in {"accepted", "conflict", "version_conflict", "deadline_not_reached"}
    THEN "ok" ELSE answer

\* The answer of a call.
Finish(c, answer) ==
    /\ calls' = [calls EXCEPT ![c] = Idle]
    /\ reply' = IF c = Timer THEN reply
                ELSE [cmd |-> calls[c].cmd, answer |-> answer]
    /\ scan' = IF c = Timer THEN ScanResult(answer) ELSE scan

\* Mutant: the payload of the record is not compared.
CachedForAnyPayload(cmd) == records[cmd.key].outcome

\* cached_outcome of a key that has a record.
Cached(cmd) ==
    IF records[cmd.key].payload = cmd THEN records[cmd.key].outcome
    ELSE "idempotency_conflict"

\* `act`: the lookup of the key, which answers or goes on to execute_action.
act(c, cmd) ==
    /\ calls[c].step = "idle"
    /\ IF records[cmd.key] # NoRow
       THEN /\ reply' = [cmd |-> cmd, answer |-> Cached(cmd)]
            /\ UNCHANGED calls
       ELSE /\ calls' = [calls EXCEPT ![c] =
                   [step |-> "load", cmd |-> cmd, due |-> TRUE, base |-> 0,
                    at |-> 0, count |-> 0]]
            /\ UNCHANGED reply
    /\ UNCHANGED <<clock, tables, scan>>

\* due_timeouts and the lookup of resolve_timeout.  A timeout whose key has a
\* record is answered from it.
resolve_due_timeouts ==
    /\ calls[Timer].step = "idle"
    /\ Active
    /\ Version < MaxVersion
    /\ deadlines[Version + 1].at <= clock
    /\ LET cmd == TimeoutCommand(Version)
       IN IF records[cmd.key] # NoRow
          THEN /\ scan' = ScanResult(Cached(cmd))
               /\ UNCHANGED calls
          ELSE /\ calls' = [calls EXCEPT ![Timer] =
                      [step |-> "load", cmd |-> cmd, due |-> FALSE, base |-> 0,
                       at |-> 0, count |-> 0]]
               /\ UNCHANGED scan
    /\ UNCHANGED <<clock, tables, reply>>

\* load_game: the row of the game joined with the snapshot of its version.
load_game(c) ==
    /\ calls[c].step = "load"
    /\ calls' = [calls EXCEPT ![c] = [@ EXCEPT !.step = "public", !.base = Version]]
    /\ UNCHANGED <<clock, tables, reply, scan>>

\* load_public_events: every commit adds one, and the snapshot must have all.
load_public_events(c) ==
    /\ calls[c].step = "public"
    /\ Step(c, IF Version = calls[c].base THEN "private" ELSE "recover")
    /\ UNCHANGED <<clock, tables, reply, scan>>

\* The rest of load_record and what follows it up to the next statement:
\* resolve_timeout tests the deadline and has execute_action load again,
\* execute_action samples the clock and applies the move.
Loaded(c, base, deadline) ==
    LET call == [calls[c] EXCEPT !.base = base, !.at = clock]
    IN IF ~call.due
       THEN IF /\ deadline # NoRow
               /\ base = call.cmd.version
               /\ clock >= deadline.at
            THEN /\ calls' = [calls EXCEPT ![c] =
                        [@ EXCEPT !.step = "load", !.due = TRUE]]
                 /\ UNCHANGED <<reply, scan>>
            ELSE Finish(c, "deadline_not_reached")
       ELSE /\ calls' = [calls EXCEPT ![c] =
                   [call EXCEPT !.step = IF Counted(call) THEN "count" ELSE "commit"]]
            /\ UNCHANGED <<reply, scan>>

\* load_private_events, and load_deadline, whose rows never change.
load_private_events(c) ==
    /\ calls[c].step = "private"
    /\ IF \E v \in (calls[c].base + 1)..Version : log[v + 1].move \in PrivateMoves
       THEN Step(c, "recover") /\ UNCHANGED <<reply, scan>>
       ELSE Loaded(c, calls[c].base, deadlines[calls[c].base + 1])
    /\ UNCHANGED <<clock, tables>>

\* load_recovery: only a finished game has a replay to fall back on.
load_recovery(c) ==
    /\ calls[c].step = "recover"
    /\ IF Version \in replays /\ ~Active
       THEN Loaded(c, Version, NoRow)
       ELSE Finish(c, "corrupt")
    /\ UNCHANGED <<clock, tables>>

\* load_invalid_attempt.  At the limit the response of the policy must apply.
load_invalid_attempt(c) ==
    LET count == counters[calls[c].cmd.version][calls[c].cmd.seat] + 1
    IN /\ calls[c].step = "count"
       /\ IF LimitReached(count) /\ ~CanForce(calls[c])
          THEN Finish(c, "engine_error")
          ELSE /\ calls' = [calls EXCEPT ![c] =
                      [@ EXCEPT !.step = "commit", !.count = count]]
               /\ UNCHANGED <<reply, scan>>
       /\ UNCHANGED <<clock, tables>>

-----------------------------------------------------------------------------
(* commit_action_record *)

\* Mutant: the version in the database is not compared.
CommittableAtAnyVersion(call) ==
    /\ Counted(call) =>
          counters[call.cmd.version][call.cmd.seat] = call.count - 1
    /\ records[call.cmd.key] = NoRow

\* Mutant: the counter is written without a comparison.
CommittableLosingCounts(call) ==
    /\ Successor(call) # {} => Version = call.cmd.version
    /\ records[call.cmd.key] = NoRow

\* Mutant: the idempotency record has no unique key.
CommittableTwice(call) ==
    /\ Successor(call) # {} => Version = call.cmd.version
    /\ Counted(call) =>
          counters[call.cmd.version][call.cmd.seat] = call.count - 1

\* The optimistic version, the compare-and-set of the counter and the unique
\* key of the idempotency record.
Committable(call) ==
    /\ Successor(call) # {} => Version = call.cmd.version
    /\ Counted(call) =>
          counters[call.cmd.version][call.cmd.seat] = call.count - 1
    /\ records[call.cmd.key] = NoRow

\* replace_in_transaction and the replay of a game that ends.
ReplaceGame(call) ==
    \/ Successor(call) = {} /\ UNCHANGED <<log, deadlines, replays>>
    \/ \E move \in Successor(call) :
          LET state == apply_move(StateAt(call.base), move)
          IN /\ log' = Append(log, [key |-> call.cmd.key, move |-> move,
                                    state |-> state])
             /\ deadlines' = Append(deadlines, NextDeadline(state, call.at))
             /\ replays' = IF state.phase = "finished"
                           THEN replays \cup {Version + 1} ELSE replays

commit_action(c) ==
    LET call == calls[c]
    IN /\ call.step = "commit"
       /\ Committable(call)
       /\ ReplaceGame(call)
       /\ counters' = IF Counted(call)
                      THEN [counters EXCEPT ![call.cmd.version] =
                               [@ EXCEPT ![call.cmd.seat] = call.count]]
                      ELSE counters
       /\ records' = [records EXCEPT ![call.cmd.key] =
                         [payload |-> call.cmd, outcome |-> CallVerdict(call)]]
       /\ Finish(c, CallVerdict(call))
       /\ UNCHANGED clock

\* Conflict: the transaction rolls back and the key is looked up again.
CommitConflict(c) ==
    /\ calls[c].step = "commit"
    /\ ~Committable(calls[c])
    /\ Step(c, "recheck")
    /\ UNCHANGED <<clock, tables, reply, scan>>

cached_outcome(c) ==
    /\ calls[c].step = "recheck"
    /\ Finish(c, IF records[calls[c].cmd.key] = NoRow THEN "conflict"
                 ELSE Cached(calls[c].cmd))
    /\ UNCHANGED <<clock, tables>>

-----------------------------------------------------------------------------
(* Environment *)

\* A client goes away, or a statement of its call fails (Unavailable).
Disconnect(c) ==
    /\ calls[c].step # "idle"
    /\ calls' = [calls EXCEPT ![c] = Idle]
    /\ UNCHANGED <<clock, tables, reply, scan>>

\* The server dies and is started again.
Crash ==
    /\ calls' = [c \in Clients \cup {Timer} |-> Idle]
    /\ scan' = "ok"
    /\ UNCHANGED <<clock, tables, reply>>

Tick ==
    /\ clock < Horizon
    /\ clock' = clock + 1
    /\ UNCHANGED <<tables, calls, reply, scan>>

Progress(c) ==
    \/ load_game(c)
    \/ load_public_events(c)
    \/ load_private_events(c)
    \/ load_recovery(c)
    \/ load_invalid_attempt(c)
    \/ commit_action(c)
    \/ CommitConflict(c)
    \/ cached_outcome(c)

Init ==
    /\ clock = 0
    /\ log = <<[key |-> 0, move |-> "create", state |-> Created]>>
    /\ deadlines = <<NextDeadline(Created, 0)>>
    /\ records = [k \in Keys |-> NoRow]
    /\ counters = [v \in Versions |-> [s \in Seats |-> 0]]
    /\ replays = {}
    /\ calls = [c \in Clients \cup {Timer} |-> Idle]
    /\ reply = NoRow
    /\ scan = "ok"

Next ==
    \/ Tick
    \/ Crash
    \/ resolve_due_timeouts
    \/ Progress(Timer)
    \/ \E c \in Clients :
          \/ \E cmd \in Commands : act(c, cmd)
          \/ Progress(c)
          \/ Disconnect(c)

Spec == Init /\ [][Next]_vars

\* The deadline worker runs for ever; nothing is assumed of the clients.
Fairness ==
    /\ WF_vars(Tick)
    /\ WF_vars(resolve_due_timeouts)
    /\ WF_vars(Progress(Timer))

LiveSpec == Spec /\ Fairness

-----------------------------------------------------------------------------
(* Properties *)

TypeOK ==
    /\ clock \in 0..Horizon
    /\ log \in Seq(Entry)
    /\ Len(log) \in 1..(MaxVersion + 1)
    /\ deadlines \in Seq(TurnDeadline \cup {NoRow})
    /\ Len(deadlines) = Len(log)
    /\ records \in [Keys -> IdempotencyRecord \cup {NoRow}]
    /\ counters \in [Versions -> [Seats -> Nat]]
    /\ replays \subseteq Versions
    /\ calls \in [Clients \cup {Timer} -> Call]
    /\ reply \in [cmd: Commands, answer: Answers] \cup {NoRow}
    /\ scan \in Answers \cup {"ok"}

\* "Repeating the same key and payload returns the original outcome": whatever
\* races, repetitions and crashes lie between, a definite answer for a key is
\* its recorded outcome, or says that the record is for another payload.  (That
\* a record never changes is part of ImplementsGameLog.)
AnswerIsTheRecord ==
    reply # NoRow =>
        /\ reply.answer \in Outcomes =>
              records[reply.cmd.key] = [payload |-> reply.cmd, outcome |-> reply.answer]
        /\ reply.answer = "idempotency_conflict" =>
              /\ records[reply.cmd.key] # NoRow
              /\ records[reply.cmd.key].payload # reply.cmd

\* A command takes effect at most once, at the version it named and for the
\* seat whose turn that was; an accepted one does, and a refused one does not
\* unless the policy moved in its place.
DecidedOnce ==
    /\ \A i, j \in DOMAIN log : log[i].key = log[j].key => i = j
    /\ \A k \in Keys : records[k] # NoRow =>
          LET cmd == records[k].payload
              effect == {i \in DOMAIN log : log[i].key = k}
          IN /\ records[k].outcome = "accepted" =>
                   /\ effect = {cmd.version + 2}
                   /\ log[cmd.version + 2].move = cmd.move
                   /\ StateAt(cmd.version).current = Seat(cmd)
             /\ records[k].outcome = "illegal" =>
                   effect \subseteq {cmd.version + 2}
             /\ records[k].outcome = "version_conflict" => effect = {}
    /\ \A i \in DOMAIN log : i > 1 => records[log[i].key] # NoRow

\* "Concurrent attempts cannot lose increments": the counter of a turn and a
\* seat is the number of refusals recorded for them.
CountersAreExact ==
    \A v \in Versions, s \in Seats :
        counters[v][s] =
            Cardinality({k \in Keys :
                /\ k > 0
                /\ records[k] # NoRow
                /\ records[k].outcome = "illegal"
                /\ records[k].payload.version = v
                /\ records[k].payload.seat = s})

\* The policy responds at the limit, once, and to nothing else: a counter
\* stands at the limit exactly when a refused command added the next version.
ForcedAtTheLimit ==
    InvalidAttemptResponse # "reject_only" =>
        \A v \in Versions, s \in Seats :
            /\ counters[v][s] <= InvalidAttemptLimit
            /\ counters[v][s] = InvalidAttemptLimit <=>
                  /\ v < Version
                  /\ log[v + 2].key > 0
                  /\ records[log[v + 2].key].outcome = "illegal"
                  /\ records[log[v + 2].key].payload.seat = s

\* "Each active version has one persisted deadline", for the seat to move; a
\* finished game has none, and has the replay that recovery needs.
DeadlineMatchesTurn ==
    /\ Active => /\ deadlines[Version + 1] # NoRow
                 /\ deadlines[Version + 1].seat = StateAt(Version).current
                 /\ replays = {}
    /\ ~Active => /\ deadlines[Version + 1] = NoRow
                  /\ replays = {Version}

\* A timeout is committed only against the turn whose deadline has passed.
TimeoutOnlyWhenDue ==
    [][log' # log /\ log'[Len(log')].key < 0 =>
          /\ log'[Len(log')].key = TimeoutKey(Version)
          /\ clock >= deadlines[Version + 1].at]_vars

\* Every step of the tables decides one key, atomically with its effect.
Abstract == INSTANCE GameLog WITH
    Undecided <- NoRow,
    outcomes <- [k \in Keys |-> IF records[k] = NoRow THEN NoRow
                                ELSE records[k].outcome]

ImplementsGameLog == Abstract!Spec

\* A turn that is overdue ends, through lost races, torn reads and any number
\* of crashes of a server that is not crashing for ever.
OverdueTurnEnds ==
    <>[][~Crash]_vars =>
        \A v \in 0..(MaxVersion - 1) :
            (Version = v /\ Active /\ deadlines[Version + 1].at <= clock) ~> Version > v

-----------------------------------------------------------------------------
(* What the documentation says and the code does not do *)

\* The comment on resolve_due_timeouts: "Expected timeout/action races are
\* ignored".  A timeout that the engine refuses has lost a race with a move:
\* the worker must not give up its batch for it.
RacesAreIgnored == scan # "illegal"

\* Every key is decided once, every answer is what was recorded, and the
\* deadline is always the one of the turn.
DecisionsAreRecorded == TypeOK /\ AnswerIsTheRecord /\ DecidedOnce /\ DeadlineMatchesTurn

\* Invalid attempts are counted exactly under concurrency and retries, and
\* the policy fires at the limit.
AttemptsAreCounted == CountersAreExact /\ ForcedAtTheLimit
=============================================================================
