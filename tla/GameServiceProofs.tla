------------------------- MODULE GameServiceProofs -------------------------
(***************************************************************************)
(* Proofs about GameService, for every set of clients and commands, every  *)
(* number of players, every policy and all bounds.                         *)
(***************************************************************************)
EXTENDS GameService, TLAPS, FiniteSetTheorems

Callers == Clients \cup {Timer}

-----------------------------------------------------------------------------
(* Commands and turns *)

\* The parameters, one by one.
LEMMA Parameters ==
    /\ Timer \notin Clients
    /\ TurnDuration \in Nat
    /\ TimeoutResponse \in {"pass", "resign"}
    /\ InvalidAttemptLimit \in Nat \ {0}
    /\ InvalidAttemptResponse \in {"reject_only", "pass", "resign"}
    /\ MaxVersion \in Nat \ {0}
    /\ Horizon \in Nat
    /\ NoRow \notin IdempotencyRecord
    /\ NoRow \notin TurnDeadline
    /\ NoRow \notin Outcomes
BY GameServiceAssumption, Zenon

\* A client's command names a positive key, a seat and a version at which
\* there is room for a successor.
LEMMA CommandFacts ==
    ASSUME NEW cmd \in Commands
    PROVE  /\ cmd.key \in Nat \ {0} /\ cmd.key \in Keys
           /\ cmd.seat \in Seats /\ cmd.version \in 0..(MaxVersion - 1)
           /\ cmd.move \in Moves /\ cmd \in AllCommands
<1>1. cmd \in [key: Nat \ {0}, seat: Seats, version: 0..(MaxVersion - 1), move: Moves]
    BY GameServiceAssumption, Zenon
<1> QED BY <1>1 DEF Keys, AllCommands

\* A timeout's command names a negative key, which no other turn uses.
LEMMA TimeoutFacts ==
    ASSUME NEW v \in Versions
    PROVE  /\ TimeoutCommand(v).key = -(v + 1) /\ TimeoutCommand(v).key \in Keys
           /\ TimeoutCommand(v).version = v
           /\ TimeoutCommand(v).move \in {"pass", "resign"}
           /\ TimeoutCommand(v) \in AllCommands
BY Parameters DEF TimeoutCommand, TimeoutKey, Keys, AllCommands

\* Every command names a key of the table, which is not the key of the
\* creation, and a version.
LEMMA AllCommandFacts ==
    ASSUME NEW cmd \in AllCommands
    PROVE  /\ cmd.key \in Keys /\ cmd.key \in Int \ {0}
           /\ cmd.version \in Versions /\ cmd.move \in Moves
<1>1. CASE cmd \in Commands
    BY <1>1, CommandFacts, Parameters DEF Versions
<1>2. CASE \E v \in Versions : cmd = TimeoutCommand(v)
    <2>1. PICK v \in Versions : cmd = TimeoutCommand(v)
        BY <1>2
    <2> QED BY <2>1, TimeoutFacts, Parameters DEF Versions, Moves, LegalMoves
<1> QED BY <1>1, <1>2 DEF AllCommands

\* A move that is not refused leads from a state to a state.
LEMMA ApplyType ==
    ASSUME NEW s \in State, NEW m \in LegalMoves
    PROVE  apply_move(s, m) \in State
<1>1. s.current \in Seats /\ s.scoreless \in Nat
    BY DEF State
<1>2. next(s.current) \in Seats
    BY <1>1, TurnsAssumption DEF next, Seats
<1>3. next_scoreless(s, m) \in Nat
    BY <1>1 DEF next_scoreless
<1> HIDE DEF next, next_scoreless
<1> QED BY <1>1, <1>2, <1>3 DEF apply_move, State

\* What the verdicts of the engine mean.
LEMMA VerdictFacts ==
    ASSUME NEW s \in State, NEW version, NEW seat, NEW expected, NEW move
    PROVE  /\ Verdict(s, version, seat, expected, move) \in Outcomes
           /\ Verdict(s, version, seat, expected, move) = "accepted" =>
                /\ s.phase = "active" /\ seat = s.current
                /\ expected = version /\ move # "illegal"
BY DEF Verdict, Outcomes, State

-----------------------------------------------------------------------------
(* The inductive invariant *)

\* The deadline worker's command is for a turn that has a deadline, which has
\* passed: rows of turn_deadlines never change.
TimeoutIsDue(cmd) ==
    \E v \in 0..(MaxVersion - 1) :
        /\ cmd = TimeoutCommand(v) /\ v <= Version
        /\ deadlines[v + 1] # NoRow /\ deadlines[v + 1].at <= clock

\* What a call in progress knows.  It loaded a version that exists, and it
\* carries a count at the limit only if the policy's move applies there.
CallIsSound(c, call) ==
    /\ call.base <= Version
    /\ call.step # "idle" =>
          /\ c \in Clients => call.cmd \in Commands
          /\ c = Timer => TimeoutIsDue(call.cmd)
    /\ call.step = "count" => Counted(call)
    /\ call.step = "commit" /\ Counted(call) /\ LimitReached(call.count) => CanForce(call)

CallsAreSound == \A c \in Callers : CallIsSound(c, calls[c])

\* Every entry but the creation was added by a key that has a record.
LogIsRecorded ==
    /\ log[1].key = 0
    /\ \A i \in 2..Len(log) : log[i].key \in Keys /\ records[log[i].key] # NoRow
    /\ \A i, j \in 1..Len(log) : log[i].key = log[j].key => i = j

\* DeadlineMatchesTurn for every version, and only the last can be finished.
TurnsHaveDeadlines ==
    /\ \A i \in 1..Len(log) :
          /\ log[i].state.phase = "active" =>
                deadlines[i] # NoRow /\ deadlines[i].seat = log[i].state.current
          /\ log[i].state.phase # "active" => deadlines[i] = NoRow /\ i = Len(log)
    /\ replays = IF Active THEN {} ELSE {Version}

\* DecidedOnce, for one key.
KeyIsDecided(k) ==
    records[k] # NoRow =>
        LET cmd == records[k].payload
        IN /\ records[k].outcome = "accepted" =>
                 /\ cmd.version + 2 <= Len(log)
                 /\ log[cmd.version + 2].key = k
                 /\ log[cmd.version + 2].move = cmd.move
                 /\ StateAt(cmd.version).current = Seat(cmd)
           /\ records[k].outcome = "illegal" =>
                 \A i \in 1..Len(log) : log[i].key = k => i = cmd.version + 2
           /\ records[k].outcome = "version_conflict" =>
                 \A i \in 1..Len(log) : log[i].key # k

\* The refusals recorded for a turn and a seat.
Refusals(v, s) ==
    {k \in Keys : /\ k > 0
                  /\ records[k] # NoRow
                  /\ records[k].outcome = "illegal"
                  /\ records[k].payload.version = v
                  /\ records[k].payload.seat = s}

CountersCount ==
    \A v \in Versions, s \in Seats :
        IsFiniteSet(Refusals(v, s)) /\ counters[v][s] = Cardinality(Refusals(v, s))

GameInv ==
    /\ TypeOK
    /\ CallsAreSound
    /\ LogIsRecorded
    /\ TurnsHaveDeadlines
    /\ \A k \in Keys : KeyIsDecided(k)
    /\ CountersCount
    /\ ForcedAtTheLimit
    /\ AnswerIsTheRecord

-----------------------------------------------------------------------------
(* Growth of the tables *)

\* Entries and deadlines are only appended, and time passes.
Grows ==
    /\ Len(log) <= Len(log')
    /\ \A i \in 1..Len(log) : log'[i] = log[i] /\ deadlines'[i] = deadlines[i]
    /\ clock <= clock'

\* What a call knows stays true while the tables grow.
LEMMA CallPersists ==
    ASSUME TypeOK, TypeOK', Grows, NEW c \in Callers, NEW call \in Call, CallIsSound(c, call)
    PROVE  CallIsSound(c, call)'
<1>1. /\ Len(log) \in Nat /\ Len(log') \in Nat /\ clock \in Int /\ clock' \in Int
      /\ call.base \in Nat /\ call.base <= Version
    BY DEF TypeOK, CallIsSound, Call, Versions
<1>2. (call.base <= Version)'
    BY <1>1 DEF Grows, Version
<1>3. StateAt(call.base)' = StateAt(call.base)
    BY <1>1 DEF Grows, StateAt, Version
<1>4. ASSUME c = Timer, call.step # "idle"
      PROVE  TimeoutIsDue(call.cmd)' /\ call.cmd.key < 0 /\ Seat(call.cmd)' = Seat(call.cmd)
    <2>1. PICK v \in 0..(MaxVersion - 1) :
            /\ call.cmd = TimeoutCommand(v) /\ v <= Version
            /\ deadlines[v + 1] # NoRow /\ deadlines[v + 1].at <= clock
        BY <1>4 DEF CallIsSound, TimeoutIsDue
    <2>2. v \in Versions
        BY Parameters DEF Versions
    <2>3. call.cmd.version = v /\ call.cmd.key < 0
        BY <2>1, <2>2, TimeoutFacts DEF Versions
    <2>4. deadlines'[v + 1] = deadlines[v + 1] /\ (v <= Version)'
        BY <1>1, <2>1, <2>2 DEF Grows, Version, Versions
    <2>5. deadlines[v + 1] \in TurnDeadline
        <3>1. v + 1 \in 1..Len(deadlines)
            BY <1>1, <2>1, <2>2 DEF TypeOK, Version, Versions
        <3> QED BY <2>1, <3>1 DEF TypeOK
    <2>6. deadlines[v + 1].at <= clock'
        BY <1>1, <2>1, <2>5 DEF Grows, TurnDeadline
    <2> QED BY <2>1, <2>3, <2>4, <2>6 DEF TimeoutIsDue, Seat
<1>5. ASSUME c \in Clients, call.step # "idle"
      PROVE  Seat(call.cmd)' = Seat(call.cmd)
    BY <1>5, CommandFacts DEF CallIsSound, Seat
<1>6. ASSUME call.step # "idle"
      PROVE  /\ Counted(call)' <=> Counted(call)
             /\ CanForce(call)' <=> CanForce(call)
    <2>1. Seat(call.cmd)' = Seat(call.cmd)
        BY <1>4, <1>5, <1>6 DEF Callers
    <2>2. CallVerdict(call)' = CallVerdict(call)
        BY <1>3, <2>1 DEF CallVerdict
    <2> QED BY <1>3, <2>1, <2>2 DEF Counted, CanForce
<1> QED BY <1>2, <1>4, <1>6, Zenon DEF CallIsSound, LimitReached

-----------------------------------------------------------------------------
(* Steps that leave the tables alone *)

\* The part of the type invariant that such steps can disturb.
CallsType ==
    /\ calls \in [Callers -> Call]
    /\ reply \in [cmd: Commands, answer: Answers] \cup {NoRow}
    /\ scan \in Answers \cup {"ok"}

\* Idle is a call that knows nothing.
LEMMA IdleFacts ==
    ASSUME TypeOK, NEW c
    PROVE  Idle \in Call /\ CallIsSound(c, Idle)
<1>1. 0 <= Version /\ 0 \in Versions
    BY Parameters DEF TypeOK, Version, Versions
<1> QED BY <1>1 DEF Idle, Call, Steps, CallIsSound

\* One call changes, to one that is sound.
LEMMA SetCall ==
    ASSUME TypeOK, CallsAreSound, UNCHANGED <<clock, tables>>,
           NEW c \in Callers, NEW new \in Call, CallIsSound(c, new),
           calls' = [calls EXCEPT ![c] = new]
    PROVE  calls' \in [Callers -> Call] /\ CallsAreSound'
<1>1. calls \in [Callers -> Call]
    BY DEF TypeOK, Callers
<1>2. calls' \in [Callers -> Call]
    BY <1>1
<1>3. ASSUME NEW d \in Callers, NEW call, CallIsSound(d, call)
      PROVE  CallIsSound(d, call)'
    BY <1>3 DEF tables, CallIsSound, TimeoutIsDue, Counted, CallVerdict, CanForce, Seat, StateAt, Version
<1>4. ASSUME NEW d \in Callers
      PROVE  CallIsSound(d, calls[d])'
    <2>1. CASE d = c
        <3>1. calls'[d] = new
            BY <1>1, <2>1
        <3>2. CallIsSound(d, new)'
            BY <1>3, <2>1
        <3> QED BY <3>1, <3>2 DEF CallIsSound, TimeoutIsDue, Counted, CallVerdict, CanForce, Seat, StateAt, Version
    <2>2. CASE d # c
        <3>1. PICK call : call = calls[d]
            OBVIOUS
        <3>2. calls'[d] = call
            BY <1>1, <2>2, <3>1
        <3>3. CallIsSound(d, call)'
            BY <1>3, <3>1 DEF CallsAreSound
        <3> QED BY <3>2, <3>3 DEF CallIsSound, TimeoutIsDue, Counted, CallVerdict, CanForce, Seat, StateAt, Version
    <2> QED BY <2>1, <2>2
<1> QED BY <1>2, <1>4, Zenon DEF CallsAreSound

\* The caller of a call in progress and its command.
LEMMA BusyFacts ==
    ASSUME TypeOK, CallsAreSound, NEW c \in Callers, calls[c].step # "idle"
    PROVE  /\ calls[c] \in Call /\ CallIsSound(c, calls[c])
           /\ calls[c].cmd \in AllCommands
           /\ c # Timer => calls[c].cmd \in Commands
           /\ c = Timer => TimeoutIsDue(calls[c].cmd) /\ calls[c].cmd.key < 0
           /\ calls[c].base \in 0..Version
           /\ StateAt(calls[c].base) \in State
<1>1. calls[c] \in Call /\ CallIsSound(c, calls[c])
    BY DEF TypeOK, CallsAreSound, Callers
<1>2. c # Timer => calls[c].cmd \in Commands
    BY <1>1 DEF CallIsSound, Callers
<1>3. c = Timer => TimeoutIsDue(calls[c].cmd)
    BY <1>1 DEF CallIsSound
<1>4. ASSUME c = Timer
      PROVE  calls[c].cmd \in AllCommands /\ calls[c].cmd.key < 0
    <2>1. PICK v \in 0..(MaxVersion - 1) : calls[c].cmd = TimeoutCommand(v)
        BY <1>3, <1>4 DEF TimeoutIsDue
    <2>2. v \in Versions /\ v \in Nat
        BY Parameters DEF Versions
    <2> QED BY <2>1, <2>2, TimeoutFacts
<1>5. calls[c].base \in 0..Version
    BY <1>1 DEF Call, Versions, CallIsSound, TypeOK, Version
<1>6. StateAt(calls[c].base) \in State
    <2>1. calls[c].base + 1 \in 1..Len(log)
        BY <1>5 DEF Version, TypeOK
    <2>2. log \in Seq(Entry)
        BY DEF TypeOK
    <2>3. log[calls[c].base + 1] \in Entry
        BY <2>1, <2>2
    <2> QED BY <2>3 DEF StateAt, Entry
<1> QED BY <1>1, <1>2, <1>3, <1>4, <1>5, <1>6, CommandFacts

\* An answer that is what the record says may be given.
LEMMA FinishFacts ==
    ASSUME TypeOK, CallsAreSound, AnswerIsTheRecord, UNCHANGED <<clock, tables>>,
           NEW c \in Callers, calls[c].step # "idle", NEW answer \in Answers, Finish(c, answer),
           answer \in Outcomes =>
               records[calls[c].cmd.key] = [payload |-> calls[c].cmd, outcome |-> answer],
           answer = "idempotency_conflict" =>
               records[calls[c].cmd.key] # NoRow /\ records[calls[c].cmd.key].payload # calls[c].cmd
    PROVE  CallsType' /\ CallsAreSound' /\ AnswerIsTheRecord'
<1>1. /\ calls' = [calls EXCEPT ![c] = Idle]
      /\ reply' = IF c = Timer THEN reply ELSE [cmd |-> calls[c].cmd, answer |-> answer]
      /\ scan' = IF c = Timer THEN ScanResult(answer) ELSE scan
    BY Zenon DEF Finish
<1>2. calls' \in [Callers -> Call] /\ CallsAreSound'
    BY <1>1, IdleFacts, SetCall
<1>3. scan' \in Answers \cup {"ok"}
    BY <1>1 DEF ScanResult, TypeOK
<1>4. /\ reply' \in [cmd: Commands, answer: Answers] \cup {NoRow}
      /\ AnswerIsTheRecord'
    <2>1. CASE c = Timer
        <3>1. reply' = reply /\ records' = records
            BY <1>1, <2>1 DEF tables
        <3> QED BY <3>1 DEF TypeOK, AnswerIsTheRecord
    <2>2. CASE c # Timer
        <3>1. reply' = [cmd |-> calls[c].cmd, answer |-> answer] /\ records' = records
            BY <1>1, <2>2 DEF tables
        <3>2. calls[c].cmd \in Commands
            BY <2>2, BusyFacts
        <3>3. AnswerIsTheRecord'
            BY <3>1 DEF AnswerIsTheRecord
        <3> QED BY <3>1, <3>2, <3>3
    <2> QED BY <2>1, <2>2
<1> QED BY <1>2, <1>3, <1>4 DEF CallsType

\* A call that changes without an answer.
LEMMA GoOn ==
    ASSUME TypeOK, CallsAreSound, AnswerIsTheRecord, UNCHANGED <<clock, tables, reply, scan>>,
           NEW c \in Callers, NEW new \in Call, CallIsSound(c, new),
           calls' = [calls EXCEPT ![c] = new]
    PROVE  CallsType' /\ CallsAreSound' /\ AnswerIsTheRecord'
<1>1. calls' \in [Callers -> Call] /\ CallsAreSound'
    BY SetCall
<1>2. AnswerIsTheRecord'
    BY DEF AnswerIsTheRecord, tables
<1>3. /\ reply' \in [cmd: Commands, answer: Answers] \cup {NoRow}
      /\ scan' \in Answers \cup {"ok"}
    BY DEF TypeOK
<1> QED BY <1>1, <1>2, <1>3 DEF CallsType

\* The tables' part of the invariant does not mention the rest of the state.
LEMMA TablesUnchanged ==
    ASSUME GameInv, UNCHANGED tables, clock' \in 0..Horizon, CallsType',
           CallsAreSound', AnswerIsTheRecord'
    PROVE  GameInv'
<1>1. TypeOK'
    BY DEF GameInv, TypeOK, CallsType, tables, Callers
<1>2. LogIsRecorded' /\ TurnsHaveDeadlines'
    BY DEF GameInv, LogIsRecorded, TurnsHaveDeadlines, tables, Active, StateAt, Version
<1>3. (\A k \in Keys : KeyIsDecided(k))'
    BY DEF GameInv, KeyIsDecided, tables, StateAt, Seat
<1>4. CountersCount'
    BY DEF GameInv, CountersCount, Refusals, tables
<1>5. ForcedAtTheLimit'
    BY DEF GameInv, ForcedAtTheLimit, tables, Version
<1> QED BY <1>1, <1>2, <1>3, <1>4, <1>5 DEF GameInv

\* cached_outcome answers what the record says.
LEMMA CachedFacts ==
    ASSUME TypeOK, NEW cmd \in AllCommands, records[cmd.key] # NoRow
    PROVE  /\ Cached(cmd) \in Answers
           /\ Cached(cmd) \in Outcomes =>
                 records[cmd.key] = [payload |-> cmd, outcome |-> Cached(cmd)]
           /\ Cached(cmd) = "idempotency_conflict" => records[cmd.key].payload # cmd
<1>1. records[cmd.key] \in IdempotencyRecord
    BY AllCommandFacts DEF TypeOK
<1>2. records[cmd.key].outcome \in Outcomes
    BY <1>1 DEF IdempotencyRecord
<1>3. CASE records[cmd.key].payload = cmd
    <2>1. Cached(cmd) = records[cmd.key].outcome
        BY <1>3 DEF Cached
    <2> QED BY <1>1, <1>2, <1>3, <2>1 DEF IdempotencyRecord, Answers, Outcomes
<1>4. CASE records[cmd.key].payload # cmd
    <2>1. Cached(cmd) = "idempotency_conflict"
        BY <1>4 DEF Cached
    <2> QED BY <1>4, <2>1 DEF Answers, Outcomes
<1> QED BY <1>3, <1>4

\* act looks its key up and answers, or begins a call.
LEMMA ActStep ==
    ASSUME GameInv, NEW c \in Clients, NEW cmd \in Commands, act(c, cmd)
    PROVE  GameInv'
<1>0. TypeOK /\ CallsAreSound /\ AnswerIsTheRecord
    BY DEF GameInv
<1>1. UNCHANGED <<clock, tables, scan>>
    BY DEF act
<1>2. cmd \in AllCommands
    BY CommandFacts
<1>3. CASE records[cmd.key] # NoRow
    <2>1. reply' = [cmd |-> cmd, answer |-> Cached(cmd)] /\ calls' = calls
        BY <1>3 DEF act
    <2>2. Cached(cmd) \in Answers
        BY <1>0, <1>2, <1>3, CachedFacts
    <2>3. reply'.cmd = cmd /\ reply'.answer = Cached(cmd) /\ records' = records
        BY <1>1, <2>1 DEF tables
    <2>4. AnswerIsTheRecord'
        BY <1>0, <1>2, <1>3, <2>3, CachedFacts DEF AnswerIsTheRecord
    <2>5. CallsType'
        BY <1>0, <1>1, <2>1, <2>2 DEF CallsType, TypeOK, Callers
    <2>6. CallsAreSound'
        BY <1>0, <1>1, <2>1 DEF CallsAreSound, tables, CallIsSound, TimeoutIsDue, Counted,
           CallVerdict, CanForce, Seat, StateAt, Version
    <2> QED BY <1>0, <1>1, <2>4, <2>5, <2>6, TablesUnchanged DEF TypeOK
<1>4. CASE records[cmd.key] = NoRow
    <2> DEFINE new == [step |-> "load", cmd |-> cmd, due |-> TRUE, base |-> 0, at |-> 0, count |-> 0]
    <2>1. calls' = [calls EXCEPT ![c] = new] /\ reply' = reply
        BY <1>4 DEF act
    <2>2. new \in Call
        BY <1>2, Parameters DEF Call, Steps, Versions
    <2>3. CallIsSound(c, new)
        <3>1. 0 <= Version
            BY <1>0 DEF TypeOK, Version
        <3> QED BY <3>1, Parameters DEF CallIsSound
    <2>4. CallsType' /\ CallsAreSound' /\ AnswerIsTheRecord'
        <3> HIDE DEF new
        <3>1. c \in Callers /\ UNCHANGED <<clock, tables, reply, scan>>
            BY <1>1, <2>1 DEF Callers
        <3> QED BY <1>0, <2>1, <2>2, <2>3, <3>1, GoOn
    <2> QED BY <1>0, <1>1, <2>4, TablesUnchanged DEF TypeOK
<1> QED BY <1>3, <1>4

\* The deadline worker begins a call for a turn that is due.
LEMMA ScanStep ==
    ASSUME GameInv, resolve_due_timeouts
    PROVE  GameInv'
<1>0. TypeOK /\ CallsAreSound /\ AnswerIsTheRecord /\ TurnsHaveDeadlines
    BY DEF GameInv
<1>1. UNCHANGED <<clock, tables, reply>>
    BY DEF resolve_due_timeouts
<1> DEFINE cmd == TimeoutCommand(Version)
<1>2. /\ Version \in 0..(MaxVersion - 1) /\ Version \in Versions
      /\ deadlines[Version + 1].at <= clock
      /\ Active
    <2>1. /\ Version < MaxVersion /\ Active /\ deadlines[Version + 1].at <= clock
        BY DEF resolve_due_timeouts
    <2> QED BY <1>0, <2>1, Parameters DEF TypeOK, Version, Versions
<1>3. deadlines[Version + 1] # NoRow
    <2>1. Version + 1 \in 1..Len(log)
        BY <1>0 DEF TypeOK, Version
    <2> QED BY <1>0, <1>2, <2>1 DEF TurnsHaveDeadlines, Active, StateAt
<1>4. cmd \in AllCommands
    BY <1>2, TimeoutFacts
<1>5. CASE records[cmd.key] # NoRow
    <2>1. scan' = ScanResult(Cached(cmd)) /\ calls' = calls
        BY <1>5 DEF resolve_due_timeouts
    <2>2. Cached(cmd) \in Answers
        BY <1>0, <1>4, <1>5, CachedFacts
    <2>3. CallsType'
        BY <1>0, <1>1, <2>1, <2>2 DEF CallsType, TypeOK, Callers, ScanResult
    <2>4. CallsAreSound' /\ AnswerIsTheRecord'
        BY <1>0, <1>1, <2>1 DEF CallsAreSound, tables, CallIsSound, TimeoutIsDue, Counted,
           CallVerdict, CanForce, Seat, StateAt, Version, AnswerIsTheRecord
    <2> QED BY <1>0, <1>1, <2>3, <2>4, TablesUnchanged DEF TypeOK
<1>6. CASE records[cmd.key] = NoRow
    <2>1. PICK new : new = [step |-> "load", cmd |-> cmd, due |-> FALSE, base |-> 0, at |-> 0, count |-> 0]
        OBVIOUS
    <2>2. calls' = [calls EXCEPT ![Timer] = new] /\ scan' = scan
        BY <1>6, <2>1 DEF resolve_due_timeouts
    <2>3. new \in Call
        BY <1>4, <2>1, Parameters DEF Call, Steps, Versions
    <2>4. CallIsSound(Timer, new)
        <3>1. 0 <= Version
            BY <1>0 DEF TypeOK, Version
        <3>2. TimeoutIsDue(cmd)
            BY <1>2, <1>3 DEF TimeoutIsDue
        <3> QED BY <2>1, <3>1, <3>2, Parameters DEF CallIsSound
    <2>5. CallsType' /\ CallsAreSound' /\ AnswerIsTheRecord'
        <3>1. Timer \in Callers /\ UNCHANGED <<clock, tables, reply, scan>>
            BY <1>1, <2>2 DEF Callers
        <3> QED BY <1>0, <2>2, <2>3, <2>4, <3>1, GoOn
    <2> QED BY <1>0, <1>1, <2>5, TablesUnchanged DEF TypeOK
<1> QED BY <1>5, <1>6

\* A call that goes on to a step at which it has not counted or applied
\* anything yet needs only its command and a version that exists.
LEMMA EarlyStepIsSound ==
    ASSUME TypeOK, CallsAreSound, NEW c \in Callers, calls[c].step # "idle",
           NEW new, new.cmd = calls[c].cmd, new.base <= Version,
           new.step \notin {"count", "commit"}
    PROVE  CallIsSound(c, new)
<1>1. CallIsSound(c, calls[c])
    BY BusyFacts
<1> QED BY <1>1 DEF CallIsSound

\* The reads of load_game and a commit that conflicts.
LEMMA ReadStep ==
    ASSUME GameInv, NEW c \in Callers,
           load_game(c) \/ load_public_events(c) \/ CommitConflict(c)
    PROVE  GameInv'
<1>0. TypeOK /\ CallsAreSound /\ AnswerIsTheRecord
    BY DEF GameInv
<1>1. calls[c].step # "idle" /\ UNCHANGED <<clock, tables, reply, scan>>
    BY DEF load_game, load_public_events, CommitConflict
<1>2. /\ calls[c] \in Call /\ calls[c].base \in 0..Version
      /\ Version \in Versions
    <2>1. Version \in Versions
        BY <1>0, Parameters DEF TypeOK, Version, Versions
    <2> QED BY <1>0, <1>1, <2>1, BusyFacts
<1>3. calls \in [Callers -> Call]
    BY <1>0 DEF TypeOK, Callers
<1>4. ASSUME NEW new, calls' = [calls EXCEPT ![c] = new], new \in Call,
             new.cmd = calls[c].cmd, new.base <= Version, new.step \notin {"count", "commit"}
      PROVE  GameInv'
    <2>1. CallIsSound(c, new)
        BY <1>0, <1>1, <1>4, EarlyStepIsSound
    <2>2. CallsType' /\ CallsAreSound' /\ AnswerIsTheRecord'
        BY <1>0, <1>1, <1>4, <2>1, GoOn
    <2> QED BY <1>0, <1>1, <2>2, TablesUnchanged DEF TypeOK
<1>5. CASE load_game(c)
    <2>1. PICK new : new = [calls[c] EXCEPT !.step = "public", !.base = Version]
        OBVIOUS
    <2>2. calls' = [calls EXCEPT ![c] = new]
        BY <1>3, <1>5, <2>1 DEF load_game
    <2>3. /\ new \in Call /\ new.cmd = calls[c].cmd /\ new.base = Version /\ new.step = "public"
        BY <1>2, <2>1 DEF Call, Steps
    <2>4. new.base <= Version
        BY <1>2, <2>3 DEF Versions
    <2> QED BY <1>4, <2>2, <2>3, <2>4
<1>6. CASE load_public_events(c) \/ CommitConflict(c)
    <2>1. PICK step \in {"private", "recover", "recheck"} :
            calls' = [calls EXCEPT ![c] = [@ EXCEPT !.step = step]]
        BY <1>6 DEF load_public_events, CommitConflict, Step
    <2>2. PICK new : new = [calls[c] EXCEPT !.step = step]
        OBVIOUS
    <2>3. calls' = [calls EXCEPT ![c] = new]
        BY <1>3, <2>1, <2>2
    <2>4. /\ new \in Call /\ new.cmd = calls[c].cmd /\ new.base = calls[c].base
          /\ new.step \notin {"count", "commit"}
        BY <1>2, <2>1, <2>2 DEF Call, Steps
    <2>5. new.base <= Version
        BY <1>2, <2>4 DEF Versions
    <2> QED BY <1>4, <2>3, <2>4, <2>5
<1> QED BY <1>5, <1>6

\* The end of load_record: the deadline worker's test, or the move applied to
\* the snapshot.
LEMMA LoadedStep ==
    ASSUME GameInv, NEW c \in Callers, calls[c].step # "idle", UNCHANGED <<clock, tables>>,
           NEW base \in 0..Version, NEW deadline, Loaded(c, base, deadline)
    PROVE  GameInv'
<1>0. TypeOK /\ CallsAreSound /\ AnswerIsTheRecord
    BY DEF GameInv
<1>1. calls[c] \in Call /\ calls[c].cmd \in AllCommands
    BY <1>0, BusyFacts
<1>2. calls \in [Callers -> Call]
    BY <1>0 DEF TypeOK, Callers
<1>3. base \in Versions /\ base <= Version /\ clock \in Nat /\ Version \in Int
    BY <1>0, Parameters DEF TypeOK, Version, Versions
<1> DEFINE call == [calls[c] EXCEPT !.base = base, !.at = clock]
<1>4. ASSUME NEW new, calls' = [calls EXCEPT ![c] = new], UNCHANGED <<reply, scan>>,
             new \in Call, CallIsSound(c, new)
      PROVE  GameInv'
    <2>1. CallsType' /\ CallsAreSound' /\ AnswerIsTheRecord'
        BY <1>0, <1>4, GoOn
    <2> QED BY <1>0, <2>1, TablesUnchanged DEF TypeOK
<1>5. \/ Finish(c, "deadline_not_reached")
      \/ /\ calls' = [calls EXCEPT ![c] = [@ EXCEPT !.step = "load", !.due = TRUE]]
         /\ UNCHANGED <<reply, scan>>
      \/ /\ calls' = [calls EXCEPT ![c] =
                [call EXCEPT !.step = IF Counted(call) THEN "count" ELSE "commit"]]
         /\ UNCHANGED <<reply, scan>>
    BY Zenon DEF Loaded
<1>6. CASE Finish(c, "deadline_not_reached")
    <2>1. CallsType' /\ CallsAreSound' /\ AnswerIsTheRecord'
        BY <1>0, <1>6, FinishFacts DEF Answers, Outcomes
    <2> QED BY <1>0, <2>1, TablesUnchanged DEF TypeOK
<1>7. CASE /\ calls' = [calls EXCEPT ![c] = [@ EXCEPT !.step = "load", !.due = TRUE]]
           /\ UNCHANGED <<reply, scan>>
    <2>1. PICK new : new = [calls[c] EXCEPT !.step = "load", !.due = TRUE]
        OBVIOUS
    <2>2. calls' = [calls EXCEPT ![c] = new]
        BY <1>2, <1>7, <2>1
    <2>3. /\ new \in Call /\ new.cmd = calls[c].cmd /\ new.base = calls[c].base /\ new.step = "load"
        BY <1>1, <2>1 DEF Call, Steps
    <2>4. calls[c].base <= Version
        BY <1>0, BusyFacts DEF CallIsSound
    <2>5. CallIsSound(c, new)
        BY <1>0, <2>3, <2>4, EarlyStepIsSound
    <2> QED BY <1>4, <1>7, <2>2, <2>3, <2>5
<1>8. CASE /\ calls' = [calls EXCEPT ![c] =
                 [call EXCEPT !.step = IF Counted(call) THEN "count" ELSE "commit"]]
           /\ UNCHANGED <<reply, scan>>
    <2>1. PICK new : new = [call EXCEPT !.step = IF Counted(call) THEN "count" ELSE "commit"]
        OBVIOUS
    <2>2. calls' = [calls EXCEPT ![c] = new]
        BY <1>8, <2>1
    <2>3. call \in Call /\ call.cmd = calls[c].cmd /\ call.base = base
        BY <1>1, <1>3 DEF Call
    <2> HIDE DEF call
    <2>4. /\ new \in Call /\ new.cmd = call.cmd /\ new.base = base
          /\ new.step = IF Counted(call) THEN "count" ELSE "commit"
        BY <2>1, <2>3 DEF Call, Steps
    <2>5. Counted(new) <=> Counted(call)
        BY <2>3, <2>4 DEF Counted, CallVerdict
    <2>6. CallIsSound(c, calls[c])
        BY <1>0, BusyFacts
    <2>7. CallIsSound(c, new)
        BY <1>3, <2>3, <2>4, <2>5, <2>6 DEF CallIsSound
    <2> QED BY <1>4, <1>8, <2>2, <2>4, <2>7
<1> QED BY <1>5, <1>6, <1>7, <1>8

\* load_private_events and load_recovery.
LEMMA LoadStep ==
    ASSUME GameInv, NEW c \in Callers, load_private_events(c) \/ load_recovery(c)
    PROVE  GameInv'
<1>0. TypeOK /\ CallsAreSound /\ AnswerIsTheRecord
    BY DEF GameInv
<1>1. calls[c].step # "idle" /\ UNCHANGED <<clock, tables>>
    BY DEF load_private_events, load_recovery
<1>2. /\ calls[c] \in Call /\ calls[c].base \in 0..Version
    BY <1>0, <1>1, BusyFacts
<1>3. calls \in [Callers -> Call] /\ Version \in 0..Version
    BY <1>0 DEF TypeOK, Callers, Version
<1>4. CASE \E base \in 0..Version : \E deadline : Loaded(c, base, deadline)
    BY <1>1, <1>4, LoadedStep
<1>5. CASE Step(c, "recover") /\ UNCHANGED <<reply, scan>>
    <2>1. PICK new : new = [calls[c] EXCEPT !.step = "recover"]
        OBVIOUS
    <2>2. calls' = [calls EXCEPT ![c] = new]
        BY <1>3, <1>5, <2>1 DEF Step
    <2>3. /\ new \in Call /\ new.cmd = calls[c].cmd /\ new.base = calls[c].base
          /\ new.step \notin {"count", "commit"}
        BY <1>2, <2>1 DEF Call, Steps
    <2>4. CallIsSound(c, new)
        <3>1. new.base <= Version
            BY <1>0, <1>2, <2>3 DEF TypeOK, Version
        <3> QED BY <1>0, <1>1, <2>3, <3>1, EarlyStepIsSound
    <2>5. CallsType' /\ CallsAreSound' /\ AnswerIsTheRecord'
        BY <1>0, <1>1, <1>5, <2>2, <2>3, <2>4, GoOn
    <2> QED BY <1>0, <1>1, <2>5, TablesUnchanged DEF TypeOK
<1>6. CASE Finish(c, "corrupt")
    <2>1. CallsType' /\ CallsAreSound' /\ AnswerIsTheRecord'
        BY <1>0, <1>1, <1>6, FinishFacts DEF Answers, Outcomes
    <2> QED BY <1>0, <1>1, <2>1, TablesUnchanged DEF TypeOK
<1> QED BY <1>2, <1>3, <1>4, <1>5, <1>6, Zenon DEF load_private_events, load_recovery

\* load_invalid_attempt: at the limit, only a call whose forced move applies
\* goes on.
LEMMA CountStep ==
    ASSUME GameInv, NEW c \in Callers, load_invalid_attempt(c)
    PROVE  GameInv'
<1>0. TypeOK /\ CallsAreSound /\ AnswerIsTheRecord
    BY DEF GameInv
<1>1. calls[c].step = "count" /\ UNCHANGED <<clock, tables>>
    BY DEF load_invalid_attempt
<1>2. calls[c] \in Call /\ CallIsSound(c, calls[c]) /\ calls[c].cmd \in AllCommands
    BY <1>0, <1>1, BusyFacts
<1>3. Counted(calls[c])
    BY <1>1, <1>2 DEF CallIsSound
<1>4. calls[c].cmd \in Commands
    <2>1. calls[c].cmd.key > 0
        BY <1>3 DEF Counted
    <2>2. calls[c].cmd.key \in Int
        BY <1>2, AllCommandFacts
    <2> QED BY <1>0, <1>1, <2>1, <2>2, BusyFacts
<1> DEFINE n == counters[calls[c].cmd.version][calls[c].cmd.seat] + 1
<1>5. n \in Nat
    <2>1. calls[c].cmd.seat \in Seats /\ calls[c].cmd.version \in Versions
        BY <1>2, <1>4, CommandFacts, AllCommandFacts
    <2> QED BY <1>0, <2>1 DEF TypeOK
<1>6. CASE LimitReached(n) /\ ~CanForce(calls[c])
    <2>1. Finish(c, "engine_error")
        BY <1>6 DEF load_invalid_attempt
    <2>2. CallsType' /\ CallsAreSound' /\ AnswerIsTheRecord'
        BY <1>0, <1>1, <2>1, FinishFacts DEF Answers, Outcomes
    <2> QED BY <1>0, <1>1, <2>2, TablesUnchanged DEF TypeOK
<1>7. CASE ~(LimitReached(n) /\ ~CanForce(calls[c]))
    <2>1. PICK new : new = [calls[c] EXCEPT !.step = "commit", !.count = n]
        OBVIOUS
    <2>2. calls' = [calls EXCEPT ![c] = new] /\ UNCHANGED <<reply, scan>>
        <3>1. calls \in [Callers -> Call]
            BY <1>0 DEF TypeOK, Callers
        <3> QED BY <1>7, <2>1, <3>1 DEF load_invalid_attempt
    <2> HIDE DEF n
    <2>3. /\ new \in Call /\ new.cmd = calls[c].cmd /\ new.base = calls[c].base
          /\ new.step = "commit" /\ new.count = n
        BY <1>2, <1>5, <2>1 DEF Call, Steps
    <2>4. CanForce(new) <=> CanForce(calls[c])
        BY <2>3 DEF CanForce
    <2>5. CallIsSound(c, new)
        BY <1>1, <1>2, <1>7, <2>3, <2>4 DEF CallIsSound
    <2>6. CallsType' /\ CallsAreSound' /\ AnswerIsTheRecord'
        BY <1>0, <1>1, <2>2, <2>3, <2>5, GoOn
    <2> QED BY <1>0, <1>1, <2>6, TablesUnchanged DEF TypeOK
<1> QED BY <1>6, <1>7

\* The key is looked up again after a conflict.
LEMMA RecheckStep ==
    ASSUME GameInv, NEW c \in Callers, cached_outcome(c)
    PROVE  GameInv'
<1>0. TypeOK /\ CallsAreSound /\ AnswerIsTheRecord
    BY DEF GameInv
<1> DEFINE cmd == calls[c].cmd
           answer == IF records[cmd.key] = NoRow THEN "conflict" ELSE Cached(cmd)
<1>1. calls[c].step # "idle" /\ UNCHANGED <<clock, tables>> /\ Finish(c, answer)
    BY DEF cached_outcome
<1>2. cmd \in AllCommands
    BY <1>0, <1>1, BusyFacts
<1>3. /\ answer \in Answers
      /\ answer \in Outcomes => records[cmd.key] = [payload |-> cmd, outcome |-> answer]
      /\ answer = "idempotency_conflict" =>
            records[cmd.key] # NoRow /\ records[cmd.key].payload # cmd
    <2>1. CASE records[cmd.key] = NoRow
        BY <2>1 DEF Answers, Outcomes
    <2>2. CASE records[cmd.key] # NoRow
        BY <1>0, <1>2, <2>2, CachedFacts
    <2> QED BY <2>1, <2>2
<1>4. CallsType' /\ CallsAreSound' /\ AnswerIsTheRecord'
    <2> HIDE DEF answer
    <2> QED BY <1>0, <1>1, <1>3, FinishFacts
<1> QED BY <1>0, <1>1, <1>4, TablesUnchanged DEF TypeOK

\* Clients leave, the server dies, time passes.
LEMMA EnvironmentStep ==
    ASSUME GameInv, Tick \/ Crash \/ \E c \in Clients : Disconnect(c)
    PROVE  GameInv'
<1>0. TypeOK /\ CallsAreSound /\ AnswerIsTheRecord
    BY DEF GameInv
<1>1. calls \in [Callers -> Call]
    BY <1>0 DEF TypeOK, Callers
<1>2. CASE Tick
    <2>1. /\ UNCHANGED <<tables, calls, reply, scan>> /\ clock' = clock + 1 /\ clock < Horizon
        BY <1>2 DEF Tick
    <2>2. CallsType' /\ AnswerIsTheRecord'
        BY <1>0, <2>1 DEF TypeOK, CallsType, Callers, AnswerIsTheRecord, tables
    <2>3. clock' \in 0..Horizon
        BY <1>0, <2>1, Parameters DEF TypeOK
    <2>4. TypeOK'
        BY <1>0, <2>1, <2>3 DEF TypeOK, tables
    <2>5. Grows
        BY <1>0, <2>1 DEF Grows, tables, TypeOK
    <2>6. ASSUME NEW c \in Callers
          PROVE  CallIsSound(c, calls[c])'
        <3>1. PICK call \in Call : call = calls[c]
            BY <1>1
        <3>2. CallIsSound(c, call)'
            BY <1>0, <2>4, <2>5, <3>1, CallPersists DEF CallsAreSound
        <3>3. calls'[c] = call
            BY <2>1, <3>1
        <3> QED BY <3>2, <3>3 DEF CallIsSound, TimeoutIsDue, Counted, CallVerdict, CanForce, Seat, StateAt, Version
    <2>7. CallsAreSound'
        BY <2>6, Zenon DEF CallsAreSound
    <2> QED BY <2>1, <2>2, <2>3, <2>7, TablesUnchanged
<1>3. CASE Crash
    <2>1. /\ calls' = [c \in Callers |-> Idle] /\ scan' = "ok" /\ UNCHANGED <<clock, tables, reply>>
        BY <1>3 DEF Crash, Callers
    <2>2. CallsType' /\ AnswerIsTheRecord'
        BY <1>0, <2>1, IdleFacts DEF TypeOK, CallsType, Callers, AnswerIsTheRecord, tables
    <2>3. TypeOK'
        BY <1>0, <2>1, <2>2 DEF TypeOK, tables, CallsType, Callers
    <2>4. ASSUME NEW c \in Callers
          PROVE  CallIsSound(c, calls[c])'
        <3>1. calls'[c] = Idle
            BY <2>1
        <3>2. CallIsSound(c, Idle)
            BY <1>0, IdleFacts
        <3> QED BY <2>1, <3>1, <3>2 DEF tables, CallIsSound, TimeoutIsDue, Counted, CallVerdict,
                CanForce, Seat, StateAt, Version
    <2>5. CallsAreSound'
        BY <2>4, Zenon DEF CallsAreSound
    <2> QED BY <1>0, <2>1, <2>2, <2>5, TablesUnchanged DEF TypeOK
<1>4. ASSUME NEW c \in Clients, Disconnect(c)
      PROVE  GameInv'
    <2>1. calls' = [calls EXCEPT ![c] = Idle] /\ UNCHANGED <<clock, tables, reply, scan>>
        BY <1>4 DEF Disconnect
    <2>2. CallsType' /\ CallsAreSound' /\ AnswerIsTheRecord'
        BY <1>0, <2>1, IdleFacts, GoOn DEF Callers
    <2> QED BY <1>0, <2>1, <2>2, TablesUnchanged DEF TypeOK
<1> QED BY <1>2, <1>3, <1>4

-----------------------------------------------------------------------------
(* commit_action *)

\* A commit that brings a successor applies the move to the latest version:
\* the call's own move if it was accepted, the policy's if it was refused
\* for the last time.
LEMMA SuccessorFacts ==
    ASSUME TypeOK, CallsAreSound, NEW c \in Callers, NEW call, call = calls[c],
           call.step = "commit", Committable(call), NEW move \in Successor(call)
    PROVE  /\ call.base = Version /\ call.cmd.version = Version /\ Version < MaxVersion
           /\ StateAt(Version).phase = "active" /\ move \in LegalMoves
           /\ CallVerdict(call) = "accepted" =>
                 move = call.cmd.move /\ StateAt(Version).current = Seat(call.cmd)
           /\ CallVerdict(call) # "accepted" =>
                 /\ Counted(call) /\ LimitReached(call.count)
                 /\ CallVerdict(call) = "illegal" /\ move \in {"pass", "resign"}
<1>1. /\ call \in Call /\ CallIsSound(c, call) /\ call.cmd \in AllCommands
      /\ StateAt(call.base) \in State
    BY BusyFacts
<1>2. Version = call.cmd.version
    BY DEF Committable
<1>3. Version < MaxVersion
    <2>1. CASE c \in Clients
        <3>1. call.cmd.version \in 0..(MaxVersion - 1)
            BY <1>1, <2>1, CommandFacts DEF CallIsSound
        <3> QED BY <1>2, <3>1, Parameters
    <2>2. CASE c = Timer
        <3>1. PICK v \in 0..(MaxVersion - 1) : call.cmd = TimeoutCommand(v)
            BY <1>1, <2>2 DEF CallIsSound, TimeoutIsDue
        <3>2. v \in Versions
            BY Parameters DEF Versions
        <3>3. call.cmd.version = v
            BY <3>1, <3>2, TimeoutFacts
        <3> QED BY <1>2, <3>1, <3>3, Parameters
    <2> QED BY <2>1, <2>2 DEF Callers
<1>4. CASE CallVerdict(call) = "accepted"
    <2>1. move = call.cmd.move
        BY <1>4 DEF Successor
    <2>2. /\ StateAt(call.base).phase = "active" /\ Seat(call.cmd) = StateAt(call.base).current
          /\ call.cmd.version = call.base /\ call.cmd.move # "illegal"
        BY <1>1, <1>4 DEF CallVerdict, Verdict, State
    <2>3. move \in LegalMoves
        BY <1>1, <2>1, <2>2, AllCommandFacts DEF Moves
    <2> QED BY <1>2, <1>3, <1>4, <2>1, <2>2, <2>3
<1>5. CASE CallVerdict(call) # "accepted"
    <2>1. Counted(call) /\ LimitReached(call.count) /\ move = InvalidAttemptResponse
        BY <1>5 DEF Successor
    <2>2. CanForce(call) /\ CallVerdict(call) = "illegal"
        BY <1>1, <2>1 DEF CallIsSound, Counted
    <2>3. StateAt(call.base).phase = "active" /\ call.cmd.version = call.base
        BY <1>1, <2>2 DEF CanForce, Verdict, State
    <2>4. move \in {"pass", "resign"}
        BY <2>1, Parameters DEF LimitReached
    <2> QED BY <1>2, <1>3, <1>5, <2>1, <2>2, <2>3, <2>4 DEF LegalMoves
<1> QED BY <1>4, <1>5

\* What a commit does to the tables.
LEMMA CommitFacts ==
    ASSUME GameInv, NEW c \in Callers, commit_action(c), NEW call, call = calls[c]
    PROVE  /\ call \in Call /\ call.cmd \in AllCommands /\ call.step = "commit"
           /\ Committable(call) /\ records[call.cmd.key] = NoRow
           /\ CallVerdict(call) \in Outcomes
           /\ records'[call.cmd.key] = [payload |-> call.cmd, outcome |-> CallVerdict(call)]
           /\ [payload |-> call.cmd, outcome |-> CallVerdict(call)] \in IdempotencyRecord
           /\ records' \in [Keys -> IdempotencyRecord \cup {NoRow}]
           /\ \A k \in Keys \ {call.cmd.key} : records'[k] = records[k]
           /\ Finish(c, CallVerdict(call))
           /\ UNCHANGED clock
           /\ \/ Successor(call) = {} /\ UNCHANGED <<log, deadlines, replays>>
              \/ \E move \in Successor(call) :
                    LET state == apply_move(StateAt(Version), move)
                    IN /\ state \in State
                       /\ log' = Append(log, [key |-> call.cmd.key, move |-> move, state |-> state])
                       /\ deadlines' = Append(deadlines, NextDeadline(state, call.at))
                       /\ replays' = IF state.phase = "finished"
                                     THEN replays \cup {Version + 1} ELSE replays
           /\ counters' = IF Counted(call)
                          THEN [counters EXCEPT ![call.cmd.version] =
                                   [@ EXCEPT ![call.cmd.seat] = call.count]]
                          ELSE counters
<1>0. TypeOK /\ CallsAreSound
    BY DEF GameInv
<1>1. /\ call.step = "commit" /\ Committable(call) /\ ReplaceGame(call)
      /\ counters' = IF Counted(call)
                     THEN [counters EXCEPT ![call.cmd.version] =
                              [@ EXCEPT ![call.cmd.seat] = call.count]]
                     ELSE counters
      /\ records' = [records EXCEPT ![call.cmd.key] =
                        [payload |-> call.cmd, outcome |-> CallVerdict(call)]]
      /\ Finish(c, CallVerdict(call))
      /\ UNCHANGED clock
    BY Zenon DEF commit_action
<1>2. call \in Call /\ call.cmd \in AllCommands /\ StateAt(call.base) \in State
    BY <1>0, <1>1, BusyFacts
<1>3. CallVerdict(call) \in Outcomes
    BY <1>2, VerdictFacts DEF CallVerdict
<1>4. [payload |-> call.cmd, outcome |-> CallVerdict(call)] \in IdempotencyRecord
    BY <1>2, <1>3 DEF IdempotencyRecord
<1>5. /\ records'[call.cmd.key] = [payload |-> call.cmd, outcome |-> CallVerdict(call)]
      /\ records' \in [Keys -> IdempotencyRecord \cup {NoRow}]
      /\ \A k \in Keys \ {call.cmd.key} : records'[k] = records[k]
    <2>1. call.cmd.key \in Keys /\ records \in [Keys -> IdempotencyRecord \cup {NoRow}]
        BY <1>0, <1>2, AllCommandFacts DEF TypeOK
    <2> DEFINE r == [payload |-> call.cmd, outcome |-> CallVerdict(call)]
    <2>2. records' = [records EXCEPT ![call.cmd.key] = r] /\ r \in IdempotencyRecord
        BY <1>1, <1>4
    <2> HIDE DEF r
    <2>3. /\ records'[call.cmd.key] = r
          /\ records' \in [Keys -> IdempotencyRecord \cup {NoRow}]
          /\ \A k \in Keys \ {call.cmd.key} : records'[k] = records[k]
        BY <2>1, <2>2
    <2> QED BY <2>3 DEF r
<1>6. records[call.cmd.key] = NoRow
    BY <1>1 DEF Committable
<1>7. \/ Successor(call) = {} /\ UNCHANGED <<log, deadlines, replays>>
      \/ \E move \in Successor(call) :
            LET state == apply_move(StateAt(Version), move)
            IN /\ state \in State
               /\ log' = Append(log, [key |-> call.cmd.key, move |-> move, state |-> state])
               /\ deadlines' = Append(deadlines, NextDeadline(state, call.at))
               /\ replays' = IF state.phase = "finished"
                             THEN replays \cup {Version + 1} ELSE replays
    <2>1. CASE Successor(call) = {} /\ UNCHANGED <<log, deadlines, replays>>
        BY <2>1
    <2>2. ASSUME NEW move \in Successor(call),
                 LET state == apply_move(StateAt(call.base), move)
                 IN /\ log' = Append(log, [key |-> call.cmd.key, move |-> move, state |-> state])
                    /\ deadlines' = Append(deadlines, NextDeadline(state, call.at))
                    /\ replays' = IF state.phase = "finished"
                                  THEN replays \cup {Version + 1} ELSE replays
          PROVE  LET state == apply_move(StateAt(Version), move)
                 IN /\ state \in State
                    /\ log' = Append(log, [key |-> call.cmd.key, move |-> move, state |-> state])
                    /\ deadlines' = Append(deadlines, NextDeadline(state, call.at))
                    /\ replays' = IF state.phase = "finished"
                                  THEN replays \cup {Version + 1} ELSE replays
        <3>1. call.base = Version /\ move \in LegalMoves
            BY <1>0, <1>1, SuccessorFacts
        <3>2. apply_move(StateAt(Version), move) \in State
            BY <1>2, <3>1, ApplyType
        <3> QED BY <2>2, <3>1, <3>2, Zenon
    <2> QED BY <1>1, <2>1, <2>2, Zenon DEF ReplaceGame
<1> QED BY <1>1, <1>2, <1>3, <1>4, <1>5, <1>6, <1>7, Zenon

\* The log as a commit leaves it: as it was, or with one more entry.
LEMMA CommitExtends ==
    ASSUME GameInv, NEW c \in Callers, commit_action(c), NEW call, call = calls[c]
    PROVE  /\ Grows
           /\ log' \in Seq(Entry) /\ Len(log') \in 1..(MaxVersion + 1)
           /\ deadlines' \in Seq(TurnDeadline \cup {NoRow}) /\ Len(deadlines') = Len(log')
           /\ replays' \subseteq Versions
           /\ \/ /\ Successor(call) = {} /\ UNCHANGED <<log, deadlines, replays>>
              \/ /\ Len(log') = Len(log) + 1
                 /\ \E move \in Successor(call) :
                       LET state == apply_move(StateAt(Version), move)
                       IN /\ state \in State
                          /\ log'[Len(log) + 1].key = call.cmd.key
                          /\ log'[Len(log) + 1].move = move
                          /\ log'[Len(log) + 1].state = state
                          /\ log' = Append(log, [key |-> call.cmd.key, move |-> move, state |-> state])
                          /\ deadlines'[Len(log) + 1] = NextDeadline(state, call.at)
                          /\ replays' = IF state.phase = "finished"
                                        THEN replays \cup {Version + 1} ELSE replays
<1>0. TypeOK /\ CallsAreSound /\ clock' = clock
    BY CommitFacts DEF GameInv
<1>1. /\ log \in Seq(Entry) /\ Len(log) \in 1..(MaxVersion + 1) /\ Len(log) \in Nat
      /\ deadlines \in Seq(TurnDeadline \cup {NoRow}) /\ Len(deadlines) = Len(log)
      /\ replays \subseteq Versions /\ clock \in Int
    BY <1>0 DEF TypeOK
<1>2. CASE Successor(call) = {} /\ UNCHANGED <<log, deadlines, replays>>
    <2>1. Grows
        BY <1>0, <1>1, <1>2 DEF Grows
    <2> QED BY <1>1, <1>2, <2>1
<1>3. ASSUME NEW move \in Successor(call), NEW state, state = apply_move(StateAt(Version), move),
             state \in State,
             log' = Append(log, [key |-> call.cmd.key, move |-> move, state |-> state]),
             deadlines' = Append(deadlines, NextDeadline(state, call.at)),
             replays' = IF state.phase = "finished" THEN replays \cup {Version + 1} ELSE replays
      PROVE  /\ Grows
             /\ log' \in Seq(Entry) /\ Len(log') \in 1..(MaxVersion + 1)
             /\ deadlines' \in Seq(TurnDeadline \cup {NoRow}) /\ Len(deadlines') = Len(log')
             /\ replays' \subseteq Versions
             /\ Len(log') = Len(log) + 1
             /\ log'[Len(log) + 1].key = call.cmd.key
             /\ log'[Len(log) + 1].move = move
             /\ log'[Len(log) + 1].state = state
             /\ deadlines'[Len(log) + 1] = NextDeadline(state, call.at)
    <2>1. call \in Call /\ call.cmd \in AllCommands /\ call.step = "commit" /\ Committable(call)
        BY CommitFacts
    <2>2. Version < MaxVersion /\ move \in LegalMoves
        BY <1>0, <2>1, SuccessorFacts
    <2>3. PICK e : e = [key |-> call.cmd.key, move |-> move, state |-> state]
        OBVIOUS
    <2>4. e \in Entry /\ e.key = call.cmd.key /\ e.move = move /\ e.state = state
        BY <1>3, <2>1, <2>2, <2>3, AllCommandFacts DEF Entry
    <2>5. NextDeadline(state, call.at) \in TurnDeadline \cup {NoRow}
        BY <1>3, <2>1, Parameters DEF NextDeadline, TurnDeadline, State, Call
    <2>6. PICK d \in TurnDeadline \cup {NoRow} : d = NextDeadline(state, call.at)
        BY <2>5
    <2>7. log' = Append(log, e) /\ deadlines' = Append(deadlines, d)
        BY <1>3, <2>3, <2>6
    <2>8. /\ log' \in Seq(Entry) /\ Len(log') = Len(log) + 1
          /\ log'[Len(log) + 1] = e /\ \A i \in 1..Len(log) : log'[i] = log[i]
        BY <1>1, <2>4, <2>7
    <2>9. /\ deadlines' \in Seq(TurnDeadline \cup {NoRow}) /\ Len(deadlines') = Len(log) + 1
          /\ deadlines'[Len(log) + 1] = d /\ \A i \in 1..Len(log) : deadlines'[i] = deadlines[i]
        BY <1>1, <2>6, <2>7
    <2>10. Len(log') \in 1..(MaxVersion + 1) /\ Version + 1 \in Versions
        BY <1>1, <2>2, <2>8, Parameters DEF Version, Versions
    <2>11. Grows
        BY <1>0, <1>1, <2>8, <2>9 DEF Grows
    <2>12. replays' \subseteq Versions
        BY <1>1, <1>3, <2>10
    <2> QED BY <2>4, <2>6, <2>8, <2>9, <2>10, <2>11, <2>12
<1>4. \/ Successor(call) = {} /\ UNCHANGED <<log, deadlines, replays>>
      \/ \E move \in Successor(call) :
            LET state == apply_move(StateAt(Version), move)
            IN /\ state \in State
               /\ log' = Append(log, [key |-> call.cmd.key, move |-> move, state |-> state])
               /\ deadlines' = Append(deadlines, NextDeadline(state, call.at))
               /\ replays' = IF state.phase = "finished"
                             THEN replays \cup {Version + 1} ELSE replays
    BY CommitFacts, ZenonT(60)
<1> QED BY <1>2, <1>3, <1>4, ZenonT(40)

\* The committed key is new to the log, and other keys keep their records.
LEMMA CommitKeyIsNew ==
    ASSUME GameInv, NEW c \in Callers, commit_action(c), NEW call, call = calls[c]
    PROVE  /\ call.cmd.key \in Keys /\ call.cmd.key # 0 /\ call.cmd.key \in Int
           /\ \A i \in 1..Len(log) : log[i].key # call.cmd.key
           /\ records'[call.cmd.key] # NoRow
           /\ records'[call.cmd.key].payload = call.cmd
           /\ records'[call.cmd.key].outcome = CallVerdict(call)
           /\ \A i \in 2..Len(log) : /\ log[i].key \in Keys
                                     /\ records[log[i].key] # NoRow
                                     /\ records'[log[i].key] = records[log[i].key]
<1>1. call.cmd.key \in Keys /\ call.cmd.key # 0 /\ call.cmd.key \in Int
    BY CommitFacts, AllCommandFacts
<1>2. LogIsRecorded /\ Len(log) \in Nat
    BY DEF GameInv, TypeOK
<1>3. records[call.cmd.key] = NoRow /\ \A k \in Keys \ {call.cmd.key} : records'[k] = records[k]
    BY CommitFacts
<1>4. \A i \in 2..Len(log) : log[i].key \in Keys /\ records[log[i].key] # NoRow
    BY <1>2 DEF LogIsRecorded
<1>5. \A i \in 2..Len(log) : log[i].key # call.cmd.key /\ records'[log[i].key] = records[log[i].key]
    BY <1>3, <1>4
<1>6. \A i \in 1..Len(log) : log[i].key # call.cmd.key
    BY <1>1, <1>2, <1>5 DEF LogIsRecorded
<1>7. PICK r : r = [payload |-> call.cmd, outcome |-> CallVerdict(call)]
    OBVIOUS
<1>8. records'[call.cmd.key] = r /\ r \in IdempotencyRecord
    BY <1>7, CommitFacts
<1>9. r.payload = call.cmd /\ r.outcome = CallVerdict(call) /\ r # NoRow
    BY <1>7, <1>8, Parameters
<1> QED BY <1>1, <1>4, <1>5, <1>6, <1>8, <1>9

\* A commit keeps LogIsRecorded.
LEMMA CommitLog ==
    ASSUME GameInv, NEW c \in Callers, commit_action(c)
    PROVE  LogIsRecorded'
<1>1. PICK call : call = calls[c]
    OBVIOUS
<1>2. LogIsRecorded /\ Len(log) \in Nat /\ Len(log) >= 1
    BY DEF GameInv, TypeOK
<1>3. \A i \in 1..Len(log) : log'[i] = log[i]
    BY <1>1, CommitExtends DEF Grows
<1>4. /\ call.cmd.key \in Keys /\ call.cmd.key # 0
      /\ \A i \in 1..Len(log) : log[i].key # call.cmd.key
      /\ records'[call.cmd.key] # NoRow
      /\ \A i \in 2..Len(log) : /\ log[i].key \in Keys
                                /\ records[log[i].key] # NoRow
                                /\ records'[log[i].key] = records[log[i].key]
    BY <1>1, CommitKeyIsNew
<1>5. log'[1].key = 0
    BY <1>2, <1>3 DEF LogIsRecorded
<1>6. \/ Len(log') = Len(log)
      \/ Len(log') = Len(log) + 1 /\ log'[Len(log) + 1].key = call.cmd.key
    <2>1. \/ log' = log
          \/ /\ Len(log') = Len(log) + 1
             /\ \E move \in Successor(call) : log'[Len(log) + 1].key = call.cmd.key
        BY <1>1, CommitExtends, ZenonT(60)
    <2> QED BY <2>1
<1>7. ASSUME NEW i \in 2..Len(log')
      PROVE  log'[i].key \in Keys /\ records'[log'[i].key] # NoRow
    <2>1. CASE i <= Len(log)
        BY <1>2, <1>3, <1>4, <2>1
    <2>2. CASE i > Len(log)
        <3>1. i = Len(log) + 1 /\ log'[i].key = call.cmd.key
            BY <1>2, <1>6, <2>2
        <3> QED BY <1>4, <3>1
    <2> QED BY <1>2, <2>1, <2>2
<1>8. ASSUME NEW i \in 1..Len(log'), NEW j \in 1..Len(log'), log'[i].key = log'[j].key
      PROVE  i = j
    <2>1. \A n \in 1..Len(log) : log'[n].key = log[n].key /\ log'[n].key # call.cmd.key
        BY <1>3, <1>4
    <2>2. CASE i <= Len(log) /\ j <= Len(log)
        BY <1>2, <1>8, <2>1, <2>2 DEF LogIsRecorded
    <2>3. CASE i > Len(log) \/ j > Len(log)
        BY <1>2, <1>6, <1>8, <2>1, <2>3
    <2> QED BY <1>2, <2>2, <2>3
<1> QED BY <1>5, <1>7, <1>8 DEF LogIsRecorded

\* A commit keeps TurnsHaveDeadlines: it extends only an active game.
LEMMA CommitTurns ==
    ASSUME GameInv, NEW c \in Callers, commit_action(c)
    PROVE  TurnsHaveDeadlines'
<1>0. TypeOK /\ CallsAreSound /\ TurnsHaveDeadlines /\ Len(log) \in Nat /\ Len(log) >= 1
    BY DEF GameInv, TypeOK
<1>1. PICK call : call = calls[c]
    OBVIOUS
<1>2. \A i \in 1..Len(log) : log'[i] = log[i] /\ deadlines'[i] = deadlines[i]
    BY <1>1, CommitExtends DEF Grows
<1>3. CASE UNCHANGED <<log, deadlines, replays>>
    BY <1>0, <1>3 DEF TurnsHaveDeadlines, Active, StateAt, Version
<1>4. ASSUME NEW move \in Successor(call), NEW state \in State,
             Len(log') = Len(log) + 1,
             log'[Len(log) + 1].state = state,
             deadlines'[Len(log) + 1] = NextDeadline(state, call.at),
             replays' = IF state.phase = "finished" THEN replays \cup {Version + 1} ELSE replays
      PROVE  TurnsHaveDeadlines'
    <2>1. StateAt(Version).phase = "active"
        BY <1>0, <1>1, CommitFacts, SuccessorFacts
    <2>2. Version + 1 = Len(log) /\ Version' = Len(log)
        BY <1>0, <1>4 DEF Version
    <2>3. log[Len(log)].state.phase = "active"
        BY <2>1, <2>2 DEF StateAt
    <2>4. \A i \in 1..Len(log) :
            /\ log'[i].state.phase = "active"
            /\ deadlines'[i] # NoRow /\ deadlines'[i].seat = log'[i].state.current
        BY <1>0, <1>2, <2>3 DEF TurnsHaveDeadlines
    <2>5. /\ state.phase = "active" =>
                deadlines'[Len(log) + 1] # NoRow /\ deadlines'[Len(log) + 1].seat = state.current
          /\ state.phase # "active" => deadlines'[Len(log) + 1] = NoRow /\ state.phase = "finished"
        <3>1. CASE state.phase = "active"
            <4>1. call.at \in Nat
                <5>1. call \in Call
                    BY <1>1, CommitFacts
                <5> QED BY <5>1 DEF Call
            <4>2. PICK d : d = [seat |-> state.current, at |-> call.at + TurnDuration]
                OBVIOUS
            <4>3. d \in TurnDeadline
                BY <4>1, <4>2, Parameters DEF TurnDeadline, State
            <4>4. d.seat = state.current /\ d # NoRow
                BY <4>2, <4>3, Parameters
            <4>5. deadlines'[Len(log) + 1] = d
                BY <1>4, <3>1, <4>2 DEF NextDeadline
            <4> QED BY <3>1, <4>4, <4>5
        <3>2. CASE state.phase # "active"
            BY <1>4, <3>2 DEF NextDeadline, State
        <3> QED BY <3>1, <3>2
    <2>6. \A i \in 1..Len(log') :
            /\ log'[i].state.phase = "active" =>
                  deadlines'[i] # NoRow /\ deadlines'[i].seat = log'[i].state.current
            /\ log'[i].state.phase # "active" => deadlines'[i] = NoRow /\ i = Len(log')
        BY <1>0, <1>4, <2>4, <2>5
    <2>7. Active' <=> state.phase = "active"
        BY <1>4, <2>2 DEF Active, StateAt
    <2>8. replays = {}
        BY <1>0, <2>1 DEF TurnsHaveDeadlines, Active
    <2>9. replays' = IF Active' THEN {} ELSE {Version'}
        BY <1>4, <2>2, <2>5, <2>7, <2>8
    <2> QED BY <2>6, <2>9 DEF TurnsHaveDeadlines
<1>5. \/ UNCHANGED <<log, deadlines, replays>>
      \/ \E move \in Successor(call), state \in State :
            /\ Len(log') = Len(log) + 1
            /\ log'[Len(log) + 1].state = state
            /\ deadlines'[Len(log) + 1] = NextDeadline(state, call.at)
            /\ replays' = IF state.phase = "finished" THEN replays \cup {Version + 1} ELSE replays
    BY <1>1, CommitExtends, ZenonT(60)
<1> QED BY <1>3, <1>4, <1>5

\* A commit keeps KeyIsDecided: of the keys that have a record, and of its own.
LEMMA CommitKeys ==
    ASSUME GameInv, NEW c \in Callers, commit_action(c), NEW k \in Keys
    PROVE  KeyIsDecided(k)'
<1>0. /\ TypeOK /\ CallsAreSound /\ KeyIsDecided(k)
      /\ Len(log) \in Nat /\ Len(log) >= 1
    BY DEF GameInv, TypeOK
<1>1. PICK call : call = calls[c]
    OBVIOUS
<1>2. \A i \in 1..Len(log) : log'[i] = log[i] /\ deadlines'[i] = deadlines[i]
    BY <1>1, CommitExtends DEF Grows
<1>3. /\ \A i \in 1..Len(log) : log[i].key # call.cmd.key
      /\ records'[call.cmd.key].payload = call.cmd
      /\ records'[call.cmd.key].outcome = CallVerdict(call)
    BY <1>1, CommitKeyIsNew
<1>4. /\ call.cmd \in AllCommands /\ call.step = "commit" /\ Committable(call)
      /\ \A n \in Keys \ {call.cmd.key} : records'[n] = records[n]
    BY <1>1, CommitFacts
<1>5. \/ Successor(call) = {} /\ Len(log') = Len(log)
      \/ /\ Len(log') = Len(log) + 1 /\ log'[Len(log) + 1].key = call.cmd.key
         /\ \E move \in Successor(call) : log'[Len(log) + 1].move = move
    <2>1. \/ Successor(call) = {} /\ log' = log
          \/ /\ Len(log') = Len(log) + 1
             /\ \E move \in Successor(call) : /\ log'[Len(log) + 1].key = call.cmd.key
                                              /\ log'[Len(log) + 1].move = move
        BY <1>1, CommitExtends, ZenonT(60)
    <2> QED BY <2>1
<1>6. Len(log') \in Nat
    BY <1>0, <1>5
<1>7. ASSUME NEW cmd \in AllCommands, cmd.version + 1 <= Len(log)
      PROVE  Seat(cmd)' = Seat(cmd) /\ StateAt(cmd.version)' = StateAt(cmd.version)
    <2>1. cmd.version + 1 \in 1..Len(log)
        BY <1>0, <1>7, AllCommandFacts DEF Versions
    <2> QED BY <1>2, <2>1 DEF Seat, StateAt
<1>8. CASE k # call.cmd.key
    <2>1. records'[k] = records[k]
        BY <1>4, <1>8
    <2>2. SUFFICES ASSUME records[k] # NoRow
                   PROVE  KeyIsDecided(k)'
        BY <2>1 DEF KeyIsDecided
    <2>3. records[k] \in IdempotencyRecord
        BY <1>0, <2>2 DEF TypeOK
    <2>4. PICK cmd \in AllCommands : cmd = records[k].payload
        BY <2>3 DEF IdempotencyRecord
    <2>5. cmd.version \in Nat
        BY AllCommandFacts DEF Versions
    <2>6. \A i \in 1..Len(log') : log'[i].key = k => i <= Len(log) /\ log[i].key = k
        BY <1>0, <1>2, <1>5, <1>8
    <2>7. ASSUME records[k].outcome = "accepted"
          PROVE  /\ cmd.version + 2 <= Len(log')
                 /\ log'[cmd.version + 2].key = k
                 /\ log'[cmd.version + 2].move = cmd.move
                 /\ StateAt(cmd.version)'.current = Seat(cmd)'
        <3>1. /\ cmd.version + 2 <= Len(log)
              /\ log[cmd.version + 2].key = k
              /\ log[cmd.version + 2].move = cmd.move
              /\ StateAt(cmd.version).current = Seat(cmd)
            BY <1>0, <2>2, <2>4, <2>7 DEF KeyIsDecided
        <3>2. cmd.version + 2 \in 1..Len(log) /\ cmd.version + 1 <= Len(log)
            BY <1>0, <2>5, <3>1
        <3>3. log'[cmd.version + 2] = log[cmd.version + 2]
            BY <1>2, <3>2
        <3>4. cmd.version + 2 <= Len(log')
            BY <1>0, <1>5, <2>5, <3>2
        <3> QED BY <1>7, <3>1, <3>2, <3>3, <3>4
    <2>8. ASSUME records[k].outcome = "illegal"
          PROVE  \A i \in 1..Len(log') : log'[i].key = k => i = cmd.version + 2
        BY <1>0, <2>2, <2>4, <2>6, <2>8 DEF KeyIsDecided
    <2>9. ASSUME records[k].outcome = "version_conflict"
          PROVE  \A i \in 1..Len(log') : log'[i].key # k
        BY <1>0, <2>2, <2>4, <2>6, <2>9 DEF KeyIsDecided
    <2> QED BY <2>1, <2>4, <2>7, <2>8, <2>9 DEF KeyIsDecided, StateAt, Seat
<1>9. CASE k = call.cmd.key
    <2>1. records'[k].payload = call.cmd /\ records'[k].outcome = CallVerdict(call)
        BY <1>3, <1>9
    <2>2. ASSUME NEW move \in Successor(call)
          PROVE  /\ call.cmd.version + 2 = Len(log) + 1
                 /\ call.cmd.version + 1 <= Len(log)
                 /\ CallVerdict(call) = "accepted" =>
                       /\ move = call.cmd.move
                       /\ StateAt(call.cmd.version).current = Seat(call.cmd)
        <3>1. /\ call.cmd.version = Version
              /\ CallVerdict(call) = "accepted" =>
                    move = call.cmd.move /\ StateAt(Version).current = Seat(call.cmd)
            BY <1>0, <1>1, <1>4, SuccessorFacts
        <3> QED BY <1>0, <3>1 DEF Version
    <2>3. \A i \in 1..Len(log') : log'[i].key = k => i = Len(log) + 1 /\ Len(log') = Len(log) + 1
        BY <1>0, <1>2, <1>3, <1>5, <1>9
    <2>4. ASSUME CallVerdict(call) = "accepted"
          PROVE  /\ call.cmd.version + 2 <= Len(log')
                 /\ log'[call.cmd.version + 2].key = k
                 /\ log'[call.cmd.version + 2].move = call.cmd.move
                 /\ StateAt(call.cmd.version)'.current = Seat(call.cmd)'
        <3>1. Successor(call) = {call.cmd.move}
            BY <2>4 DEF Successor
        <3>2. /\ Len(log') = Len(log) + 1
              /\ log'[Len(log) + 1].key = call.cmd.key /\ log'[Len(log) + 1].move = call.cmd.move
            BY <1>5, <3>1
        <3>3. /\ call.cmd.version + 2 = Len(log) + 1 /\ call.cmd.version + 1 <= Len(log)
              /\ StateAt(call.cmd.version).current = Seat(call.cmd)
            BY <2>2, <2>4, <3>1
        <3> QED BY <1>0, <1>4, <1>7, <1>9, <3>2, <3>3
    <2>5. \A i \in 1..Len(log') : log'[i].key = k => i = call.cmd.version + 2
        BY <1>0, <1>5, <2>2, <2>3
    <2>6. ASSUME CallVerdict(call) = "version_conflict"
          PROVE  \A i \in 1..Len(log') : log'[i].key # k
        <3>1. Successor(call) = {}
            BY <2>6 DEF Successor, Counted
        <3> QED BY <1>0, <1>5, <2>3, <3>1
    <2> QED BY <2>1, <2>4, <2>5, <2>6 DEF KeyIsDecided, StateAt, Seat
<1> QED BY <1>8, <1>9

\* The counters after a commit: one more for a refusal that counts.
LEMMA CommitCounts ==
    ASSUME GameInv, NEW c \in Callers, commit_action(c), NEW call, call = calls[c]
    PROVE  /\ counters' \in [Versions -> [Seats -> Nat]]
           /\ Counted(call) =>
                 /\ call.cmd \in Commands /\ call.cmd.key > 0
                 /\ CallVerdict(call) = "illegal"
                 /\ call.cmd.version \in Versions /\ call.cmd.seat \in Seats
                 /\ call.count = counters[call.cmd.version][call.cmd.seat] + 1
                 /\ counters'[call.cmd.version][call.cmd.seat] = call.count
           /\ \A v \in Versions, s \in Seats :
                 ~(Counted(call) /\ v = call.cmd.version /\ s = call.cmd.seat)
                     => counters'[v][s] = counters[v][s]
<1>0. TypeOK /\ CallsAreSound /\ counters \in [Versions -> [Seats -> Nat]]
    BY DEF GameInv, TypeOK
<1>1. call \in Call /\ call.cmd \in AllCommands /\ call.step = "commit" /\ Committable(call)
    BY CommitFacts
<1>2. counters' = IF Counted(call)
                  THEN [counters EXCEPT ![call.cmd.version] =
                           [@ EXCEPT ![call.cmd.seat] = call.count]]
                  ELSE counters
    BY CommitFacts, ZenonT(60)
<1>3. CASE ~Counted(call)
    BY <1>0, <1>2, <1>3
<1>4. CASE Counted(call)
    <2>1. call.cmd.key > 0 /\ CallVerdict(call) = "illegal"
        BY <1>4 DEF Counted
    <2>2. call.cmd \in Commands
        <3>1. call.cmd.key \in Int
            BY <1>1, AllCommandFacts
        <3> QED BY <1>0, <1>1, <2>1, <3>1, BusyFacts
    <2>3. call.cmd.version \in Versions /\ call.cmd.seat \in Seats
        BY <1>1, <2>2, CommandFacts, AllCommandFacts
    <2>4. call.count \in Nat
        BY <1>1 DEF Call
    <2>5. counters[call.cmd.version][call.cmd.seat] = call.count - 1
        BY <1>1, <1>4 DEF Committable
    <2>6. call.count = counters[call.cmd.version][call.cmd.seat] + 1
        BY <1>0, <2>3, <2>4, <2>5
    <2>7. PICK v, s, n : v = call.cmd.version /\ s = call.cmd.seat /\ n = call.count
        OBVIOUS
    <2>8. PICK row \in [Seats -> Nat] : row = [counters[v] EXCEPT ![s] = n]
        BY <1>0, <2>3, <2>4, <2>7
    <2>9. counters' = [counters EXCEPT ![v] = row]
        BY <1>2, <1>4, <2>7, <2>8
    <2>10. row[s] = n /\ \A t \in Seats : t # s => row[t] = counters[v][t]
        BY <1>0, <2>3, <2>7, <2>8
    <2>11. /\ counters' \in [Versions -> [Seats -> Nat]]
           /\ counters'[v] = row /\ \A w \in Versions : w # v => counters'[w] = counters[w]
        BY <1>0, <2>3, <2>7, <2>9
    <2>12. ASSUME NEW w \in Versions, NEW t \in Seats, ~(w = v /\ t = s)
           PROVE  counters'[w][t] = counters[w][t]
        BY <2>10, <2>11, <2>12
    <2> QED BY <1>4, <2>1, <2>2, <2>3, <2>6, <2>7, <2>10, <2>11, <2>12
<1> QED BY <1>3, <1>4

\* A commit keeps CountersCount: a counted refusal is one that no other call
\* has recorded.
LEMMA CommitCounters ==
    ASSUME GameInv, NEW c \in Callers, commit_action(c)
    PROVE  CountersCount'
<1>0. /\ TypeOK /\ CountersCount
      /\ counters \in [Versions -> [Seats -> Nat]]
    BY DEF GameInv, TypeOK
<1>1. PICK call : call = calls[c]
    OBVIOUS
<1>2. /\ call.cmd.key \in Keys /\ call.cmd.key \in Int
      /\ records'[call.cmd.key] # NoRow
      /\ records'[call.cmd.key].payload = call.cmd
      /\ records'[call.cmd.key].outcome = CallVerdict(call)
    BY <1>1, CommitKeyIsNew
<1>3. /\ records[call.cmd.key] = NoRow
      /\ \A n \in Keys \ {call.cmd.key} : records'[n] = records[n]
    BY <1>1, CommitFacts
<1>4. /\ Counted(call) =>
            /\ call.cmd.key > 0 /\ CallVerdict(call) = "illegal"
            /\ call.count = counters[call.cmd.version][call.cmd.seat] + 1
            /\ counters'[call.cmd.version][call.cmd.seat] = call.count
      /\ \A v \in Versions, s \in Seats :
            ~(Counted(call) /\ v = call.cmd.version /\ s = call.cmd.seat)
                => counters'[v][s] = counters[v][s]
    BY <1>1, CommitCounts
<1>5. ASSUME NEW v \in Versions, NEW s \in Seats
      PROVE  IsFiniteSet(Refusals(v, s)') /\ counters'[v][s] = Cardinality(Refusals(v, s)')
    <2>1. /\ IsFiniteSet(Refusals(v, s)) /\ counters[v][s] = Cardinality(Refusals(v, s))
        BY <1>0 DEF CountersCount
    <2>2. CASE Counted(call) /\ v = call.cmd.version /\ s = call.cmd.seat
        <3>1. Refusals(v, s)' = Refusals(v, s) \cup {call.cmd.key}
            BY <1>2, <1>3, <1>4, <2>2 DEF Refusals
        <3>2. call.cmd.key \notin Refusals(v, s)
            BY <1>3 DEF Refusals
        <3>3. /\ IsFiniteSet(Refusals(v, s) \cup {call.cmd.key})
              /\ Cardinality(Refusals(v, s) \cup {call.cmd.key}) = Cardinality(Refusals(v, s)) + 1
            BY <2>1, <3>2, FS_AddElement
        <3> QED BY <1>4, <2>1, <2>2, <3>1, <3>3
    <2>3. CASE ~(Counted(call) /\ v = call.cmd.version /\ s = call.cmd.seat)
        <3>1. ~(/\ call.cmd.key > 0 /\ CallVerdict(call) = "illegal"
                /\ call.cmd.version = v /\ call.cmd.seat = s)
            BY <2>3 DEF Counted
        <3>2. Refusals(v, s)' = Refusals(v, s)
            BY <1>2, <1>3, <3>1 DEF Refusals
        <3> QED BY <1>4, <2>1, <2>3, <3>2
    <2> QED BY <2>2, <2>3
<1> QED BY <1>5 DEF CountersCount

\* A commit keeps ForcedAtTheLimit.  A counter cannot pass the limit: at the
\* limit the turn is over, and a refusal that would count for it again would
\* have to bring a successor of that turn.
LEMMA CommitForced ==
    ASSUME GameInv, NEW c \in Callers, commit_action(c)
    PROVE  ForcedAtTheLimit'
<1>0. /\ TypeOK /\ CallsAreSound /\ ForcedAtTheLimit
      /\ counters \in [Versions -> [Seats -> Nat]]
      /\ Len(log) \in Nat /\ Len(log) >= 1
      /\ InvalidAttemptLimit \in Nat
    BY Parameters DEF GameInv, TypeOK
<1>1. PICK call : call = calls[c]
    OBVIOUS
<1>2. SUFFICES ASSUME InvalidAttemptResponse # "reject_only",
                      NEW v \in Versions, NEW s \in Seats
               PROVE  /\ counters'[v][s] <= InvalidAttemptLimit
                      /\ counters'[v][s] = InvalidAttemptLimit <=>
                            /\ v < Version'
                            /\ log'[v + 2].key > 0
                            /\ records'[log'[v + 2].key].outcome = "illegal"
                            /\ records'[log'[v + 2].key].payload.seat = s
    BY DEF ForcedAtTheLimit
<1> DEFINE Forced == /\ v < Version
                     /\ log[v + 2].key > 0
                     /\ records[log[v + 2].key].outcome = "illegal"
                     /\ records[log[v + 2].key].payload.seat = s
<1>3. /\ counters[v][s] <= InvalidAttemptLimit
      /\ counters[v][s] = InvalidAttemptLimit <=> Forced
      /\ counters[v][s] \in Nat
    BY <1>0, <1>2 DEF ForcedAtTheLimit
<1>4. /\ \A i \in 1..Len(log) : log'[i] = log[i]
      /\ v \in Nat
    BY <1>1, CommitExtends DEF Grows, Versions
<1>5. \/ Successor(call) = {} /\ Len(log') = Len(log)
      \/ /\ Len(log') = Len(log) + 1 /\ log'[Len(log) + 1].key = call.cmd.key
         /\ Successor(call) # {}
    <2>1. \/ Successor(call) = {} /\ log' = log
          \/ /\ Len(log') = Len(log) + 1
             /\ \E move \in Successor(call) : log'[Len(log) + 1].key = call.cmd.key
        BY <1>1, CommitExtends, ZenonT(60)
    <2> QED BY <2>1
<1>6. /\ records'[call.cmd.key].payload = call.cmd
      /\ records'[call.cmd.key].outcome = CallVerdict(call)
      /\ \A i \in 2..Len(log) : records'[log[i].key] = records[log[i].key]
    BY <1>1, CommitKeyIsNew
<1>7. /\ Counted(call) =>
            /\ call.cmd.key > 0 /\ CallVerdict(call) = "illegal"
            /\ call.count = counters[call.cmd.version][call.cmd.seat] + 1
            /\ counters'[call.cmd.version][call.cmd.seat] = call.count
      /\ ~(Counted(call) /\ v = call.cmd.version /\ s = call.cmd.seat)
            => counters'[v][s] = counters[v][s]
    BY <1>1, CommitCounts
<1>8. Successor(call) # {} => call.cmd.version = Version
    <2>1. Committable(call)
        BY <1>1, CommitFacts
    <2> QED BY <2>1 DEF Committable
<1>9. Counted(call) => (Successor(call) # {} <=> LimitReached(call.count))
    BY <1>7 DEF Successor
<1>10. v < Version => v + 2 \in 2..Len(log) /\ v + 2 \in 1..Len(log)
    BY <1>0, <1>4 DEF Version
<1>11. ASSUME v < Version
       PROVE  (/\ v < Version'
               /\ log'[v + 2].key > 0
               /\ records'[log'[v + 2].key].outcome = "illegal"
               /\ records'[log'[v + 2].key].payload.seat = s) <=> Forced
    <2>1. log'[v + 2] = log[v + 2] /\ records'[log[v + 2].key] = records[log[v + 2].key]
        BY <1>4, <1>6, <1>10, <1>11
    <2>2. v < Version'
        BY <1>0, <1>4, <1>5, <1>11 DEF Version
    <2> QED BY <1>11, <2>1, <2>2
<1>12. ASSUME ~(v < Version), Successor(call) = {}
       PROVE  ~(v < Version')
    BY <1>0, <1>4, <1>5, <1>12 DEF Version
<1>13. ASSUME ~(v < Version), Successor(call) # {}
       PROVE  /\ v < Version' <=> v = Version
              /\ v = Version => log'[v + 2].key = call.cmd.key
    BY <1>0, <1>4, <1>5, <1>13 DEF Version
<1>14. CASE Counted(call) /\ v = call.cmd.version /\ s = call.cmd.seat
    <2>1. /\ counters'[v][s] = counters[v][s] + 1 /\ call.count = counters[v][s] + 1
          /\ call.cmd.key > 0 /\ CallVerdict(call) = "illegal"
        BY <1>7, <1>14
    <2>2. LimitReached(call.count) <=> counters[v][s] + 1 >= InvalidAttemptLimit
        BY <1>2, <2>1 DEF LimitReached
    <2>3. Version \in Int
        BY <1>0 DEF Version
    <2>4. counters[v][s] # InvalidAttemptLimit
        <3>1. SUFFICES ASSUME counters[v][s] = InvalidAttemptLimit
                       PROVE  FALSE
            OBVIOUS
        <3>2. v < Version
            BY <1>3, <3>1
        <3>3. Successor(call) # {}
            BY <1>0, <1>9, <1>14, <2>2, <3>1
        <3> QED BY <1>4, <1>8, <1>14, <2>3, <3>2, <3>3
    <2>5. CASE Successor(call) # {}
        <3>1. counters'[v][s] = InvalidAttemptLimit
            BY SMTT(40), <1>0, <1>3, <1>9, <1>14, <2>1, <2>2, <2>4, <2>5
        <3>2. v = Version
            BY <1>8, <1>14, <2>5
        <3>3. v < Version' /\ log'[v + 2].key = call.cmd.key
            BY <1>4, <1>13, <2>3, <2>5, <3>2
        <3> QED BY <1>0, <1>6, <1>14, <2>1, <3>1, <3>3
    <2>6. CASE Successor(call) = {}
        <3>1. counters'[v][s] < InvalidAttemptLimit /\ counters'[v][s] \in Nat
            BY SMTT(40), <1>0, <1>3, <1>9, <1>14, <2>1, <2>2, <2>6
        <3>2. ~Forced
            BY <1>3, <2>4
        <3> QED BY <1>0, <1>11, <1>12, <2>6, <3>1, <3>2
    <2> QED BY <2>5, <2>6
<1>15. CASE ~(Counted(call) /\ v = call.cmd.version /\ s = call.cmd.seat)
    <2>1. counters'[v][s] = counters[v][s]
        BY <1>7, <1>15
    <2>2. CASE v < Version
        BY <1>3, <1>11, <2>1, <2>2
    <2>3. CASE ~(v < Version)
        <3>1. counters[v][s] # InvalidAttemptLimit
            BY <1>3, <2>3
        <3>2. ~(/\ v < Version'
                /\ log'[v + 2].key > 0
                /\ records'[log'[v + 2].key].outcome = "illegal"
                /\ records'[log'[v + 2].key].payload.seat = s)
            <4>1. CASE Successor(call) = {}
                BY <1>12, <2>3, <4>1
            <4>2. CASE Successor(call) # {}
                <5>1. SUFFICES ASSUME v < Version', log'[v + 2].key > 0,
                                      records'[log'[v + 2].key].outcome = "illegal",
                                      records'[log'[v + 2].key].payload.seat = s
                               PROVE  FALSE
                    OBVIOUS
                <5>2. v = Version /\ log'[v + 2].key = call.cmd.key
                    BY <1>13, <2>3, <4>2, <5>1
                <5>3. call.cmd.key > 0 /\ CallVerdict(call) = "illegal" /\ call.cmd.seat = s
                    BY <1>6, <5>1, <5>2
                <5>4. v = call.cmd.version
                    BY <1>8, <4>2, <5>2
                <5> QED BY <1>15, <5>3, <5>4 DEF Counted
            <4> QED BY <4>1, <4>2
        <3> QED BY <1>3, <2>1, <3>1, <3>2
    <2> QED BY <2>2, <2>3
<1> QED BY <1>14, <1>15

\* A commit answers what it records, and records that answers rest on stay.
LEMMA CommitAnswers ==
    ASSUME GameInv, NEW c \in Callers, commit_action(c)
    PROVE  /\ AnswerIsTheRecord'
           /\ reply' \in [cmd: Commands, answer: Answers] \cup {NoRow}
           /\ scan' \in Answers \cup {"ok"}
           /\ calls' = [calls EXCEPT ![c] = Idle]
<1>0. /\ TypeOK /\ CallsAreSound /\ AnswerIsTheRecord
    BY DEF GameInv
<1>1. PICK call : call = calls[c]
    OBVIOUS
<1>2. /\ call.step = "commit" /\ Finish(c, CallVerdict(call)) /\ CallVerdict(call) \in Outcomes
      /\ records[call.cmd.key] = NoRow
      /\ \A k \in Keys \ {call.cmd.key} : records'[k] = records[k]
      /\ records'[call.cmd.key] = [payload |-> call.cmd, outcome |-> CallVerdict(call)]
    BY <1>1, CommitFacts
<1>3. /\ calls' = [calls EXCEPT ![c] = Idle]
      /\ reply' = IF c = Timer THEN reply ELSE [cmd |-> call.cmd, answer |-> CallVerdict(call)]
      /\ scan' = IF c = Timer THEN ScanResult(CallVerdict(call)) ELSE scan
    BY <1>1, <1>2, Zenon DEF Finish
<1>4. CallVerdict(call) \in Answers /\ CallVerdict(call) # "idempotency_conflict"
    BY <1>2 DEF Answers, Outcomes
<1>5. scan' \in Answers \cup {"ok"}
    BY <1>0, <1>3, <1>4 DEF ScanResult, TypeOK
<1>6. CASE c # Timer
    <2>1. reply' = [cmd |-> call.cmd, answer |-> CallVerdict(call)]
        BY <1>3, <1>6
    <2>2. call.cmd \in Commands
        BY <1>0, <1>1, <1>2, <1>6, BusyFacts
    <2>3. reply'.cmd = call.cmd /\ reply'.answer = CallVerdict(call)
        BY <2>1
    <2>4. AnswerIsTheRecord'
        BY <1>2, <1>4, <2>3 DEF AnswerIsTheRecord
    <2> QED BY <1>3, <1>4, <1>5, <2>1, <2>2, <2>4
<1>7. CASE c = Timer
    <2>1. reply' = reply
        BY <1>3, <1>7
    <2>2. ASSUME reply # NoRow, reply.answer \in Outcomes
          PROVE  records'[reply.cmd.key] = [payload |-> reply.cmd, outcome |-> reply.answer]
        <3>1. PICK r : r = [payload |-> reply.cmd, outcome |-> reply.answer]
            OBVIOUS
        <3>2. records[reply.cmd.key] = r
            BY <1>0, <2>2, <3>1 DEF AnswerIsTheRecord
        <3>3. reply.cmd \in Commands
            BY <1>0, <2>2 DEF TypeOK
        <3>4. reply.cmd \in AllCommands /\ reply.cmd.key \in Keys
            BY <3>3, CommandFacts
        <3>5. r \in IdempotencyRecord
            BY <2>2, <3>1, <3>4 DEF IdempotencyRecord
        <3>6. reply.cmd.key # call.cmd.key
            BY <1>2, <3>2, <3>5, Parameters
        <3> QED BY <1>2, <3>1, <3>2, <3>4, <3>6
    <2>3. ASSUME reply # NoRow, reply.answer = "idempotency_conflict"
          PROVE  records'[reply.cmd.key] # NoRow /\ records'[reply.cmd.key].payload # reply.cmd
        <3>1. records[reply.cmd.key] # NoRow /\ records[reply.cmd.key].payload # reply.cmd
            BY <1>0, <2>3 DEF AnswerIsTheRecord
        <3>2. reply.cmd \in Commands
            BY <1>0, <2>3 DEF TypeOK
        <3>3. reply.cmd.key \in Keys /\ reply.cmd.key # call.cmd.key
            BY <1>2, <3>1, <3>2, CommandFacts
        <3> QED BY <1>2, <3>1, <3>3
    <2>4. AnswerIsTheRecord'
        BY <2>1, <2>2, <2>3 DEF AnswerIsTheRecord
    <2> QED BY <1>0, <1>3, <1>5, <2>1, <2>4 DEF TypeOK
<1> QED BY <1>6, <1>7

\* A commit keeps the invariant.
LEMMA CommitStep ==
    ASSUME GameInv, NEW c \in Callers, commit_action(c)
    PROVE  GameInv'
<1>0. TypeOK /\ CallsAreSound /\ calls \in [Callers -> Call]
    BY DEF GameInv, TypeOK, Callers
<1>1. PICK call : call = calls[c]
    OBVIOUS
<1>2. /\ AnswerIsTheRecord'
      /\ reply' \in [cmd: Commands, answer: Answers] \cup {NoRow}
      /\ scan' \in Answers \cup {"ok"}
      /\ calls' = [calls EXCEPT ![c] = Idle]
    BY CommitAnswers
<1>3. /\ Grows
      /\ log' \in Seq(Entry) /\ Len(log') \in 1..(MaxVersion + 1)
      /\ deadlines' \in Seq(TurnDeadline \cup {NoRow}) /\ Len(deadlines') = Len(log')
      /\ replays' \subseteq Versions
    BY <1>1, CommitExtends
<1>4. /\ records' \in [Keys -> IdempotencyRecord \cup {NoRow}]
      /\ UNCHANGED clock
    BY <1>1, CommitFacts
<1>5. counters' \in [Versions -> [Seats -> Nat]]
    BY <1>1, CommitCounts
<1>6. calls' \in [Callers -> Call]
    BY <1>0, <1>2, IdleFacts
<1>7. TypeOK'
    BY <1>0, <1>2, <1>3, <1>4, <1>5, <1>6 DEF TypeOK, Callers
<1>8. ASSUME NEW d \in Callers
      PROVE  CallIsSound(d, calls[d])'
    <2>1. PICK other \in Call : other = IF d = c THEN Idle ELSE calls[d]
        BY <1>0, IdleFacts
    <2>2. CallIsSound(d, other)
        BY <1>0, <2>1, IdleFacts DEF CallsAreSound
    <2>3. CallIsSound(d, other)'
        BY <1>0, <1>3, <1>7, <2>2, CallPersists
    <2>4. calls'[d] = other
        BY <1>0, <1>2, <2>1
    <2> QED BY <2>3, <2>4 DEF CallIsSound, TimeoutIsDue, Counted, CallVerdict, CanForce, Seat, StateAt, Version
<1>9. CallsAreSound'
    BY <1>8, Zenon DEF CallsAreSound
<1>10. LogIsRecorded' /\ TurnsHaveDeadlines' /\ CountersCount' /\ ForcedAtTheLimit'
    BY CommitLog, CommitTurns, CommitCounters, CommitForced
<1>11. (\A k \in Keys : KeyIsDecided(k))'
    BY CommitKeys
<1> QED BY <1>2, <1>7, <1>9, <1>10, <1>11 DEF GameInv

-----------------------------------------------------------------------------
(* Theorems *)

\* The game as it is created satisfies the invariant.
LEMMA GameInvInit == Init => GameInv
<1> SUFFICES ASSUME Init PROVE GameInv
    OBVIOUS
<1>1. PICK e : e = [key |-> 0, move |-> "create", state |-> Created]
    OBVIOUS
<1>2. /\ Created \in State /\ Created.phase = "active" /\ Created.current = 1
    BY TurnsAssumption DEF Created, State, Seats
<1>3. e \in Entry /\ e.key = 0 /\ e.state = Created
    BY <1>1, <1>2 DEF Entry
<1>4. PICK d : d = [seat |-> 1, at |-> 0 + TurnDuration]
    OBVIOUS
<1>5. d \in TurnDeadline /\ d.seat = 1 /\ d # NoRow
    <2>1. d \in TurnDeadline
        BY <1>4, Parameters, TurnsAssumption DEF TurnDeadline, Seats
    <2> QED BY <1>4, <2>1, Parameters
<1>6. log = <<e>> /\ deadlines = <<d>>
    BY <1>1, <1>2, <1>4 DEF Init, NextDeadline
<1>7. Version = 0 /\ Active /\ Len(log) = 1 /\ log[1] = e /\ deadlines[1] = d
    BY <1>2, <1>3, <1>6 DEF Version, Active, StateAt
<1>8. /\ records = [k \in Keys |-> NoRow]
      /\ counters = [v \in Versions |-> [s \in Seats |-> 0]]
      /\ replays = {} /\ reply = NoRow /\ scan = "ok" /\ clock = 0
      /\ calls = [c \in Callers |-> Idle]
    BY DEF Init, Callers
<1>9. TypeOK
    <2>1. log \in Seq(Entry) /\ deadlines \in Seq(TurnDeadline \cup {NoRow}) /\ Len(deadlines) = 1
        BY <1>3, <1>5, <1>6
    <2>2. Idle \in Call
        BY Parameters DEF Idle, Call, Steps, Versions
    <2>3. counters \in [Versions -> [Seats -> Nat]]
        BY <1>8
    <2>4. calls \in [Callers -> Call] /\ records \in [Keys -> IdempotencyRecord \cup {NoRow}]
        BY <1>8, <2>2
    <2> QED BY <1>7, <1>8, <2>1, <2>3, <2>4, Parameters DEF TypeOK, Callers
<1>10. CallsAreSound
    BY <1>8, <1>9, IdleFacts DEF CallsAreSound
<1>11. LogIsRecorded /\ TurnsHaveDeadlines
    BY <1>2, <1>3, <1>5, <1>7, <1>8 DEF LogIsRecorded, TurnsHaveDeadlines
<1>12. \A k \in Keys : KeyIsDecided(k)
    BY <1>8 DEF KeyIsDecided
<1>13. CountersCount
    <2>1. ASSUME NEW v \in Versions, NEW s \in Seats
          PROVE  IsFiniteSet(Refusals(v, s)) /\ counters[v][s] = Cardinality(Refusals(v, s))
        <3>1. Refusals(v, s) = {}
            BY <1>8 DEF Refusals
        <3> QED BY <1>8, <3>1, FS_EmptySet
    <2> QED BY <2>1 DEF CountersCount
<1>14. ForcedAtTheLimit
    BY <1>7, <1>8, Parameters DEF ForcedAtTheLimit, Versions
<1>15. AnswerIsTheRecord
    BY <1>8 DEF AnswerIsTheRecord
<1> QED BY <1>9, <1>10, <1>11, <1>12, <1>13, <1>14, <1>15 DEF GameInv

\* Every step keeps the invariant.
LEMMA GameInvNext == GameInv /\ [Next]_vars => GameInv'
<1> SUFFICES ASSUME GameInv, [Next]_vars PROVE GameInv'
    OBVIOUS
<1>1. ASSUME NEW c \in Callers, Progress(c)
      PROVE  GameInv'
    BY <1>1, ReadStep, LoadStep, CountStep, CommitStep, RecheckStep DEF Progress
<1>2. CASE UNCHANGED vars
    <2>1. UNCHANGED <<clock, tables, calls, reply, scan>>
        BY <1>2 DEF vars, tables
    <2>2. CallsType' /\ AnswerIsTheRecord' /\ clock' \in 0..Horizon
        BY <2>1 DEF GameInv, TypeOK, CallsType, Callers, AnswerIsTheRecord, tables
    <2>3. CallsAreSound'
        BY <2>1 DEF GameInv, CallsAreSound, tables, CallIsSound, TimeoutIsDue, Counted,
           CallVerdict, CanForce, Seat, StateAt, Version
    <2> QED BY <2>1, <2>2, <2>3, TablesUnchanged
<1>3. CASE Next
    BY <1>1, <1>3, ActStep, ScanStep, EnvironmentStep DEF Next, Callers
<1> QED BY <1>2, <1>3

\* GameInv holds in every reachable state: in particular what a call in
\* progress remembers stays true while other calls commit.
THEOREM GameInvariant == Spec => []GameInv
<1>1. Init => GameInv
    BY GameInvInit
<1>2. GameInv /\ [Next]_vars => GameInv'
    BY GameInvNext
<1> QED BY <1>1, <1>2, PTL DEF Spec

\* Every key is decided once and every definite answer is what was recorded
\* for it, through all races, repetitions and crashes; the last version has
\* the deadline of its turn, or the replay of a finished game.
THEOREM DecisionsAlwaysRecorded == Spec => []DecisionsAreRecorded
<1>1. GameInv => DecisionsAreRecorded
    <2> SUFFICES ASSUME GameInv PROVE DecisionsAreRecorded
        OBVIOUS
    <2>1. /\ TypeOK /\ AnswerIsTheRecord /\ LogIsRecorded /\ TurnsHaveDeadlines
          /\ \A k \in Keys : KeyIsDecided(k)
          /\ DOMAIN log = 1..Len(log) /\ Len(log) \in Nat /\ Len(log) >= 1
        BY DEF GameInv, TypeOK
    <2>2. DeadlineMatchesTurn
        <3>1. Version + 1 = Len(log) /\ Version + 1 \in 1..Len(log)
            BY <2>1 DEF Version
        <3> QED BY <2>1, <3>1 DEF DeadlineMatchesTurn, TurnsHaveDeadlines, Active, StateAt
    <2>3. ASSUME NEW i \in DOMAIN log, NEW j \in DOMAIN log, log[i].key = log[j].key
          PROVE  i = j
        BY <2>1, <2>3 DEF LogIsRecorded
    <2>4. ASSUME NEW i \in DOMAIN log, i > 1
          PROVE  records[log[i].key] # NoRow
        BY <2>1, <2>4 DEF LogIsRecorded
    <2>5. ASSUME NEW k \in Keys, records[k] # NoRow, NEW cmd, cmd = records[k].payload,
                 NEW effect, effect = {i \in DOMAIN log : log[i].key = k}
          PROVE  /\ records[k].outcome = "accepted" =>
                       /\ effect = {cmd.version + 2}
                       /\ log[cmd.version + 2].move = cmd.move
                       /\ StateAt(cmd.version).current = Seat(cmd)
                 /\ records[k].outcome = "illegal" => effect \subseteq {cmd.version + 2}
                 /\ records[k].outcome = "version_conflict" => effect = {}
        <3>1. KeyIsDecided(k)
            BY <2>1
        <3>2. cmd.version \in Nat
            <4>1. records[k] \in IdempotencyRecord
                BY <2>1, <2>5 DEF TypeOK
            <4>2. cmd \in AllCommands
                BY <2>5, <4>1 DEF IdempotencyRecord
            <4> QED BY <4>2, AllCommandFacts DEF Versions
        <3>3. ASSUME records[k].outcome = "accepted"
              PROVE  /\ effect = {cmd.version + 2}
                     /\ log[cmd.version + 2].move = cmd.move
                     /\ StateAt(cmd.version).current = Seat(cmd)
            <4>1. /\ cmd.version + 2 <= Len(log)
                  /\ log[cmd.version + 2].key = k
                  /\ log[cmd.version + 2].move = cmd.move
                  /\ StateAt(cmd.version).current = Seat(cmd)
                BY <2>5, <3>1, <3>3 DEF KeyIsDecided
            <4>2. cmd.version + 2 \in DOMAIN log
                BY <2>1, <3>2, <4>1
            <4> QED BY <2>3, <2>5, <4>1, <4>2
        <3>4. ASSUME records[k].outcome = "illegal"
              PROVE  effect \subseteq {cmd.version + 2}
            BY <2>1, <2>5, <3>1, <3>4 DEF KeyIsDecided
        <3>5. ASSUME records[k].outcome = "version_conflict"
              PROVE  effect = {}
            BY <2>1, <2>5, <3>1, <3>5 DEF KeyIsDecided
        <3> QED BY <3>3, <3>4, <3>5
    <2>6. DecidedOnce
        BY <2>3, <2>4, <2>5, Zenon DEF DecidedOnce
    <2> QED BY <2>1, <2>2, <2>6 DEF DecisionsAreRecorded
<1> QED BY <1>1, GameInvariant, PTL

\* No increment of invalid_attempt_counters is lost or made twice, and the
\* policy moves for a seat exactly when its counter reaches the limit.
THEOREM AttemptsAlwaysCounted == Spec => []AttemptsAreCounted
<1>1. GameInv => AttemptsAreCounted
    BY DEF GameInv, AttemptsAreCounted, CountersAreExact, CountersCount, Refusals
<1> QED BY <1>1, GameInvariant, PTL

\* Only a commit changes the log.
LEMMA OnlyCommitsExtend ==
    ASSUME [Next]_vars, <<log, records>>' # <<log, records>>
    PROVE  \E c \in Callers : commit_action(c)
<1>1. ASSUME NEW c \in Callers, Progress(c)
      PROVE  commit_action(c) \/ UNCHANGED <<log, records>>
    BY <1>1 DEF Progress, load_game, load_public_events, load_private_events, load_recovery,
       load_invalid_attempt, CommitConflict, cached_outcome, tables
<1>2. ASSUME NEW c \in Clients, Disconnect(c) \/ \E cmd \in Commands : act(c, cmd)
      PROVE  UNCHANGED <<log, records>>
    BY <1>2 DEF Disconnect, act, tables
<1>3. ASSUME Tick \/ Crash \/ resolve_due_timeouts \/ UNCHANGED vars
      PROVE  UNCHANGED <<log, records>>
    BY <1>3 DEF Tick, Crash, resolve_due_timeouts, vars, tables
<1> QED BY <1>1, <1>2, <1>3, Zenon DEF Next, Callers

\* A timeout is committed only for the last turn, and only when the deadline
\* of that turn has passed.
THEOREM TimeoutsAreDue == Spec => TimeoutOnlyWhenDue
<1>1. ASSUME GameInv, [Next]_vars, log' # log, log'[Len(log')].key < 0
      PROVE  log'[Len(log')].key = TimeoutKey(Version) /\ clock >= deadlines[Version + 1].at
    <2>0. TypeOK /\ CallsAreSound /\ Len(log) \in Nat /\ Len(log) >= 1
        BY <1>1 DEF GameInv, TypeOK
    <2>1. PICK c \in Callers : commit_action(c)
        BY <1>1, OnlyCommitsExtend
    <2>2. PICK call : call = calls[c]
        OBVIOUS
    <2>3. call.cmd \in AllCommands /\ call.step = "commit" /\ Committable(call)
        BY <1>1, <2>1, <2>2, CommitFacts
    <2>4. /\ log'[Len(log')].key = call.cmd.key
          /\ \E move : move \in Successor(call)
        <3>1. \/ log' = log
              \/ /\ Len(log') = Len(log) + 1
                 /\ \E move \in Successor(call) : log'[Len(log) + 1].key = call.cmd.key
            BY <1>1, <2>1, <2>2, CommitExtends, ZenonT(60)
        <3> QED BY <1>1, <3>1
    <2>5. call.cmd.version = Version
        BY <2>0, <2>2, <2>3, <2>4, SuccessorFacts
    <2>6. c = Timer
        <3>1. ASSUME c # Timer
              PROVE  FALSE
            <4>1. call.cmd.key \in Nat
                BY <2>0, <2>2, <2>3, <3>1, BusyFacts, CommandFacts
            <4> QED BY <1>1, <2>4, <4>1
        <3> QED BY <3>1
    <2>7. PICK v \in 0..(MaxVersion - 1) :
            /\ call.cmd = TimeoutCommand(v) /\ v <= Version
            /\ deadlines[v + 1] # NoRow /\ deadlines[v + 1].at <= clock
        BY <2>0, <2>2, <2>3, <2>6, BusyFacts DEF TimeoutIsDue
    <2>8. v \in Versions /\ v \in Nat
        BY Parameters DEF Versions
    <2>9. v = Version
        BY <2>5, <2>7, <2>8, TimeoutFacts
    <2>10. deadlines[v + 1] \in TurnDeadline
        <3>1. v + 1 \in 1..Len(deadlines) /\ deadlines \in Seq(TurnDeadline \cup {NoRow})
            BY <2>0, <2>8, <2>9 DEF TypeOK, Version
        <3> QED BY <2>7, <3>1
    <2>11. clock >= deadlines[v + 1].at
        BY <2>0, <2>7, <2>10 DEF TypeOK, TurnDeadline
    <2>12. call.cmd.key = -(v + 1)
        BY <2>7, <2>8, TimeoutFacts
    <2> QED BY <2>4, <2>9, <2>11, <2>12 DEF TimeoutKey
<1>2. GameInv /\ [Next]_vars =>
        [log' # log /\ log'[Len(log')].key < 0 =>
            /\ log'[Len(log')].key = TimeoutKey(Version)
            /\ clock >= deadlines[Version + 1].at]_vars
    BY <1>1
<1> QED BY <1>2, GameInvariant, PTL DEF Spec, TimeoutOnlyWhenDue

-----------------------------------------------------------------------------
(* Refinement *)

\* The outcome of every key, as the abstract log has it.
RecordedOutcomes ==
    [k \in Keys |-> IF records[k] = NoRow THEN NoRow ELSE records[k].outcome]

\* The abstract log plays by the same rules.
LEMMA SameRules ==
    /\ Abstract!LegalMoves = LegalMoves
    /\ Abstract!Created = Created
    /\ Abstract!Results = Outcomes
    /\ \A state, move : Abstract!apply_move(state, move) = apply_move(state, move)
BY DEF Abstract!LegalMoves, LegalMoves, Abstract!Created, Created, Abstract!Results, Outcomes,
   Abstract!apply_move, apply_move, Abstract!Ends, Ends, Abstract!next, next,
   Abstract!next_scoreless, next_scoreless

\* A commit decides its key and applies its move, in one step.
LEMMA CommitRefines ==
    ASSUME GameInv, NEW c \in Callers, commit_action(c)
    PROVE  Abstract!Next
<1>0. TypeOK /\ CallsAreSound /\ Len(log) \in Nat /\ Len(log) >= 1
    BY DEF GameInv, TypeOK
<1>1. PICK call : call = calls[c]
    OBVIOUS
<1>2. /\ call.cmd \in AllCommands /\ call.step = "commit" /\ Committable(call)
      /\ records[call.cmd.key] = NoRow
      /\ CallVerdict(call) \in Outcomes
      /\ \A k \in Keys \ {call.cmd.key} : records'[k] = records[k]
    BY <1>1, CommitFacts
<1>3. /\ call.cmd.key \in Keys
      /\ records'[call.cmd.key] # NoRow
      /\ records'[call.cmd.key].outcome = CallVerdict(call)
    BY <1>1, CommitKeyIsNew
<1>4. PICK k \in Keys : k = call.cmd.key
    BY <1>3
<1>5. PICK r \in Outcomes : r = CallVerdict(call)
    BY <1>2
<1>6. RecordedOutcomes[k] = NoRow
    BY <1>2, <1>4 DEF RecordedOutcomes
<1>7. RecordedOutcomes' = [RecordedOutcomes EXCEPT ![k] = r]
    <2> DEFINE Decided(n) == IF records[n] = NoRow THEN NoRow ELSE records[n].outcome
    <2>1. Decided(k)' = r /\ \A n \in Keys \ {k} : Decided(n)' = Decided(n)
        BY <1>2, <1>3, <1>4, <1>5
    <2>2. /\ RecordedOutcomes = [n \in Keys |-> Decided(n)]
          /\ RecordedOutcomes' = [n \in Keys |-> Decided(n)']
        BY Zenon DEF RecordedOutcomes
    <2> HIDE DEF Decided
    <2> QED BY <2>1, <2>2
<1>8. Abstract!Latest.state = StateAt(Version)
    BY <1>0 DEF Abstract!Latest, StateAt, Version
<1>9. CASE Successor(call) = {} /\ UNCHANGED <<log, deadlines, replays>>
    <2>1. r # "accepted"
        BY <1>5, <1>9 DEF Successor
    <2>2. Abstract!Reject(k)
        BY <1>6, <1>7, <1>9, <2>1, SameRules DEF Abstract!Reject, RecordedOutcomes
    <2> QED BY <2>2 DEF Abstract!Next
<1>10. ASSUME NEW move \in Successor(call),
              log' = Append(log, [key |-> call.cmd.key, move |-> move,
                                  state |-> apply_move(StateAt(Version), move)])
       PROVE  Abstract!Next
    <2>1. /\ StateAt(Version).phase = "active" /\ move \in LegalMoves
          /\ r # "accepted" => r = "illegal" /\ move \in {"pass", "resign"}
        BY <1>0, <1>1, <1>2, <1>5, SuccessorFacts
    <2>2. log' = Append(log, [key |-> k, move |-> move,
                              state |-> Abstract!apply_move(Abstract!Latest.state, move)])
        BY <1>4, <1>8, <1>10, SameRules, Zenon
    <2>3. CASE r = "accepted"
        <3>1. Abstract!Accept(k)
            BY <1>6, <1>7, <1>8, <2>1, <2>2, <2>3, SameRules, Zenon DEF Abstract!Accept, RecordedOutcomes
        <3> QED BY <3>1 DEF Abstract!Next
    <2>4. CASE r # "accepted"
        <3>1. r = "illegal" /\ move \in {"pass", "resign"}
            BY <2>1, <2>4
        <3>2. Abstract!RejectAndForce(k)
            BY <1>6, <1>7, <1>8, <2>1, <2>2, <3>1, SameRules, Zenon DEF Abstract!RejectAndForce, RecordedOutcomes
        <3> QED BY <3>2 DEF Abstract!Next
    <2> QED BY <2>3, <2>4
<1>11. \/ Successor(call) = {} /\ UNCHANGED <<log, deadlines, replays>>
       \/ \E move \in Successor(call) :
             log' = Append(log, [key |-> call.cmd.key, move |-> move,
                                 state |-> apply_move(StateAt(Version), move)])
    BY <1>1, CommitFacts, ZenonT(60)
<1> QED BY <1>9, <1>10, <1>11

\* The pipeline implements the abstract log: whatever the calls do between
\* their statements, the tables change by deciding one key, and its version
\* is added in the same step.
THEOREM RefinesGameLog == Spec => ImplementsGameLog
<1>1. Init => Abstract!Init
    <2> SUFFICES ASSUME Init PROVE Abstract!Init
        OBVIOUS
    <2>1. log = <<[key |-> 0, move |-> "create", state |-> Abstract!Created]>>
        BY SameRules DEF Init
    <2>2. RecordedOutcomes = [k \in Keys |-> NoRow]
        BY DEF Init, RecordedOutcomes
    <2> QED BY <2>1, <2>2 DEF Abstract!Init, RecordedOutcomes
<1>2. GameInv /\ [Next]_vars => [Abstract!Next]_<<log, RecordedOutcomes>>
    <2> SUFFICES ASSUME GameInv, [Next]_vars, ~UNCHANGED <<log, RecordedOutcomes>>
                 PROVE  Abstract!Next
        OBVIOUS
    <2>1. <<log, records>>' # <<log, records>>
        BY DEF RecordedOutcomes
    <2> QED BY <2>1, OnlyCommitsExtend, CommitRefines
<1> QED BY <1>1, <1>2, GameInvariant, PTL DEF Spec, ImplementsGameLog, Abstract!Spec, RecordedOutcomes

=============================================================================
