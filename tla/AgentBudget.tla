---------------------------- MODULE AgentBudget ----------------------------
(***************************************************************************)
(* The budget of one run: the BudgetController with its saturating         *)
(* counters and limit events, the process adapter that meters output, and  *)
(* the driver decorator that counts attempts and tool calls and bounds the *)
(* wall time of a turn.  Two timers guard the same deadline, one around    *)
(* the turn and one around each wait for output; whichever fires first may *)
(* be overtaken by the other while the process is being killed.            *)
(*                                                                         *)
(* The decorated driver is reduced to whether a turn may be asked of it    *)
(* and whether its process lives (see AgentDriver).                        *)
(***************************************************************************)
EXTENDS Naturals, Sequences, FiniteSets

CONSTANTS
    BudgetLimit,    \* the manifest's limit of each counted dimension
    WallTime,       \* its wall_time_ms, in ticks of the model's clock
    Saturation,     \* u64::MAX
    MaxLimitEvents, \* bound: the calls that are modelled leave no more events
    MaxMetered,     \* bound: the tool calls of an answer, the bytes of one read
    MaxUsage        \* bound: what one report adds to a dimension

CountedDims == {"attempts", "tools", "output", "network", "input", "cost"}

ASSUME BudgetAssumption ==
    /\ BudgetLimit \in [CountedDims -> 0..Saturation]
    /\ WallTime \in Nat \ {0} /\ Saturation \in Nat
    /\ MaxLimitEvents \in Nat /\ MaxMetered \in Nat /\ MaxUsage \in Nat

VARIABLES
    spent,        \* BudgetConsumption
    limitEvents,  \* the dimensions of limit_events, in order
    elapsed,      \* ticks since the controller was made, up to WallTime
    inner,        \* the decorated driver
    turn,         \* the request_turn in progress
    answer        \* what the last request_turn returned

budgetVars == <<spent, limitEvents, elapsed, inner, turn, answer>>

InnerState == {"ready", "running", "terminated", "crashed"}
Inner == [state: InnerState, alive: BOOLEAN]
TurnPhase == {"idle", "reading", "stopping", "terminating"}

-----------------------------------------------------------------------------
(* BudgetController *)

saturating_add(a, b) == IF a + b > Saturation THEN Saturation ELSE a + b

Exceeds(d, n) == saturating_add(spent[d], n) > BudgetLimit[d]

add_and_check(d, n) ==
    /\ spent' = [spent EXCEPT ![d] = saturating_add(@, n)]
    /\ limitEvents' = IF Exceeds(d, n) THEN Append(limitEvents, d) ELSE limitEvents

\* Mutant: every timer that fires leaves an event.
WallTimeoutEachTime == limitEvents' = Append(limitEvents, "wall")

\* record_wall_timeout, through exceed: one event, whichever timer fires.
record_wall_timeout ==
    limitEvents' = IF \E i \in DOMAIN limitEvents : limitEvents[i] = "wall"
                   THEN limitEvents ELSE Append(limitEvents, "wall")

\* remaining_wall_time is zero.
Expired == elapsed = WallTime

\* record_network_bytes, and record_reported_usage, which stops at the first
\* dimension that is exceeded.
RecordUsage(network, input, cost) ==
    LET stop == Exceeds("input", input) IN
    /\ spent' = [spent EXCEPT !["network"] = saturating_add(@, network),
                              !["input"] = saturating_add(@, input),
                              !["cost"] = IF stop THEN @ ELSE saturating_add(@, cost)]
    /\ limitEvents' = limitEvents
          \o (IF Exceeds("network", network) THEN <<"network">> ELSE <<>>)
          \o (IF stop THEN <<"input">>
              ELSE IF Exceeds("cost", cost) THEN <<"cost">> ELSE <<>>)
    /\ UNCHANGED <<elapsed, inner, turn, answer>>

-----------------------------------------------------------------------------
(* BudgetedAgentDriver.request_turn *)

Room == Len(limitEvents) < MaxLimitEvents

\* begin_attempt.  A driver that is not ready refuses, and the attempt counts.
AskTurn ==
    /\ turn = "idle" /\ Room
    /\ add_and_check("attempts", 1)
    /\ IF Exceeds("attempts", 1)
       THEN turn' = "terminating" /\ UNCHANGED <<inner, answer>>
       ELSE IF inner.state = "ready"
       THEN turn' = "reading" /\ inner' = [inner EXCEPT !.state = "running"] /\ UNCHANGED answer
       ELSE answer' = "error" /\ UNCHANGED <<turn, inner>>
    /\ UNCHANGED elapsed

\* The driver has its answer: the tool calls in it are counted.
CompleteTurn(tools) ==
    /\ turn = "reading"
    /\ inner' = [inner EXCEPT !.state = "ready"]
    /\ add_and_check("tools", tools)
    /\ IF Exceeds("tools", tools)
       THEN turn' = "terminating" /\ UNCHANGED answer
       ELSE turn' = "idle" /\ answer' = "ok"
    /\ UNCHANGED elapsed

\* The turn fails for a reason of its own, and the process with it.
FailTurn ==
    /\ turn = "reading"
    /\ inner' = [state |-> "crashed", alive |-> FALSE]
    /\ turn' = "idle" /\ answer' = "error"
    /\ UNCHANGED <<spent, limitEvents, elapsed>>

\* BudgetedProcess.next_event: bytes are counted before they are parsed.
MeterOutput(bytes) ==
    /\ turn = "reading" /\ Room
    /\ add_and_check("output", bytes)
    /\ turn' = IF Exceeds("output", bytes) THEN "stopping" ELSE "reading"
    /\ UNCHANGED <<elapsed, inner, answer>>

\* The timer around the wait for output.
ReadDeadline ==
    /\ turn = "reading" /\ Expired
    /\ record_wall_timeout
    /\ turn' = "stopping"
    /\ UNCHANGED <<spent, elapsed, inner, answer>>

\* next_event has terminated the process and reports LimitExceeded: the driver
\* treats it as a failure of the protocol.
StopDone ==
    /\ turn = "stopping"
    /\ inner' = [state |-> "crashed", alive |-> FALSE]
    /\ turn' = "idle" /\ answer' = "budget"
    /\ UNCHANGED <<spent, limitEvents, elapsed>>

\* The timer around the turn: the future of the driver is dropped.
TurnDeadline ==
    /\ turn \in {"reading", "stopping"} /\ Expired
    /\ record_wall_timeout
    /\ turn' = "terminating"
    /\ UNCHANGED <<spent, elapsed, inner, answer>>

\* terminate(BudgetExceeded) has returned; if the process could not be killed,
\* the driver is left as it was.
TerminateDone(killed) ==
    /\ turn = "terminating"
    /\ inner' = IF killed \/ ~inner.alive THEN [state |-> "terminated", alive |-> FALSE] ELSE inner
    /\ turn' = "idle" /\ answer' = "budget"
    /\ UNCHANGED <<spent, limitEvents, elapsed>>

BudgetTick ==
    /\ elapsed < WallTime
    /\ elapsed' = elapsed + 1
    /\ UNCHANGED <<spent, limitEvents, inner, turn, answer>>

-----------------------------------------------------------------------------
(* Specification *)

\* The driver has been started.
BudgetInit ==
    /\ spent = [d \in CountedDims |-> 0]
    /\ limitEvents = <<>>
    /\ elapsed = 0
    /\ inner = [state |-> "ready", alive |-> TRUE]
    /\ turn = "idle"
    /\ answer = "none"

BudgetNext ==
    \/ \E network, input, cost \in 0..MaxUsage : turn = "reading" /\ Room /\ RecordUsage(network, input, cost)
    \/ AskTurn
    \/ \E tools \in 0..MaxMetered : CompleteTurn(tools)
    \/ FailTurn
    \/ \E bytes \in 1..MaxMetered : MeterOutput(bytes)
    \/ ReadDeadline
    \/ StopDone
    \/ TurnDeadline
    \/ \E killed \in BOOLEAN : TerminateDone(killed)
    \/ BudgetTick

BudgetSpec == BudgetInit /\ [][BudgetNext]_budgetVars

\* The runtime polls its timers, and a kill returns.
BudgetProgress == BudgetTick \/ ReadDeadline \/ StopDone \/ TurnDeadline
                  \/ \E killed \in BOOLEAN : TerminateDone(killed)

-----------------------------------------------------------------------------
(* Properties *)

BudgetTypeOK ==
    /\ spent \in [CountedDims -> 0..Saturation]
    /\ \A i \in DOMAIN limitEvents : limitEvents[i] \in CountedDims \cup {"wall"}
    /\ elapsed \in 0..WallTime
    /\ inner \in Inner
    /\ turn \in TurnPhase
    /\ answer \in {"none", "ok", "error", "budget"}

\* Once attempts, tool calls or output have exceeded the budget, no turn is
\* answered, even if the process that exceeded it could not be killed.
NoAnswerAfterExcess ==
    [][turn # "idle" /\ turn' = "idle" /\ answer' = "ok" =>
          \A d \in {"attempts", "tools", "output"} : spent'[d] <= BudgetLimit[d]]_budgetVars

\* A counter is over its limit exactly when an event says so.
ExcessIsReported ==
    \A d \in CountedDims :
        spent[d] > BudgetLimit[d] <=> \E i \in DOMAIN limitEvents : limitEvents[i] = d

\* Two timers watch one deadline; it is reported once.
WallTimeReportedOnce ==
    Cardinality({i \in DOMAIN limitEvents : limitEvents[i] = "wall"}) <= 1

\* Consumption never goes back, not even at the largest value of its type.
ConsumptionGrows == [][\A d \in CountedDims : spent[d] <= spent'[d]]_budgetVars

\* A turn ends within the wall time even if the process says nothing.
EveryTurnEnds == turn # "idle" ~> turn = "idle"

\* Consumption only grows, excess is reported, once for wall time though two
\* timers watch it, and nothing is answered after it.
BudgetSafety ==
    /\ [](BudgetTypeOK /\ ExcessIsReported /\ WallTimeReportedOnce)
    /\ NoAnswerAfterExcess /\ ConsumptionGrows
=============================================================================
