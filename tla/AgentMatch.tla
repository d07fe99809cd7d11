----------------------------- MODULE AgentMatch -----------------------------
(***************************************************************************)
(* Agent-managed matches: POST /api/v1/matches creates a game, registers a *)
(* capability per agent seat, archives a status and starts a runner; the   *)
(* runner starts the agents, asks the seat whose turn it is for a move,    *)
(* resigns for an agent that does not move, and cleans up.  Humans and the *)
(* deadline worker move in the same game at any time; reads of the game    *)
(* and writes of the archive may fail; the server may crash and restart.   *)
(*                                                                         *)
(* One game.  A runner is a value of the task that run_match is; a repeat  *)
(* of the request, with the same idempotency key, starts another one.      *)
(* Racks, words, prompts, activity and timestamps are left out.            *)
(***************************************************************************)
EXTENDS Naturals, FiniteSets

CONSTANTS
    MatchSeats,       \* the number of seats
    HumanSeats,       \* the seats of humans, a set of seat numbers
    Runners,          \* runners, in the order in which they are started: 1..n
    LastVersion,      \* bound: the move made at this version ends the game
    ReadFaults        \* bound: how many reads of the game may fail

ASSUME MatchAssumption ==
    /\ MatchSeats \in Nat \ {0, 1}
    /\ HumanSeats \subseteq 1..MatchSeats
    /\ LastVersion \in Nat /\ ReadFaults \in Nat

VARIABLES
    table,        \* the game, as the application service stores it
    status,       \* the entry of AgentMatchManager.matches
    archive,      \* its row in local_agent_matches
    pending,      \* seats with a registered capability
    spaces,       \* the workspace directory of each seat
    runner,       \* the run_match tasks
    server,       \* whether the server is up
    failedReads,  \* reads that have failed
    faults        \* history: seats whose agent failed or did not move

matchVars == <<table, status, archive, pending, spaces, runner, server, failedReads, faults>>

-----------------------------------------------------------------------------
(* Data *)

MSeats == 1..MatchSeats
AgentSeats == MSeats \ HumanSeats

\* Seat::next
MNext(seat) == IF seat = MatchSeats THEN 1 ELSE seat + 1

\* by: who made the move that ended the game.
Table == [version: 0..(LastVersion + 1), current: MSeats, phase: {"active", "finished"},
          by: {"nobody", "player", "orchestrator"}]

AgentSeatStatusKind ==
    {"queued", "starting", "ready", "thinking", "waiting_for_human", "finished", "failed"}
AgentMatchLifecycle == {"active", "finished", "interrupted"}
MatchStatus == [known: BOOLEAN, orchestration: AgentMatchLifecycle, version: 0..(LastVersion + 1),
           seats: [MSeats -> AgentSeatStatusKind]]

NoStatus == [known |-> FALSE, orchestration |-> "interrupted", version |-> 0,
             seats |-> [s \in MSeats |-> "queued"]]

initial_seat_status(seat) == IF seat \in HumanSeats THEN "waiting_for_human" ELSE "queued"

\* The public projection is the one of the creation, cached with its key.
initial_status ==
    [known |-> TRUE, orchestration |-> "active", version |-> 0,
     seats |-> [s \in MSeats |-> initial_seat_status(s)]]

RunnerPc == {"none", "setup", "starting", "launching", "loop", "turn", "verify",
             "aborting", "resigning", "acting", "finishing", "done", "lost"}

\* seat: the seat it is busy with; seen: the version it read; then: where a
\* resignation returns to; agents: the RunningAgent values it holds.
Runner == [pc: RunnerPc, seat: MSeats, seen: 0..(LastVersion + 1), then: RunnerPc,
           agents: SUBSET MSeats]

NoRunner == [pc |-> "none", seat |-> 1, seen |-> 0, then |-> "none", agents |-> {}]

Alive(r) == runner[r].pc \notin {"none", "done", "lost"}

-----------------------------------------------------------------------------
(* Helpers of the manager *)

\* A status is changed in memory and then persisted; a failure is only logged.
Recorded(new) ==
    /\ status' = new
    /\ archive' \in {new, archive}

set_seat_status(st, seat, kind) == [st EXCEPT !.seats[seat] = kind]

update_public(st) ==
    [st EXCEPT !.version = table.version,
               !.orchestration = IF table.phase = "finished" THEN "finished" ELSE @]

fail_agents(st) ==
    [st EXCEPT !.seats = [s \in MSeats |-> IF s \in AgentSeats THEN "failed" ELSE @[s]]]

GameReadOk == UNCHANGED failedReads
GameReadFails ==
    /\ failedReads < ReadFaults
    /\ failedReads' = failedReads + 1

Goto(r, pc) == runner' = [runner EXCEPT ![r].pc = pc]

\* The agents of a runner that returns without finish_agents are dropped: their
\* processes are killed and their workspaces stay.
Gone(r) == runner' = [runner EXCEPT ![r].pc = "done", ![r].agents = {}]

-----------------------------------------------------------------------------
(* The request *)

\* create_agent_match.  create_game returns the same game to a repeated key;
\* the capabilities, the status and the runner are new every time.  Without an
\* archive entry there is no runner.
create_agent_match(r) ==
    /\ server
    /\ runner[r].pc = "none"
    /\ \A q \in Runners : q < r => runner[q].pc # "none"
    /\ pending' = AgentSeats
    /\ \/ /\ status' = initial_status
          /\ archive' = initial_status
          /\ runner' = [runner EXCEPT ![r].pc = "setup"]
       \/ /\ Goto(r, "done")
          /\ UNCHANGED <<status, archive>>
    /\ UNCHANGED <<table, spaces, server, failedReads, faults>>

-----------------------------------------------------------------------------
(* run_match: startup *)

\* The authority policy, the sandbox and the workspace manager.
Setup(r) ==
    /\ runner[r].pc = "setup"
    /\ \/ /\ runner' = [runner EXCEPT ![r].pc = "starting", ![r].seat = 1]
          /\ UNCHANGED <<status, archive, faults>>
       \/ /\ Recorded(fail_agents(status))
          /\ runner' = [runner EXCEPT ![r].pc = "aborting", ![r].then = "done"]
          /\ faults' = AgentSeats
    /\ UNCHANGED <<table, pending, spaces, server, failedReads>>

AfterSeat(r) ==
    IF runner[r].seat = MatchSeats
    THEN [runner[r] EXCEPT !.pc = "loop"]
    ELSE [runner[r] EXCEPT !.pc = "starting", !.seat = @ + 1]

StartSeat(r) ==
    /\ runner[r].pc = "starting"
    /\ IF runner[r].seat \in HumanSeats
       THEN /\ runner' = [runner EXCEPT ![r] = AfterSeat(r)]
            /\ UNCHANGED <<status, archive>>
       ELSE /\ Recorded(set_seat_status(status, runner[r].seat, "starting"))
            /\ Goto(r, "launching")
    /\ UNCHANGED <<table, pending, spaces, server, failedReads, faults>>

\* start_agent: it takes the capability, allocates the workspace, installs the
\* credentials of the provider and starts the driver.  blamed: a failure that
\* is the agent's or its installation's.
LaunchFailed(r, blamed) ==
    LET s == runner[r].seat IN
    /\ Recorded(set_seat_status(status, s, "failed"))
    /\ runner' = [runner EXCEPT ![r].pc = "aborting", ![r].then = "finishing"]
    /\ faults' = IF blamed THEN faults \cup {s} ELSE faults

start_agent(r) ==
    LET s == runner[r].seat IN
    /\ runner[r].pc = "launching"
    /\ pending' = pending \ {s}
    /\ \/ /\ s \in pending /\ spaces[s] # "present"
          /\ spaces' = [spaces EXCEPT ![s] = "present"]
          /\ Recorded(set_seat_status(status, s, "ready"))
          /\ runner' = [runner EXCEPT ![r] = [AfterSeat(r) EXCEPT !.agents = @ \cup {s}]]
          /\ UNCHANGED faults
       \/ /\ s \in pending /\ spaces[s] # "present"
          /\ spaces' \in {spaces, [spaces EXCEPT ![s] = "present"]}
          /\ LaunchFailed(r, TRUE)
       \/ /\ s \notin pending \/ spaces[s] = "present"
          /\ LaunchFailed(r, FALSE)
          /\ UNCHANGED spaces
    /\ UNCHANGED <<table, server, failedReads>>

-----------------------------------------------------------------------------
(* run_match: the loop *)

Loop(r) ==
    /\ runner[r].pc = "loop"
    /\ \/ /\ GameReadFails
          /\ Recorded(fail_agents(status))
          /\ Gone(r)
       \/ /\ GameReadOk
          /\ LET seen == update_public(status)
                 s == table.current
             IN IF table.phase = "finished"
                THEN Recorded(seen) /\ Goto(r, "finishing")
                ELSE IF s \notin runner[r].agents
                THEN /\ Recorded(set_seat_status(seen, s, "waiting_for_human"))
                     /\ UNCHANGED runner
                ELSE /\ Recorded(set_seat_status(seen, s, "thinking"))
                     /\ runner' = [runner EXCEPT ![r].pc = "turn", ![r].seat = s,
                                                 ![r].seen = table.version]
    /\ UNCHANGED <<table, pending, spaces, server, faults>>

\* The agent's process, while it has a turn, acts through the MCP server.
TurnEnds(r, ok) ==
    LET s == runner[r].seat IN
    /\ runner[r].pc = "turn"
    /\ IF ok
       THEN Goto(r, "verify") /\ UNCHANGED <<status, archive, faults>>
       ELSE /\ Recorded(set_seat_status(status, s, "failed"))
            /\ runner' = [runner EXCEPT ![r].pc = "resigning", ![r].then = "loop"]
            /\ faults' = faults \cup {s}
    /\ UNCHANGED <<table, pending, spaces, server, failedReads>>

Verify(r) ==
    LET s == runner[r].seat IN
    /\ runner[r].pc = "verify"
    /\ \/ /\ GameReadOk
          /\ table.version > runner[r].seen
          /\ Recorded(set_seat_status(update_public(status), s, "ready"))
          /\ Goto(r, "loop")
          /\ UNCHANGED faults
       \/ /\ GameReadFails \/ (GameReadOk /\ table.version <= runner[r].seen)
          /\ Recorded(set_seat_status(status, s, "failed"))
          /\ runner' = [runner EXCEPT ![r].pc = "resigning", ![r].then = "loop"]
          /\ faults' = faults \cup {s}
    /\ UNCHANGED <<table, pending, spaces, server>>

\* abort_match: whoever's turn it is resigns.
abort_match(r) ==
    /\ runner[r].pc = "aborting"
    /\ \/ /\ GameReadOk
          /\ runner' = [runner EXCEPT ![r].pc = "resigning", ![r].seat = table.current]
       \/ /\ GameReadFails
          /\ Goto(r, runner[r].then)
    /\ UNCHANGED <<table, status, archive, pending, spaces, server, faults>>

\* Mutant: the seat that failed is taken to have moved on.
ResignNobody(r) ==
    /\ runner[r].pc = "resigning"
    /\ GameReadOk
    /\ Goto(r, runner[r].then)
    /\ UNCHANGED <<table, status, archive, pending, spaces, server, faults>>

\* resign, as far as the second read; the action it then sends carries the
\* version that was read.
resign(r) ==
    /\ runner[r].pc = "resigning"
    /\ \/ /\ GameReadFails
          /\ Goto(r, runner[r].then)
       \/ /\ GameReadOk
          /\ IF table.phase = "finished" \/ table.current # runner[r].seat
             THEN Goto(r, runner[r].then)
             ELSE runner' = [runner EXCEPT ![r].pc = "acting", ![r].seen = table.version]
    /\ UNCHANGED <<table, status, archive, pending, spaces, server, faults>>

\* Mutant: the resignation does not carry the version that was read.
ResignAnyVersion(r) ==
    /\ runner[r].pc = "acting"
    /\ table' = [table EXCEPT !.phase = "finished", !.version = @ + 1, !.by = "orchestrator"]
    /\ Goto(r, runner[r].then)
    /\ UNCHANGED <<status, archive, pending, spaces, server, failedReads, faults>>

ResignAct(r) ==
    /\ runner[r].pc = "acting"
    /\ Goto(r, runner[r].then)
    /\ IF table.phase = "active" /\ table.version = runner[r].seen
       THEN /\ table' = [table EXCEPT !.phase = "finished", !.version = @ + 1,
                                      !.by = "orchestrator"]
            /\ Recorded([status EXCEPT !.version = table.version + 1,
                                       !.orchestration = "finished"])
       ELSE UNCHANGED <<table, status, archive>>
    /\ UNCHANGED <<pending, spaces, server, failedReads, faults>>

\* finish_agents: the workspace of a seat that failed is retained; the others
\* are deleted, unless that fails.
finish_agents(r) ==
    LET kept == {s \in runner[r].agents : status.seats[s] = "failed"} IN
    /\ runner[r].pc = "finishing"
    /\ \E lost \in SUBSET (runner[r].agents \ kept) :
          spaces' = [s \in MSeats |-> IF s \in lost THEN "deleted" ELSE spaces[s]]
    /\ Recorded([status EXCEPT !.seats =
          [s \in MSeats |-> IF @[s] = "failed" THEN "failed" ELSE "finished"]])
    /\ Gone(r)
    /\ UNCHANGED <<table, pending, server, failedReads, faults>>

-----------------------------------------------------------------------------
(* The players, the deadline worker and the server *)

\* A move of the current seat: of a human, of an agent that has a turn, or
\* forced by the deadline worker.  ends: the move ends the game.
GameMove(ends) ==
    /\ table.phase = "active"
    /\ ends \/ table.version < LastVersion
    /\ table' = [version |-> table.version + 1,
                 current |-> IF ends THEN table.current ELSE MNext(table.current),
                 phase |-> IF ends THEN "finished" ELSE "active",
                 by |-> IF ends THEN "player" ELSE "nobody"]
    /\ UNCHANGED <<status, archive, pending, spaces, runner, server, failedReads, faults>>

Crash ==
    /\ server
    /\ server' = FALSE
    /\ status' = NoStatus
    /\ pending' = {}
    /\ runner' = [r \in Runners |-> IF runner[r].pc = "none" THEN NoRunner
                                    ELSE [NoRunner EXCEPT !.pc = "lost"]]
    /\ UNCHANGED <<table, archive, spaces, failedReads, faults>>

\* A server that cannot write the interruption does not start.
manager_restore ==
    /\ ~server
    /\ server' = TRUE
    /\ status' = IF archive.known /\ archive.orchestration = "active"
                 THEN [fail_agents(archive) EXCEPT !.orchestration = "interrupted"]
                 ELSE archive
    /\ archive' = status'
    /\ UNCHANGED <<table, pending, spaces, runner, failedReads, faults>>

-----------------------------------------------------------------------------
(* Specification *)

MatchInit ==
    /\ table = [version |-> 0, current |-> 1, phase |-> "active", by |-> "nobody"]
    /\ status = NoStatus /\ archive = NoStatus
    /\ pending = {}
    /\ spaces = [s \in MSeats |-> "none"]
    /\ runner = [r \in Runners |-> NoRunner]
    /\ server = TRUE
    /\ failedReads = 0
    /\ faults = {}

\* What a runner does by itself; a turn of its agent may last for ever.
RunnerStep(r) ==
    \/ Setup(r) \/ StartSeat(r) \/ start_agent(r) \/ Loop(r) \/ Verify(r)
    \/ abort_match(r) \/ resign(r) \/ ResignAct(r) \/ finish_agents(r)

MatchNext ==
    \/ \E r \in Runners : create_agent_match(r)
    \/ \E r \in Runners : Setup(r)
    \/ \E r \in Runners : StartSeat(r)
    \/ \E r \in Runners : start_agent(r)
    \/ \E r \in Runners : Loop(r)
    \/ \E r \in Runners, ok \in BOOLEAN : TurnEnds(r, ok)
    \/ \E r \in Runners : Verify(r)
    \/ \E r \in Runners : abort_match(r)
    \/ \E r \in Runners : resign(r)
    \/ \E r \in Runners : ResignAct(r)
    \/ \E r \in Runners : finish_agents(r)
    \/ \E ends \in BOOLEAN : runner[1].pc # "none" /\ GameMove(ends)
    \/ Crash
    \/ manager_restore

MatchFairness == \A r \in Runners : WF_matchVars(RunnerStep(r))

MatchSpec == MatchInit /\ [][MatchNext]_matchVars /\ MatchFairness

-----------------------------------------------------------------------------
(* Properties *)

MatchTypeOK ==
    /\ table \in Table
    /\ status \in MatchStatus /\ archive \in MatchStatus
    /\ pending \subseteq AgentSeats
    /\ spaces \in [MSeats -> {"none", "present", "deleted"}]
    /\ runner \in [Runners -> Runner]
    /\ server \in BOOLEAN /\ failedReads \in 0..ReadFaults
    /\ faults \subseteq AgentSeats

\* The orchestrator ends a game by resignation only for an agent that failed to
\* start, failed its turn or did not move: never in a race with a move that was
\* made meanwhile, by the player or for him.
ResignationIsEarned == table.by = "orchestrator" => faults # {}

\* A resignation is for the turn that was read: between the read and the action
\* nobody else has moved.
ResignationIsForTheTurnSeen ==
    [][\A r \in Runners : runner[r].pc = "acting" /\ runner'[r].pc # "acting"
          /\ table'.by = "orchestrator" /\ table.by # "orchestrator" =>
              table.version = runner[r].seen /\ table.current = runner[r].seat]_matchVars

\* A match is reported finished only if its game is; what the archive says is
\* never ahead of the game.
ReportedFinishedIsFinished ==
    \A st \in {status, archive} :
        /\ st.orchestration = "finished" => table.phase = "finished"
        /\ st.version <= table.version

\* A match that is listed as active on this server has had its runner here: a
\* restart never shows an abandoned runner as live.
ActiveHasARunner ==
    status.known /\ status.orchestration = "active" =>
        \E r \in Runners : runner[r].pc \notin {"none", "lost"}

\* The workspace of a failed seat is kept for the postmortem.
FailedSeatKeepsWorkspace ==
    [][\A s \in MSeats : spaces[s] = "present" /\ spaces'[s] = "deleted" =>
          status.seats[s] # "failed"]_matchVars

\* A failed turn does not stall the match: unless a read fails or the server
\* stops, the turn is resolved.
FailedTurnIsResolved ==
    \A r \in Runners :
        (runner[r].pc = "resigning" /\ table.current = runner[r].seat) ~>
        (\/ table.phase = "finished" \/ table.current # runner[r].seat
         \/ ~Alive(r) \/ failedReads > 0)

\* A finished game is reported, unless the runner is stuck in a turn, returned
\* because it could not read, or died with the server.
FinishedIsReported ==
    \A r \in Runners :
        (table.phase = "finished" /\ Alive(r)) ~>
        (status.orchestration = "finished" \/ runner[r].pc = "turn" \/ ~Alive(r))

\* A finished match is finished, an active one has a runner, a resignation is
\* for the turn the runner saw, a failed seat keeps its workspace.
AgentMatchSafety ==
    /\ [](MatchTypeOK /\ ReportedFinishedIsFinished /\ ActiveHasARunner)
    /\ ResignationIsForTheTurnSeen /\ FailedSeatKeepsWorkspace
=============================================================================
