---------------------------- MODULE AgentDriver ----------------------------
(***************************************************************************)
(* A driver of one agent: the generic driver, which talks to one process   *)
(* for many turns, and the native harness driver, which runs a process per *)
(* turn after probing its version.  A driver is owned by one caller, who   *)
(* may drop a call at any await, cancel it, checkpoint the driver, drop it *)
(* or die with it, and restore it from the checkpoint.                     *)
(*                                                                         *)
(* A process is its group: the leader, and what the leader has started.    *)
(* terminate kills the group; dropping the handle kills the leader only.   *)
(* Timestamps, diagnostics and the number of restarts are left out.        *)
(***************************************************************************)
EXTENDS Naturals, Sequences

CONSTANTS
    Pids,          \* processes that may be spawned
    NoPid,         \* no process
    Turns,         \* turn identifiers
    NoTurn,
    CanReattach,   \* whether the adapter can find a process by its handle
    PipeSize       \* bound on the unread output of a process

ASSUME DriverAssumption ==
    /\ NoPid \notin Pids
    /\ NoTurn \notin Turns
    /\ CanReattach \in BOOLEAN
    /\ PipeSize \in Nat

VARIABLES
    kind,        \* which of the two drivers it is
    driver,      \* the driver in memory
    call,        \* the call in progress
    cancelled,   \* the CancellationToken of the calls
    procs,       \* the processes of the operating system
    pipe,        \* what the process of the driver wrote and nobody has read
    saved,       \* the last checkpoint
    orphans      \* history: processes that survived the death of their owner

driverVars == <<kind, driver, call, cancelled, procs, pipe, saved, orphans>>

-----------------------------------------------------------------------------
(* Data *)

DriverLifecycleState ==
    {"pending", "starting", "ready", "turn_running", "terminating", "terminated", "crashed"}
Transient == {"starting", "turn_running", "terminating"}

\* exists: a value of the driver is in memory; buffer: whose bytes the decoder
\* holds.
Driver ==
    [exists: BOOLEAN, state: DriverLifecycleState, process: Pids \cup {NoPid},
     handle: Pids \cup {NoPid}, buffer: Pids \cup {NoPid}, needs_probe: BOOLEAN]

DriverNew ==
    [exists |-> TRUE, state |-> "pending", process |-> NoPid, handle |-> NoPid,
     buffer |-> NoPid, needs_probe |-> (kind = "native")]

NoDriver == [DriverNew EXCEPT !.exists = FALSE]

DriverOp == {"none", "start", "request_turn", "resume", "terminate"}
DriverPhase == {"idle", "spawning", "reattaching", "writing", "reading", "capturing",
                "killing", "cancelling", "failing"}
DriverCall ==
    [op: DriverOp, phase: DriverPhase, turn: Turns \cup {NoTurn},
     previous: DriverLifecycleState]
NoDriverCall ==
    [op |-> "none", phase |-> "idle", turn |-> NoTurn, previous |-> "pending"]

\* A chunk of output: part of a line, a line that cannot be accepted (not one
\* whole frame, empty, too large, of another schema), diagnostics, or a frame.
Chunks == {"partial", "bad", "stderr"} \cup Turns

\* running; stray: the leader is dead, some descendant is not; gone.
ProcState == {"unused", "running", "stray", "gone"}

\* The driver has no call in progress, as &mut self demands of every new one.
Callable == driver.exists /\ call = NoDriverCall

-----------------------------------------------------------------------------
(* Processes *)

\* Mutant: spawn without kill_on_drop.
ReleasedOnly(p) == procs' = procs

\* What dropping the handle of process p does to it: kill_on_drop.
Released(p) ==
    IF p \in Pids /\ procs[p] = "running"
    THEN \E s \in {"stray", "gone"} : procs' = [procs EXCEPT ![p] = s]
    ELSE procs' = procs

\* What terminate does: it kills the group, or the leader if kill(1) fails.
Terminated(p) ==
    IF p \in Pids /\ procs[p] = "running"
    THEN \E s \in {"stray", "gone"} : procs' = [procs EXCEPT ![p] = s]
    ELSE procs' = procs

ProcessExits(p) ==
    /\ procs[p] = "running"
    /\ \E s \in {"stray", "gone"} : procs' = [procs EXCEPT ![p] = s]
    /\ UNCHANGED <<kind, driver, call, cancelled, pipe, saved, orphans>>

ProcessWrites(chunk) ==
    /\ kind = "generic"
    /\ driver.process # NoPid
    /\ procs[driver.process] = "running"
    /\ Len(pipe) < PipeSize
    /\ pipe' = Append(pipe, chunk)
    /\ UNCHANGED <<kind, driver, call, cancelled, procs, saved, orphans>>

\* The process that a spawn creates.
Spawned(p) ==
    /\ procs[p] = "unused"
    /\ procs' = [procs EXCEPT ![p] = "running"]

-----------------------------------------------------------------------------
(* Calls *)

\* The end of cancellation_error and protocol_failure, and of terminate.
EndedAs(state) ==
    /\ driver' = [driver EXCEPT !.state = state, !.process = NoPid, !.handle = NoPid,
                                !.buffer = NoPid]
    /\ pipe' = <<>>

\* A call that finds the token cancelled: with a process, terminate is awaited.
CancelNow(op) ==
    IF driver.process = NoPid
    THEN EndedAs("terminated") /\ call' = NoDriverCall
    ELSE /\ call' = [NoDriverCall EXCEPT !.op = op, !.phase = "cancelling"]
         /\ UNCHANGED <<driver, pipe>>

start ==
    /\ Callable
    /\ driver.state = "pending"
    /\ IF cancelled /\ kind = "generic" THEN CancelNow("start")
       ELSE /\ driver' = [driver EXCEPT !.state = "starting"]
            /\ call' = [NoDriverCall EXCEPT !.op = "start", !.phase = "spawning"]
            /\ UNCHANGED pipe
    /\ UNCHANGED <<kind, cancelled, procs, saved, orphans>>

request_turn(t) ==
    /\ Callable
    /\ driver.state = "ready"
    /\ IF kind = "generic" THEN driver.process # NoPid ELSE ~driver.needs_probe
    /\ IF cancelled THEN CancelNow("request_turn")
       ELSE /\ driver' = [driver EXCEPT !.state = "turn_running"]
            /\ call' = [NoDriverCall EXCEPT !.op = "request_turn", !.turn = t,
                   !.phase = IF kind = "generic" THEN "writing" ELSE "spawning"]
            /\ UNCHANGED pipe
    /\ UNCHANGED <<kind, cancelled, procs, saved, orphans>>

resume ==
    /\ Callable
    /\ \/ /\ kind = "generic"
          /\ driver.process = NoPid
          /\ IF cancelled THEN CancelNow("resume")
             ELSE /\ driver.state \in {"ready", "crashed"}
                  /\ driver.state = "ready" => driver.handle # NoPid
                  /\ call' = [NoDriverCall EXCEPT !.op = "resume", !.phase =
                        IF driver.state = "ready" THEN "reattaching" ELSE "spawning"]
                  /\ UNCHANGED <<driver, pipe>>
       \/ /\ kind = "native"
          /\ \/ driver.state = "ready" /\ driver.needs_probe
             \/ driver.state = "crashed"
          /\ driver' = [driver EXCEPT !.state = "starting"]
          /\ call' = [NoDriverCall EXCEPT !.op = "resume", !.phase = "spawning"]
          /\ UNCHANGED pipe
    /\ UNCHANGED <<kind, cancelled, procs, saved, orphans>>

terminate ==
    /\ Callable
    /\ driver.state # "terminated"
    /\ IF driver.process = NoPid
       THEN EndedAs("terminated") /\ UNCHANGED call
       ELSE /\ driver' = [driver EXCEPT !.state = "terminating"]
            /\ call' = [NoDriverCall EXCEPT !.op = "terminate", !.phase = "killing",
                                            !.previous = driver.state]
            /\ UNCHANGED pipe
    /\ UNCHANGED <<kind, cancelled, procs, saved, orphans>>

-----------------------------------------------------------------------------
(* The awaits *)

\* The select! statements are biased: a cancelled token wins.
CancelWins ==
    /\ call.phase \in {"spawning", "reattaching", "writing", "reading", "capturing"}
    /\ cancelled
    /\ CancelNow(call.op)
    /\ UNCHANGED <<kind, cancelled, procs, saved, orphans>>

\* The adapter has spawned the process of start, resume or a native turn.
SpawnDone(p) ==
    /\ call.phase = "spawning"
    /\ ~cancelled
    /\ Spawned(p)
    /\ IF kind = "generic"
       THEN /\ driver' = [driver EXCEPT !.process = p, !.handle = NoPid, !.state = "ready"]
            /\ call' = NoDriverCall
       ELSE /\ driver' = [driver EXCEPT !.process = p]
            /\ call' = [call EXCEPT !.phase = "capturing"]
    /\ UNCHANGED <<kind, cancelled, pipe, saved, orphans>>

\* start and every native call crash the driver; resume leaves it as it was.
SpawnFails ==
    /\ call.phase = "spawning"
    /\ ~cancelled
    /\ driver' = IF kind = "native" \/ call.op = "start"
                 THEN [driver EXCEPT !.state = "crashed"] ELSE driver
    /\ call' = NoDriverCall
    /\ UNCHANGED <<kind, cancelled, procs, pipe, saved, orphans>>

\* reattach_or_restart: the process is found, or a replacement is started, or
\* the adapter fails in another way.
ReattachDone ==
    /\ call.phase = "reattaching"
    /\ ~cancelled
    /\ \/ /\ CanReattach /\ procs[driver.handle] = "running"
          /\ driver' = [driver EXCEPT !.process = driver.handle, !.handle = NoPid]
          /\ orphans' = orphans \ {driver.handle}
          /\ call' = NoDriverCall
       \/ /\ ~CanReattach \/ procs[driver.handle] # "running"
          /\ call' = [call EXCEPT !.phase = "spawning"]
          /\ UNCHANGED <<driver, orphans>>
       \/ /\ call' = NoDriverCall
          /\ UNCHANGED <<driver, orphans>>
    /\ UNCHANGED <<kind, cancelled, procs, pipe, saved>>

WriteDone ==
    /\ call.phase = "writing"
    /\ ~cancelled
    /\ \/ /\ procs[driver.process] = "running"
          /\ call' = [call EXCEPT !.phase = "reading"]
       \/ call' = [call EXCEPT !.phase = "failing"]
    /\ UNCHANGED <<kind, driver, cancelled, procs, pipe, saved, orphans>>

\* One event of the process; its exit is seen once its output is read.
ReadFrame ==
    /\ call.phase = "reading"
    /\ ~cancelled
    /\ pipe # <<>>
    /\ LET chunk == Head(pipe)
       IN /\ pipe' = Tail(pipe)
          /\ CASE chunk = "partial" ->
                     driver' = [driver EXCEPT !.buffer = driver.process] /\ UNCHANGED call
               [] chunk = "stderr" -> UNCHANGED <<driver, call>>
               [] chunk = call.turn ->
                     /\ driver' = [driver EXCEPT !.buffer = NoPid, !.state = "ready"]
                     /\ call' = NoDriverCall
               [] OTHER -> call' = [call EXCEPT !.phase = "failing"] /\ UNCHANGED driver
    /\ UNCHANGED <<kind, cancelled, procs, saved, orphans>>

ReadFails ==
    /\ call.phase = "reading"
    /\ ~cancelled
    /\ call' = [call EXCEPT !.phase = "failing"]
    /\ UNCHANGED <<kind, driver, cancelled, procs, pipe, saved, orphans>>

\* The process has exited before it answered.
ReadExit ==
    /\ call.phase = "reading"
    /\ ~cancelled
    /\ pipe = <<>>
    /\ procs[driver.process] # "running"
    /\ EndedAs("crashed")
    /\ call' = NoDriverCall
    /\ UNCHANGED <<kind, cancelled, procs, saved, orphans>>

\* run_process of the native driver has the output and the exit status: the
\* version is right or the turn was completed (good), or not.
Captured(good) ==
    /\ call.phase = "capturing"
    /\ ~cancelled
    /\ procs[driver.process] # "running"
    /\ driver' = [driver EXCEPT !.process = NoPid,
                    !.state = IF good THEN "ready" ELSE "crashed",
                    !.needs_probe = IF good /\ call.op # "request_turn" THEN FALSE ELSE @]
    /\ call' = NoDriverCall
    /\ UNCHANGED <<kind, cancelled, procs, pipe, saved, orphans>>

\* Reading fails: mark_crashed drops the process.  Too much output: the process
\* is terminated first.
CaptureFails ==
    /\ call.phase = "capturing"
    /\ ~cancelled
    /\ \/ /\ Released(driver.process)
          /\ EndedAs("crashed")
          /\ call' = NoDriverCall
       \/ /\ call' = [call EXCEPT !.phase = "failing"]
          /\ UNCHANGED <<driver, pipe, procs>>
    /\ UNCHANGED <<kind, cancelled, saved, orphans>>

\* terminate of the process has returned, well or not, within cancellation_error
\* (cancelling) or protocol_failure (failing); its handle is then dropped.
CleanupDone ==
    /\ call.phase \in {"cancelling", "failing"}
    /\ Terminated(driver.process)
    /\ EndedAs(IF call.phase = "cancelling" THEN "terminated" ELSE "crashed")
    /\ call' = NoDriverCall
    /\ UNCHANGED <<kind, cancelled, saved, orphans>>

\* The same within terminate, which gives up if the process cannot be killed.
KillDone ==
    /\ call.phase = "killing"
    /\ \/ /\ Terminated(driver.process)
          /\ EndedAs("terminated")
       \/ /\ driver' = [driver EXCEPT !.state = call.previous]
          /\ UNCHANGED <<procs, pipe>>
    /\ call' = NoDriverCall
    /\ UNCHANGED <<kind, cancelled, saved, orphans>>

-----------------------------------------------------------------------------
(* The owner *)

Cancel ==
    /\ ~cancelled
    /\ cancelled' = TRUE
    /\ UNCHANGED <<kind, driver, call, procs, pipe, saved, orphans>>

\* The future of a call is dropped at its await.
DropCall ==
    /\ call # NoDriverCall
    /\ call' = NoDriverCall
    /\ UNCHANGED <<kind, driver, cancelled, procs, pipe, saved, orphans>>

checkpoint ==
    /\ Callable
    /\ driver.state \notin Transient
    /\ saved' = [driver EXCEPT !.handle = IF driver.process # NoPid
                                          THEN driver.process ELSE @,
                               !.process = NoPid, !.buffer = NoPid]
    /\ UNCHANGED <<kind, driver, call, cancelled, procs, pipe, orphans>>

\* The value is dropped: so is its process.
DropDriver ==
    /\ Callable
    /\ Released(driver.process)
    /\ driver' = NoDriver
    /\ cancelled' = FALSE
    /\ pipe' = <<>>
    /\ UNCHANGED <<kind, call, saved, orphans>>

\* The owner dies; the process stays, its pipes are closed.
OwnerDies ==
    /\ driver.exists
    /\ driver' = NoDriver
    /\ call' = NoDriverCall
    /\ cancelled' = FALSE
    /\ orphans' = IF driver.process # NoPid THEN orphans \cup {driver.process} ELSE orphans
    /\ pipe' = <<>>
    /\ UNCHANGED <<kind, procs, saved>>

\* What restore_with_process_spec and validate_native_checkpoint ask.
RestoreAccepts(c) ==
    /\ c.state \notin Transient
    /\ kind = "generic" => (c.state = "ready") = (c.handle # NoPid)

restore ==
    /\ ~driver.exists
    /\ saved.exists
    /\ RestoreAccepts(saved)
    /\ driver' = [saved EXCEPT !.needs_probe = kind = "native" /\ saved.state = "ready"]
    /\ UNCHANGED <<kind, call, cancelled, procs, pipe, saved, orphans>>

-----------------------------------------------------------------------------
(* Specification *)

DriverInit ==
    /\ kind \in {"generic", "native"}
    /\ driver = DriverNew
    /\ call = NoDriverCall
    /\ cancelled = FALSE
    /\ procs = [p \in Pids |-> "unused"]
    /\ pipe = <<>>
    /\ saved = NoDriver
    /\ orphans = {}

\* The steps of a call that is in progress.
DriverStep ==
    \/ CancelWins
    \/ \E p \in Pids : SpawnDone(p)
    \/ SpawnFails
    \/ ReattachDone
    \/ WriteDone
    \/ ReadFrame
    \/ ReadFails
    \/ ReadExit
    \/ \E good \in BOOLEAN : Captured(good)
    \/ CaptureFails
    \/ CleanupDone
    \/ KillDone

DriverNext ==
    \/ DriverStep
    \/ start
    \/ \E t \in Turns : request_turn(t)
    \/ resume
    \/ terminate
    \/ Cancel
    \/ DropCall
    \/ checkpoint
    \/ DropDriver
    \/ OwnerDies
    \/ restore
    \/ \E p \in Pids : ProcessExits(p)
    \/ \E chunk \in Chunks : ProcessWrites(chunk)

DriverSpec == DriverInit /\ [][DriverNext]_driverVars

-----------------------------------------------------------------------------
(* Properties *)

DriverTypeOK ==
    /\ kind \in {"generic", "native"}
    /\ driver \in Driver
    /\ call \in DriverCall
    /\ cancelled \in BOOLEAN
    /\ procs \in [Pids -> ProcState]
    /\ saved \in Driver
    /\ orphans \subseteq Pids

\* However a call ended, dropped at an await, cancelled or failed, a running
\* process is held by the driver, unless the owner itself died.
NoRunawayProcess ==
    \A p \in Pids : procs[p] = "running" => driver.process = p \/ p \in orphans

\* A generic driver that says it is ready has a process, or the handle of the one
\* it had; a native one never has a process between calls.
ReadyMeansReachable ==
    Callable =>
        /\ kind = "generic" /\ driver.state = "ready" =>
              (driver.process # NoPid) # (driver.handle # NoPid)
        /\ driver.state \in {"pending", "terminated", "crashed"} =>
              driver.process = NoPid /\ driver.handle = NoPid
        /\ kind = "native" /\ driver.state = "ready" => driver.process = NoPid

\* A frame is never put together from the bytes of two processes.
FramesOfOneProcess == driver.buffer \in {NoPid, driver.process}

\* What checkpoint captures, restore accepts.
CheckpointIsRestorable == saved.exists => RestoreAccepts(saved)

\* A terminated driver stays terminated, and runs no process again.
TerminatedIsTheEnd ==
    [][driver.exists /\ driver.state = "terminated" /\ driver'.exists =>
          driver'.state = "terminated" /\ driver'.process = NoPid]_driverVars

\* Every await of start, request_turn and resume races the token: once it is
\* cancelled the call returns, whatever the process does or fails to do.
CancelledCallEnds == cancelled /\ call # NoDriverCall ~> call = NoDriverCall

\* However calls are cancelled, dropped, checkpointed and restored: no process
\* is left behind, a ready driver reaches its process, frames are of one
\* process, a checkpoint restores, a terminated driver stays so.
DriverSafety ==
    /\ [](DriverTypeOK /\ NoRunawayProcess /\ ReadyMeansReachable)
    /\ [](FramesOfOneProcess /\ CheckpointIsRestorable)
    /\ TerminatedIsTheEnd
=============================================================================
