----------------------------- MODULE MCJobQueue -----------------------------
(* Small instances of JobQueue. *)
EXTENDS JobQueue, TLC

CONSTANTS w1, w2

Input(id, kind, key, priority, max) ==
    [id |-> id, kind |-> kind, key |-> key, payload |-> 0, priority |-> priority,
     available |-> 0, max_attempts |-> max, retry_initial |-> 1, retry_max |-> 1]

\* Two jobs of different priority, and a second input for the key of the first.
MCNewJobs == {Input(1, "a", 1, 0, 2), Input(2, "a", 2, 1, 1), Input(2, "a", 1, 0, 1)}
MCOneJob == {Input(1, "a", 1, 0, 2)}

\* Two processes that run under one worker_id.
MCSharedId == [w \in {w1, w2} |-> "worker"]
MCKind == [w \in {w1, w2} |-> "a"]

MCOneWorkerId == [w \in {w1} |-> "one"]
MCOneWorkerKind == [w \in {w1} |-> "a"]
=============================================================================
