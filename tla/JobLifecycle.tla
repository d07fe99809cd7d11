---------------------------- MODULE JobLifecycle ----------------------------
(***************************************************************************)
(* What the durable job queue promises of each job, without workers,       *)
(* leases, clocks or tables: a stored job is run at most `limit` times,    *)
(* one run at a time, and ends once, in a way its runs and the             *)
(* cancellation requests account for.                                      *)
(***************************************************************************)
EXTENDS Integers

CONSTANT Jobs

VARIABLE lifecycle

End == {"succeeded", "permanent_failure", "exhausted", "cancelled"}

Store(a, b) ==
    /\ a.phase = "absent"
    /\ b.limit \in Nat \ {0}
    /\ b = [phase |-> "queued", runs |-> 0, limit |-> b.limit, cancel |-> FALSE]

\* A first run, a run after a retryable failure, or one that replaces a run
\* whose worker was lost.
Start(a, b) ==
    /\ a.phase \in {"queued", "running"}
    /\ ~a.cancel
    /\ a.runs < a.limit
    /\ b = [phase |-> "running", runs |-> a.runs + 1, limit |-> a.limit,
            cancel |-> a.cancel]

Retry(a, b) ==
    /\ a.phase = "running"
    /\ ~a.cancel
    /\ a.runs < a.limit
    /\ b = [a EXCEPT !.phase = "queued"]

Finish(a, b) ==
    /\ a.phase = "running"
    /\ ~a.cancel
    /\ b \in {[a EXCEPT !.phase = end] : end \in {"succeeded", "permanent_failure"}}

\* Only the last run allowed exhausts a job.
Exhaust(a, b) ==
    /\ a.phase = "running"
    /\ ~a.cancel
    /\ a.runs = a.limit
    /\ b = [a EXCEPT !.phase = "exhausted"]

\* A run is asked to stop; no other end than "cancelled" is left to it.
RequestCancel(a, b) ==
    /\ a.phase = "running"
    /\ b = [phase |-> "running", runs |-> a.runs, limit |-> a.limit, cancel |-> TRUE]

\* A waiting job is cancelled at once, a run when it stops.
Cancel(a, b) ==
    \/ /\ a.phase = "queued"
       /\ b = [phase |-> "cancelled", runs |-> a.runs, limit |-> a.limit, cancel |-> TRUE]
    \/ /\ a.phase = "running"
       /\ b = [a EXCEPT !.phase = "cancelled"]

JobStep(a, b) ==
    \/ Store(a, b)
    \/ Start(a, b)
    \/ Retry(a, b)
    \/ Finish(a, b)
    \/ Exhaust(a, b)
    \/ RequestCancel(a, b)
    \/ Cancel(a, b)

Init ==
    lifecycle = [j \in Jobs |->
        [phase |-> "absent", runs |-> 0, limit |-> 0, cancel |-> FALSE]]

\* One transaction may move several jobs: the recovery of expired leases does.
Next ==
    /\ DOMAIN lifecycle' = Jobs
    /\ \A j \in Jobs : \/ lifecycle'[j] = lifecycle[j]
                       \/ JobStep(lifecycle[j], lifecycle'[j])

Spec == Init /\ [][Next]_lifecycle
=============================================================================
