------------------------------ MODULE JobQueue ------------------------------
(***************************************************************************)
(* The durable job queue: the tables `jobs` and `job_attempts`, the        *)
(* transactions of SqliteJobRepository on them, and the processes that     *)
(* call it (enqueuers, cancellers, and workers running JobWorker::run_once *)
(* or a loop of their own that also renews).                               *)
(*                                                                         *)
(* A SQLite write transaction is one action.  `cancel_job` runs outside a  *)
(* transaction and is two actions.  A caller samples its clock before it   *)
(* waits for the database, so the `now` of a call may be older than the    *)
(* `now` of calls that committed before it, by at most MaxDelay.           *)
(***************************************************************************)
EXTENDS Integers

CONSTANTS
    NewJobs,          \* the NewJob inputs that callers may enqueue
    Workers,          \* worker processes
    WorkerId,         \* [Workers -> ids]: processes may share a worker_id
    NoWorker,         \* SQL NULL in the owner column
    Kind,             \* [Workers -> kinds]: the kind the worker's handler serves
    LeaseDuration,    \* lease_duration_ms of the workers
    JobMaxAttempts,   \* JOB_MAX_ATTEMPTS
    MaxDelay,         \* how stale the `now` of a call can be
    RenewUntil,       \* bound on the times at which leases are renewed
    EnqueueUntil      \* bound on the times at which jobs are enqueued

ASSUME NewJobsAssumption ==
    NewJobs \subseteq [id: Nat, kind: {Kind[w] : w \in Workers}, key: Nat,
                       payload: Nat, priority: Int, available: Nat,
                       max_attempts: 1..JobMaxAttempts,
                       retry_initial: Nat \ {0}, retry_max: Nat \ {0}]

ASSUME WorkersAssumption ==
    /\ DOMAIN WorkerId = Workers
    /\ \A w \in Workers : WorkerId[w] # NoWorker

ASSUME BoundsAssumption ==
    /\ LeaseDuration \in Nat \ {0}
    /\ JobMaxAttempts \in Nat \ {0}
    /\ MaxDelay \in Nat
    /\ RenewUntil \in Nat
    /\ EnqueueUntil \in Nat

VARIABLES
    clock,      \* ApplicationClock, in milliseconds
    jobs,       \* table jobs, one row per job id ("absent": no such row)
    attempts,   \* table job_attempts, by job id and attempt ("none": no row)
    worker,     \* what each worker process holds in memory
    cancels     \* per job, a cancel_job call between its read and its write

vars == <<clock, jobs, attempts, worker, cancels>>

-----------------------------------------------------------------------------
(* Data *)

Null == -1

JobIds == {n.id : n \in NewJobs}
Owners == {WorkerId[w] : w \in Workers} \cup {NoWorker}
AttemptNumbers == 1..JobMaxAttempts

Terminal == {"succeeded", "permanent_failure", "exhausted", "cancelled"}
JobStatus == {"queued", "leased"} \cup Terminal

HandlerOutcome == {"succeeded", "retryable", "permanent", "cancelled"}
Closed == HandlerOutcome \cup {"abandoned"}

JobRecord ==
    [spec: NewJobs, status: JobStatus \cup {"absent"}, available: Nat,
     attempt: 0..JobMaxAttempts, generation: Nat, owner: Owners,
     expires: Nat \cup {Null}, cancel: BOOLEAN, created: Nat]

AttemptRow ==
    [generation: Nat, worker: Owners, expires: Nat \cup {Null},
     outcome: Closed \cup {"none", "open"}, final: (JobStatus \ {"leased"}) \cup {"none"}]

NoAttempt ==
    [generation |-> 0, worker |-> NoWorker, expires |-> Null,
     outcome |-> "none", final |-> "none"]

\* The JobLease in the hands of a worker between claim and the end of run_once.
JobLease ==
    [job: JobIds \cup {Null}, attempt: 0..JobMaxAttempts, generation: Nat,
     leased_at: Nat]

Idle == [job |-> Null, attempt |-> 0, generation |-> 0, leased_at |-> 0]

\* The values a call that commits now may have sampled as its `now`.
Sampled == {t \in 0..clock : t + MaxDelay >= clock}

-----------------------------------------------------------------------------
(* Retry backoff *)

\* initial * 2^(attempt-1) saturating, capped.  i64 saturation is above every
\* legal maximum (JOB_MAX_BACKOFF_MS), so the cap decides before it matters.
retry_backoff_ms(initial, maximum, attempt) ==
    LET b == initial * 2^(attempt - 1) IN IF b \in 0..maximum THEN b ELSE maximum

-----------------------------------------------------------------------------
(* enqueue_job *)

\* The immutable columns of the row against the input, and its available_at,
\* which retries overwrite.
same_enqueue_identity(existing, new) ==
    /\ existing.spec.kind = new.kind
    /\ existing.spec.payload = new.payload
    /\ existing.spec.priority = new.priority
    /\ existing.available = new.available
    /\ existing.spec.max_attempts = new.max_attempts
    /\ existing.spec.retry_initial = new.retry_initial
    /\ existing.spec.retry_max = new.retry_max
    /\ existing.spec.key = new.key

Present(j) == jobs[j].status # "absent"

Deduplicated(n) ==
    {j \in JobIds : /\ Present(j)
                    /\ jobs[j].spec.kind = n.kind
                    /\ jobs[j].spec.key = n.key}

EnqueueResult(n) ==
    IF ~Present(n.id) /\ Deduplicated(n) = {} THEN "inserted"
    ELSE IF \E j \in Deduplicated(n) : same_enqueue_identity(jobs[j], n)
         THEN "existing"
         ELSE "conflict"

\* Only an insertion changes the tables: "existing" and "conflict" answer.
enqueue_job(n) ==
    \E now \in Sampled :
        /\ clock <= EnqueueUntil
        /\ EnqueueResult(n) = "inserted"
        /\ jobs' = [jobs EXCEPT ![n.id] =
              [spec |-> n, status |-> "queued", available |-> n.available,
               attempt |-> 0, generation |-> 0, owner |-> NoWorker,
               expires |-> Null, cancel |-> FALSE, created |-> now]]
        /\ UNCHANGED <<clock, attempts, worker, cancels>>

-----------------------------------------------------------------------------
(* claim_job *)

\* recover_expired on table job_attempts.
RecoveredAttempt(r, a, k, now) ==
    IF a.outcome = "open" /\ a.expires <= now
    THEN [a EXCEPT
            !.outcome = "abandoned",
            !.final = IF r.cancel THEN "cancelled"
                      ELSE IF k >= r.spec.max_attempts THEN "exhausted"
                      ELSE "queued"]
    ELSE a

\* Mutant: recovery forgets expired leases that were asked to cancel.
RecoveredJobExhaustedOnly(r, now) ==
    IF /\ r.status = "leased"
       /\ r.expires <= now
       /\ r.attempt >= r.spec.max_attempts
    THEN [r EXCEPT !.status = IF r.cancel THEN "cancelled" ELSE "exhausted",
                   !.owner = NoWorker, !.expires = Null]
    ELSE r

\* recover_expired on table jobs: only jobs that cannot be claimed again.
RecoveredJob(r, now) ==
    IF /\ r.status = "leased"
       /\ r.expires <= now
       /\ r.cancel \/ r.attempt >= r.spec.max_attempts
    THEN [r EXCEPT !.status = IF r.cancel THEN "cancelled" ELSE "exhausted",
                   !.owner = NoWorker, !.expires = Null]
    ELSE r

Claimable(r, now, kind) ==
    /\ ~r.cancel
    /\ r.attempt < r.spec.max_attempts
    /\ \/ r.status = "queued" /\ r.available <= now
       \/ r.status = "leased" /\ r.expires <= now
    /\ r.spec.kind = kind

\* ORDER BY priority DESC, available_at_ms, created_at_ms, job_id
Precedes(r, s) ==
    \/ r.spec.priority > s.spec.priority
    \/ /\ r.spec.priority = s.spec.priority
       /\ \/ r.available < s.available
          \/ /\ r.available = s.available
             /\ \/ r.created < s.created
                \/ r.created = s.created /\ r.spec.id < s.spec.id

Claimed(r, w, now) ==
    [r EXCEPT !.status = "leased", !.attempt = @ + 1,
              !.generation = @ + 1, !.owner = WorkerId[w],
              !.expires = now + LeaseDuration]

\* The transaction of claim_job: recovery, then at most one claim.  It aborts,
\* changing nothing, when the CHECK leased_at_ms >= created_at_ms of the row or
\* the key of the attempt row refuses the claim.
claim_job(w) ==
    \E now \in Sampled :
        LET recovered == [j \in JobIds |-> RecoveredJob(jobs[j], now)]
            abandoned == [j \in JobIds |->
                            [k \in AttemptNumbers |->
                                RecoveredAttempt(jobs[j], attempts[j][k], k, now)]]
            ready == {j \in JobIds : Claimable(recovered[j], now, Kind[w])}
        IN
        /\ worker[w] = Idle
        /\ \/ /\ ready = {}
              /\ jobs' = recovered
              /\ attempts' = abandoned
              /\ UNCHANGED worker
           \/ \E j \in ready :
                LET r == Claimed(recovered[j], w, now) IN
                /\ \A i \in ready \ {j} : Precedes(recovered[j], recovered[i])
                /\ now >= r.created
                /\ attempts[j][r.attempt].outcome = "none"
                /\ jobs' = [recovered EXCEPT ![j] = r]
                /\ attempts' = [abandoned EXCEPT ![j][r.attempt] =
                      [generation |-> r.generation, worker |-> WorkerId[w],
                       expires |-> r.expires, outcome |-> "open",
                       final |-> "none"]]
                /\ worker' = [worker EXCEPT ![w] =
                      [job |-> j, attempt |-> r.attempt,
                       generation |-> r.generation, leased_at |-> now]]
        /\ UNCHANGED <<clock, cancels>>

-----------------------------------------------------------------------------
(* renew_job *)

\* Mutant: the fence compares the worker id alone.
FencedByOwner(w) ==
    LET l == worker[w] IN
    /\ l.job # Null
    /\ jobs[l.job].status = "leased"
    /\ jobs[l.job].owner = WorkerId[w]

\* The row is still leased under the fence (owner, attempt, generation).
Fenced(w) ==
    LET l == worker[w] IN
    /\ l.job # Null
    /\ jobs[l.job].status = "leased"
    /\ jobs[l.job].owner = WorkerId[w]
    /\ jobs[l.job].attempt = l.attempt
    /\ jobs[l.job].generation = l.generation

\* The handler of w renews.  A failed guard is Conflict, or Corrupt when the
\* attempt is no longer open: the transaction rolls back and nothing changes.
renew_job(w) ==
    \E now \in Sampled :
        LET l == worker[w] IN
        /\ clock <= RenewUntil
        /\ now >= l.leased_at
        /\ Fenced(w)
        /\ jobs[l.job].expires > now
        /\ now + LeaseDuration > jobs[l.job].expires
        /\ attempts[l.job][l.attempt].outcome = "open"
        /\ attempts[l.job][l.attempt].generation = l.generation
        /\ jobs' = [jobs EXCEPT ![l.job].expires = now + LeaseDuration]
        /\ attempts' = [attempts EXCEPT
              ![l.job][l.attempt].expires = now + LeaseDuration]
        /\ UNCHANGED <<clock, worker, cancels>>

-----------------------------------------------------------------------------
(* complete_job *)

\* The attempt row of this lease already stores an outcome.
existing_completion(w) ==
    LET l == worker[w] IN
    /\ attempts[l.job][l.attempt].generation = l.generation
    /\ attempts[l.job][l.attempt].outcome \in Closed

validate_active_completion(w, outcome, now) ==
    /\ Fenced(w)
    /\ jobs[worker[w].job].expires > now
    /\ jobs[worker[w].job].cancel => outcome = "cancelled"

\* Mutant: a retryable failure of the last attempt queues the job again.
TransitionPastLimit(r, outcome, now) ==
    CASE outcome = "succeeded" ->
            [status |-> "succeeded", available |-> r.available]
      [] outcome = "permanent" ->
            [status |-> "permanent_failure", available |-> r.available]
      [] outcome = "cancelled" ->
            [status |-> "cancelled", available |-> r.available]
      [] outcome = "retryable" ->
            [status |-> "queued",
             available |-> now + retry_backoff_ms(r.spec.retry_initial,
                                      r.spec.retry_max, r.attempt)]

\* The status and available_at that an outcome gives the row.
completion_transition(r, outcome, now) ==
    CASE outcome = "succeeded" ->
            [status |-> "succeeded", available |-> r.available]
      [] outcome = "permanent" ->
            [status |-> "permanent_failure", available |-> r.available]
      [] outcome = "cancelled" ->
            [status |-> "cancelled", available |-> r.available]
      [] outcome = "retryable" /\ r.attempt >= r.spec.max_attempts ->
            [status |-> "exhausted", available |-> r.available]
      [] outcome = "retryable" /\ r.attempt < r.spec.max_attempts ->
            [status |-> "queued",
             available |-> now + retry_backoff_ms(r.spec.retry_initial,
                                      r.spec.retry_max, r.attempt)]

\* The handler returns `outcome` and the transaction applies it.  The worker
\* keeps its lease until an answer reaches it: if that is lost it may send a
\* completion again, the same or another.
complete_job(w, outcome) ==
    \E now \in Sampled :
        LET l == worker[w]
            t == completion_transition(jobs[l.job], outcome, now) IN
        /\ l.job # Null
        /\ now >= l.leased_at
        /\ ~existing_completion(w)
        /\ validate_active_completion(w, outcome, now)
        /\ jobs' = [jobs EXCEPT ![l.job].status = t.status,
                                ![l.job].available = t.available,
                                ![l.job].owner = NoWorker,
                                ![l.job].expires = Null]
        /\ attempts' = [attempts EXCEPT ![l.job][l.attempt].outcome = outcome,
                                        ![l.job][l.attempt].final = t.status]
        /\ UNCHANGED <<clock, worker, cancels>>

\* complete_job answers without writing: AlreadyApplied or Conflict for an
\* attempt that is closed, Conflict for a lease that is no longer active.
\* run_once ends, with or without an error.
complete_answer(w) ==
    /\ worker[w].job # Null
    /\ \/ existing_completion(w)
       \/ \E now \in Sampled, outcome \in HandlerOutcome :
             /\ now >= worker[w].leased_at
             /\ ~validate_active_completion(w, outcome, now)
    /\ worker' = [worker EXCEPT ![w] = Idle]
    /\ UNCHANGED <<clock, jobs, attempts, cancels>>

\* The worker process stops and starts again: its lease is forgotten.
Crash(w) ==
    /\ worker[w].job # Null
    /\ worker' = [worker EXCEPT ![w] = Idle]
    /\ UNCHANGED <<clock, jobs, attempts, cancels>>

-----------------------------------------------------------------------------
(* cancel_job *)

\* SELECT status: a terminal job is answered AlreadyTerminal.
CancelRead(j) ==
    /\ cancels[j] = "none"
    /\ jobs[j].status \in {"queued", "leased"}
    /\ cancels' = [cancels EXCEPT ![j] = jobs[j].status]
    /\ UNCHANGED <<clock, jobs, attempts, worker>>

\* Mutant: the UPDATE of a queued job does not check the status again.
CancelWriteUnchecked(j) ==
    /\ cancels[j] # "none"
    /\ jobs' = [jobs EXCEPT ![j].cancel = TRUE,
                            ![j].status = IF cancels[j] = "queued" THEN "cancelled" ELSE @,
                            ![j].owner = IF cancels[j] = "queued" THEN NoWorker ELSE @,
                            ![j].expires = IF cancels[j] = "queued" THEN Null ELSE @]
    /\ cancels' = [cancels EXCEPT ![j] = "none"]
    /\ UNCHANGED <<clock, attempts, worker>>

\* The UPDATE, guarded by the status that was read.
CancelWrite(j) ==
    /\ cancels[j] # "none"
    /\ jobs[j].status = cancels[j]
    /\ jobs' = [jobs EXCEPT ![j].cancel = TRUE,
                            ![j].status = IF cancels[j] = "queued" THEN "cancelled" ELSE @]
    /\ cancels' = [cancels EXCEPT ![j] = "none"]
    /\ UNCHANGED <<clock, attempts, worker>>

\* The call ends without writing: the row has moved on (Conflict), or the
\* database refused the UPDATE (Unavailable).
CancelFails(j) ==
    /\ cancels[j] # "none"
    /\ cancels' = [cancels EXCEPT ![j] = "none"]
    /\ UNCHANGED <<clock, jobs, attempts, worker>>

-----------------------------------------------------------------------------
(* Time passes as far as something can wait for it; later times enable nothing. *)
Tick ==
    /\ \/ clock < EnqueueUntil
       \/ \E j \in JobIds : \/ jobs[j].status = "leased" /\ jobs[j].expires > clock
                            \/ jobs[j].status = "queued" /\ jobs[j].available > clock
    /\ clock' = clock + 1
    /\ UNCHANGED <<jobs, attempts, worker, cancels>>

Init ==
    /\ clock = 0
    /\ jobs = [j \in JobIds |->
          [spec |-> CHOOSE n \in NewJobs : n.id = j, status |-> "absent",
           available |-> 0, attempt |-> 0, generation |-> 0,
           owner |-> NoWorker, expires |-> Null, cancel |-> FALSE, created |-> 0]]
    /\ attempts = [j \in JobIds |-> [k \in AttemptNumbers |-> NoAttempt]]
    /\ worker = [w \in Workers |-> Idle]
    /\ cancels = [j \in JobIds |-> "none"]

Next ==
    \/ \E n \in NewJobs : enqueue_job(n)
    \/ \E w \in Workers :
          \/ claim_job(w)
          \/ renew_job(w)
          \/ \E outcome \in HandlerOutcome : complete_job(w, outcome)
          \/ complete_answer(w)
          \/ Crash(w)
    \/ \E j \in JobIds : CancelRead(j) \/ CancelWrite(j) \/ CancelFails(j)
    \/ Tick

Spec == Init /\ [][Next]_vars

(***************************************************************************)
(* Fairness: time advances; handlers return; a worker whose handler        *)
(* returned gets its answer; operators "repeat run_once until idle", so    *)
(* some idle worker of each kind keeps claiming with a current clock       *)
(* reading.  Crashes, renewals and cancellations are never forced.         *)
(***************************************************************************)
Fairness ==
    /\ WF_vars(Tick)
    /\ \A w \in Workers :
          /\ WF_vars(claim_job(w))
          /\ WF_vars(\E outcome \in HandlerOutcome : complete_job(w, outcome))
          /\ WF_vars(complete_answer(w))

LiveSpec == Spec /\ Fairness

-----------------------------------------------------------------------------
(* Properties *)

\* The tables and the workers' memory hold values of the columns' types.
TypeOK ==
    /\ clock \in Nat
    /\ jobs \in [JobIds -> JobRecord]
    /\ attempts \in [JobIds -> [AttemptNumbers -> AttemptRow]]
    /\ worker \in [Workers -> JobLease]
    /\ cancels \in [JobIds -> {"none", "queued", "leased"}]

LastOutcome(j) ==
    IF jobs[j].attempt = 0 THEN "none" ELSE attempts[j][jobs[j].attempt].outcome

\* An attempt row is open only while the job is leased under that very attempt,
\* generation, owner and expiry: claim_job, renew_job, complete_job and
\* recover_expired keep the two tables in step, so no worker is ever running
\* under an attempt that the queue does not know to be running.
OpenAttemptIsTheLease ==
    \A j \in JobIds : \A k \in AttemptNumbers :
        attempts[j][k].outcome = "open" =>
            /\ jobs[j].status = "leased"
            /\ jobs[j].attempt = k
            /\ jobs[j].generation = attempts[j][k].generation
            /\ jobs[j].owner = attempts[j][k].worker
            /\ jobs[j].expires = attempts[j][k].expires

\* The attempt history explains the status of the job: only the last attempt
\* may have ended it, every earlier one was retried or abandoned, a success
\* has a worker that reported it, and exhaustion took every attempt allowed.
HistoryExplainsStatus ==
    \A j \in JobIds :
        /\ \A k \in AttemptNumbers :
              /\ k < jobs[j].attempt =>
                    attempts[j][k].outcome \in {"retryable", "abandoned"}
              /\ k > jobs[j].attempt => attempts[j][k].outcome = "none"
        /\ jobs[j].attempt <= jobs[j].spec.max_attempts
        /\ jobs[j].status = "queued" => LastOutcome(j) \in {"none", "retryable"}
        /\ jobs[j].status = "leased" => LastOutcome(j) \in {"open", "abandoned"}
        /\ (jobs[j].status = "succeeded") <=> (LastOutcome(j) = "succeeded")
        /\ (jobs[j].status = "permanent_failure") <=> (LastOutcome(j) = "permanent")
        /\ jobs[j].status = "exhausted" =>
              /\ jobs[j].attempt = jobs[j].spec.max_attempts
              /\ LastOutcome(j) \in {"retryable", "abandoned"}
              /\ ~jobs[j].cancel
        /\ jobs[j].status = "cancelled" =>
              jobs[j].cancel \/ LastOutcome(j) = "cancelled"

\* No two stored jobs share (kind, deduplication_key), whatever ids and
\* policies callers enqueue concurrently.
DeduplicationHolds ==
    \A i, j \in JobIds :
        /\ Present(i) /\ Present(j) /\ i # j
        => <<jobs[i].spec.kind, jobs[i].spec.key>> # <<jobs[j].spec.kind, jobs[j].spec.key>>

\* Two processes never both hold a lease the repository would still accept,
\* even when they run under the same worker_id.
OneFencedWorker ==
    \A v, w \in Workers :
        v # w /\ worker[v].job = worker[w].job => ~(Fenced(v) /\ Fenced(w))

\* A terminal job is never written again: no late completion, recovery,
\* cancellation or claim brings it back or changes how it ended.
TerminalIsFinal ==
    [][\A j \in JobIds : jobs[j].status \in Terminal => jobs'[j] = jobs[j]]_vars

\* A closed attempt is immutable: a late or repeated completion cannot
\* rewrite the outcome that recovery or an earlier completion stored.
ClosedAttemptIsFinal ==
    [][\A j \in JobIds : \A k \in AttemptNumbers :
          attempts[j][k].outcome \in Closed => attempts'[j][k] = attempts[j][k]]_vars

\* After a cancellation request the job is not leased again, and the only way
\* it ends is cancelled, whatever its worker reports and however it expires.
CancelledNeverRuns ==
    [][\A j \in JobIds : jobs[j].cancel =>
          /\ jobs'[j].generation = jobs[j].generation
          /\ jobs'[j].status \in {jobs[j].status, "cancelled"}]_vars

\* Every stored job ends: lost leases are reclaimed, retries run out, and a
\* requested cancellation takes effect even if the worker that held the job
\* never reports, as long as workers keep polling.
EveryJobEnds ==
    \A j \in JobIds : Present(j) ~> jobs[j].status \in Terminal

\* The lifecycle of a job as its callers see it, read off its row.
LifecycleOf(r) ==
    [phase |-> IF r.status = "leased" THEN "running" ELSE r.status,
     runs |-> r.attempt,
     limit |-> IF r.status = "absent" THEN 0 ELSE r.spec.max_attempts,
     cancel |-> r.cancel]

Lifecycle == INSTANCE JobLifecycle WITH
    Jobs <- JobIds, lifecycle <- [j \in JobIds |-> LifecycleOf(jobs[j])]

\* The queue implements the lifecycle: whatever the interleaving of claims,
\* recoveries, late completions and cancellations, each job goes through one
\* run after the other, within its limit, to one end.
ImplementsLifecycle == Lifecycle!Spec

\* docs/JOBS.md: "Re-enqueueing the exact same immutable input returns the
\* existing job".
ReenqueueReturnsExisting ==
    \A n \in NewJobs :
        Present(n.id) /\ jobs[n.id].spec = n => EnqueueResult(n) = "existing"

\* The two tables always agree, whatever workers, recoveries and cancellations
\* have interleaved: types, lease and open attempt, history and status, one
\* worker that may still complete, one job per deduplication key.
RowsAreConsistent ==
    TypeOK /\ OpenAttemptIsTheLease /\ HistoryExplainsStatus /\ OneFencedWorker /\ DeduplicationHolds

\* What is over is over: no late completion, renewal, recovery or
\* cancellation changes an ended job or a closed attempt, and a job that was
\* cancelled or asked to cancel is never leased again.
RowsAreFinal == TerminalIsFinal /\ ClosedAttemptIsFinal /\ CancelledNeverRuns
=============================================================================
