--------------------------- MODULE JobQueueProofs ---------------------------
(* Proofs about JobQueue, for every set of jobs, workers and bounds. *)
EXTENDS JobQueue, TLAPS

-----------------------------------------------------------------------------
(* Facts about the helpers *)

\* The backoff never exceeds retry_max_ms and is a time span.
LEMMA BackoffBound ==
    ASSUME NEW initial, NEW maximum \in Nat, NEW attempt
    PROVE  retry_backoff_ms(initial, maximum, attempt) \in Nat
<1> DEFINE b == initial * 2^(attempt - 1)
<1>1. CASE b \in 0..maximum
    <2>1. retry_backoff_ms(initial, maximum, attempt) = b
        BY <1>1, Zenon DEF retry_backoff_ms
    <2> HIDE DEF b
    <2> QED BY <1>1, <2>1
<1>2. CASE b \notin 0..maximum
    <2>1. retry_backoff_ms(initial, maximum, attempt) = maximum
        BY <1>2, Zenon DEF retry_backoff_ms
    <2> QED BY <2>1
<1> QED BY <1>1, <1>2

\* Every outcome gives the row a status other than "leased" and a time.
LEMMA TransitionType ==
    ASSUME NEW r \in JobRecord, NEW outcome \in HandlerOutcome, NEW now \in Nat
    PROVE  LET t == completion_transition(r, outcome, now) IN
           /\ t.available \in Nat
           /\ t.status \in JobStatus \ {"leased"}
           /\ outcome = "succeeded" => t.status = "succeeded"
           /\ outcome = "permanent" => t.status = "permanent_failure"
           /\ outcome = "cancelled" => t.status = "cancelled"
           /\ outcome = "retryable" =>
                 t.status = IF r.attempt >= r.spec.max_attempts
                            THEN "exhausted" ELSE "queued"
<1>0. /\ r.available \in Nat /\ r.spec \in NewJobs
      /\ r.attempt \in Int
    BY BoundsAssumption DEF JobRecord
<1>1. /\ r.spec.retry_max \in Nat /\ r.spec.max_attempts \in Int
    BY <1>0, NewJobsAssumption
<1> DEFINE b == retry_backoff_ms(r.spec.retry_initial, r.spec.retry_max, r.attempt)
<1>2. b \in Nat
    BY <1>1, BackoffBound
<1> HIDE DEF b
<1>3. completion_transition(r, outcome, now) =
        CASE outcome = "succeeded" ->
            [status |-> "succeeded", available |-> r.available]
      [] outcome = "permanent" ->
            [status |-> "permanent_failure", available |-> r.available]
      [] outcome = "cancelled" ->
            [status |-> "cancelled", available |-> r.available]
      [] outcome = "retryable" /\ r.attempt >= r.spec.max_attempts ->
            [status |-> "exhausted", available |-> r.available]
      [] outcome = "retryable" /\ r.attempt < r.spec.max_attempts ->
            [status |-> "queued", available |-> now + b]
    BY Zenon DEF completion_transition, b
<1> QED BY <1>0, <1>1, <1>2, <1>3 DEF HandlerOutcome, JobStatus, Terminal

-----------------------------------------------------------------------------
(* The inductive invariant *)

\* What relates a row of jobs to its rows of job_attempts, beyond the checked
\* invariants: generations count attempts, an unclaimed row has no history and
\* no row waits in the queue with a cancellation request.
RowInv(r, a) ==
    /\ r.generation = r.attempt
    /\ r.attempt <= r.spec.max_attempts
    /\ r.status = "absent" => r.attempt = 0
    /\ r.status \in {"absent", "queued"} => ~r.cancel
    /\ r.status = "leased" => r.attempt > 0 /\ r.expires \in Nat
    /\ \A k \in AttemptNumbers :
          /\ k < r.attempt => a[k].outcome \in {"retryable", "abandoned"}
          /\ k > r.attempt => a[k].outcome = "none"
          /\ k <= r.attempt => a[k].generation = k
          /\ k = r.attempt =>
                /\ a[k].outcome # "none"
                /\ r.status = "queued" => a[k].outcome = "retryable"
                /\ r.status = "leased" => a[k].outcome \in {"open", "abandoned"}
                /\ r.status = "succeeded" <=> a[k].outcome = "succeeded"
                /\ r.status = "permanent_failure" <=> a[k].outcome = "permanent"
                /\ r.status = "exhausted" => a[k].outcome \in {"retryable", "abandoned"}
                /\ r.status = "cancelled" => r.cancel \/ a[k].outcome = "cancelled"
          /\ a[k].outcome = "open" =>
                /\ r.status = "leased"
                /\ k = r.attempt
                /\ r.owner = a[k].worker
                /\ r.expires = a[k].expires
    /\ r.status \in {"succeeded", "permanent_failure", "exhausted"} => r.attempt > 0
    /\ r.status = "exhausted" => r.attempt = r.spec.max_attempts /\ ~r.cancel
    /\ r.status = "cancelled" /\ r.attempt = 0 => r.cancel

\* A worker's lease names an attempt that was made, and no other process holds
\* the same attempt, also when worker ids are shared.
LeaseInv(l) ==
    l.job # Null =>
        /\ l.attempt > 0
        /\ l.generation = l.attempt
        /\ l.attempt <= jobs[l.job].attempt

LeasesDistinct ==
    \A v, w \in Workers :
        v # w /\ worker[v].job # Null /\ worker[v].job = worker[w].job
        => worker[v].attempt # worker[w].attempt

IInv ==
    /\ TypeOK
    /\ \A j \in JobIds : RowInv(jobs[j], attempts[j])
    /\ \A w \in Workers : LeaseInv(worker[w])
    /\ LeasesDistinct

-----------------------------------------------------------------------------
(* One row through the operations *)

AttemptRows == [AttemptNumbers -> AttemptRow]

\* Recovery as it acts on one row and its attempts.
RecoveredAttempts(r, a, now) ==
    [k \in AttemptNumbers |-> RecoveredAttempt(r, a[k], k, now)]

\* What a stored row says of its own job is in range.
LEMMA SpecType ==
    ASSUME NEW r \in JobRecord
    PROVE  /\ r.spec \in NewJobs
           /\ r.spec.id \in JobIds
           /\ r.spec.max_attempts \in 1..JobMaxAttempts
           /\ r.spec.retry_max \in Nat
           /\ r.attempt \in 0..JobMaxAttempts
           /\ r.available \in Nat
BY NewJobsAssumption, BoundsAssumption DEF JobRecord, JobIds

\* Recovery keeps rows and attempts of their types.
LEMMA RecoveryType ==
    ASSUME NEW r \in JobRecord, NEW a \in AttemptRows, NEW now \in Nat
    PROVE  /\ RecoveredJob(r, now) \in JobRecord
           /\ RecoveredAttempts(r, a, now) \in AttemptRows
<1>1. RecoveredJob(r, now) \in JobRecord
    BY DEF RecoveredJob, JobRecord, JobStatus, Terminal, Owners
<1>2. ASSUME NEW k \in AttemptNumbers
      PROVE  RecoveredAttempt(r, a[k], k, now) \in AttemptRow
    <2>1. a[k] \in AttemptRow
        BY DEF AttemptRows
    <2> QED BY <2>1 DEF RecoveredAttempt, AttemptRow, JobStatus, Terminal, Closed
<1> QED BY <1>1, <1>2 DEF RecoveredAttempts, AttemptRows

\* Recovery keeps a row and its history in step.
LEMMA RecoveryKeepsRow ==
    ASSUME NEW r \in JobRecord, NEW a \in AttemptRows, NEW now \in Nat,
           RowInv(r, a)
    PROVE  RowInv(RecoveredJob(r, now), RecoveredAttempts(r, a, now))
<1> DEFINE s == RecoveredJob(r, now)
           b == RecoveredAttempts(r, a, now)
<1>0. /\ r.attempt \in Int /\ r.spec.max_attempts \in Int
      /\ AttemptNumbers \subseteq Int
      /\ r.status \in JobStatus \cup {"absent"}
    BY SpecType DEF AttemptNumbers, JobRecord
<1>1. /\ s.attempt = r.attempt /\ s.generation = r.generation
      /\ s.spec = r.spec /\ s.cancel = r.cancel
      /\ \/ /\ s = r
            /\ ~(r.status = "leased" /\ r.expires <= now
                  /\ (r.cancel \/ r.attempt >= r.spec.max_attempts))
         \/ /\ r.status = "leased" /\ r.expires <= now
            /\ r.cancel \/ r.attempt >= r.spec.max_attempts
            /\ s.status = IF r.cancel THEN "cancelled" ELSE "exhausted"
    BY DEF RecoveredJob, JobRecord
<1>2. \A k \in AttemptNumbers :
        /\ b[k].generation = a[k].generation
        /\ b[k].worker = a[k].worker
        /\ b[k].expires = a[k].expires
        /\ b[k].outcome = IF a[k].outcome = "open" /\ a[k].expires <= now
                          THEN "abandoned" ELSE a[k].outcome
    BY DEF RecoveredAttempts, RecoveredAttempt, AttemptRows, AttemptRow
<1> HIDE DEF s, b
<1>3. RowInv(s, b)
    BY <1>0, <1>1, <1>2 DEF RowInv, JobStatus, Terminal
<1> QED BY <1>3 DEF s, b

\* A claim of a recovered row opens the next attempt and nothing else.
LEMMA ClaimKeepsRow ==
    ASSUME NEW r \in JobRecord, NEW a \in AttemptRows, NEW now \in Nat,
           NEW w \in Workers, NEW kind,
           RowInv(r, a),
           Claimable(RecoveredJob(r, now), now, kind)
    PROVE  LET s == Claimed(RecoveredJob(r, now), w, now)
               b == [RecoveredAttempts(r, a, now) EXCEPT ![s.attempt] =
                        [generation |-> s.generation, worker |-> WorkerId[w],
                         expires |-> s.expires, outcome |-> "open",
                         final |-> "none"]]
           IN  /\ s \in JobRecord /\ b \in AttemptRows
               /\ s.attempt = r.attempt + 1 /\ s.attempt \in AttemptNumbers
               /\ RowInv(s, b)
<1> DEFINE q == RecoveredJob(r, now)
           c == RecoveredAttempts(r, a, now)
           s == Claimed(q, w, now)
           new == [generation |-> s.generation, worker |-> WorkerId[w],
                   expires |-> s.expires, outcome |-> "open", final |-> "none"]
           b == [c EXCEPT ![s.attempt] = new]
<1>0. /\ r.attempt \in Int /\ r.spec.max_attempts \in 1..JobMaxAttempts
      /\ JobMaxAttempts \in Nat
      /\ LeaseDuration \in Nat \ {0}
      /\ r.attempt >= 0
      /\ WorkerId[w] \in Owners
    BY SpecType, BoundsAssumption DEF Owners
<1>1. q = r
    BY DEF Claimable, RecoveredJob
<1>2. q \in JobRecord /\ c \in AttemptRows
    BY RecoveryType
<1>3. RowInv(r, c)
    BY RecoveryKeepsRow, <1>1
<1>4. /\ r.attempt < r.spec.max_attempts /\ ~r.cancel
      /\ r.status \in {"queued", "leased"}
      /\ r.status = "leased" => r.expires <= now
    BY <1>1 DEF Claimable
<1>5. \A k \in AttemptNumbers :
        c[k].outcome = "open" => a[k].outcome = "open" /\ ~(a[k].expires <= now)
    BY DEF RecoveredAttempts, RecoveredAttempt, AttemptRows, AttemptRow
<1>6. \A k \in AttemptNumbers : c[k].outcome # "open"
    BY <1>4, <1>5 DEF RowInv
<1> HIDE DEF q, c
<1>7. /\ s = [r EXCEPT !.status = "leased", !.attempt = r.attempt + 1,
                       !.generation = r.generation + 1, !.owner = WorkerId[w],
                       !.expires = now + LeaseDuration]
    BY <1>1 DEF Claimed
<1> HIDE DEF s
<1>8. /\ s \in JobRecord
      /\ s.status = "leased" /\ s.attempt = r.attempt + 1
      /\ s.generation = r.generation + 1 /\ s.owner = WorkerId[w]
      /\ s.expires = now + LeaseDuration /\ s.cancel = r.cancel /\ s.spec = r.spec
    <2>1. /\ r.attempt + 1 \in 0..JobMaxAttempts
          /\ now + LeaseDuration \in Nat
        BY <1>0, <1>4
    <2>2. r.generation \in Nat /\ r.generation + 1 \in Nat
        BY DEF JobRecord
    <2> QED BY <1>0, <1>7, <2>1, <2>2 DEF JobRecord, JobStatus
<1>9. s.attempt \in AttemptNumbers
    BY <1>0, <1>4, <1>8 DEF AttemptNumbers
<1>10. new \in AttemptRow
    BY <1>0, <1>8 DEF AttemptRow, JobRecord
<1>11. b \in AttemptRows
    BY <1>2, <1>9, <1>10 DEF AttemptRows
<1>12. \A k \in AttemptNumbers : b[k] = IF k = s.attempt THEN new ELSE c[k]
    BY <1>2, <1>9 DEF AttemptRows
<1>13. /\ new.generation = s.generation /\ new.worker = WorkerId[w]
       /\ new.expires = s.expires /\ new.outcome = "open"
    OBVIOUS
<1> HIDE DEF b, new
<1>14. RowInv(s, b)
    BY <1>0, <1>3, <1>4, <1>6, <1>8, <1>9, <1>12, <1>13 DEF RowInv, AttemptNumbers
<1>15. /\ s = Claimed(RecoveredJob(r, now), w, now)
       /\ b = [RecoveredAttempts(r, a, now) EXCEPT ![s.attempt] =
                        [generation |-> s.generation, worker |-> WorkerId[w],
                         expires |-> s.expires, outcome |-> "open",
                         final |-> "none"]]
    BY DEF s, b, q, c, new
<1> QED BY <1>8, <1>9, <1>11, <1>14, <1>15

\* A renewal moves both expiries.
LEMMA RenewalKeepsRow ==
    ASSUME NEW r \in JobRecord, NEW a \in AttemptRows, NEW t \in Nat,
           RowInv(r, a), r.status = "leased"
    PROVE  LET s == [r EXCEPT !.expires = t]
               b == [a EXCEPT ![r.attempt].expires = t]
           IN  /\ s \in JobRecord /\ b \in AttemptRows
               /\ RowInv(s, b)
<1> DEFINE s == [r EXCEPT !.expires = t]
           b == [a EXCEPT ![r.attempt].expires = t]
<1>0. r.attempt \in AttemptNumbers
    BY SpecType, BoundsAssumption DEF RowInv, AttemptNumbers
<1>1. a[r.attempt] \in AttemptRow
    BY <1>0 DEF AttemptRows
<1>2. s \in JobRecord
    BY DEF JobRecord
<1>3. [a[r.attempt] EXCEPT !.expires = t] \in AttemptRow
    BY <1>1 DEF AttemptRow
<1>4. b \in AttemptRows
    BY <1>0, <1>3 DEF AttemptRows
<1>5. \A k \in AttemptNumbers :
        /\ b[k].generation = a[k].generation
        /\ b[k].worker = a[k].worker
        /\ b[k].outcome = a[k].outcome
        /\ b[k].expires = IF k = r.attempt THEN t ELSE a[k].expires
    BY <1>0 DEF AttemptRows, AttemptRow
<1>6. /\ s.status = r.status /\ s.attempt = r.attempt
      /\ s.generation = r.generation /\ s.owner = r.owner
      /\ s.expires = t /\ s.cancel = r.cancel /\ s.spec = r.spec
    BY DEF JobRecord
<1> HIDE DEF s, b
<1>7. RowInv(s, b)
    BY <1>5, <1>6 DEF RowInv
<1> QED BY <1>2, <1>4, <1>7 DEF s, b

\* A completion that passed validate_active_completion closes the attempt.
LEMMA CompletionKeepsRow ==
    ASSUME NEW r \in JobRecord, NEW a \in AttemptRows, NEW now \in Nat,
           NEW outcome \in HandlerOutcome,
           RowInv(r, a), r.status = "leased",
           a[r.attempt].outcome \notin Closed,
           r.cancel => outcome = "cancelled"
    PROVE  LET t == completion_transition(r, outcome, now)
               s == [r EXCEPT !.status = t.status, !.available = t.available,
                              !.owner = NoWorker, !.expires = Null]
               b == [a EXCEPT ![r.attempt].outcome = outcome,
                              ![r.attempt].final = t.status]
           IN  /\ s \in JobRecord /\ b \in AttemptRows
               /\ RowInv(s, b)
<1> DEFINE t == completion_transition(r, outcome, now)
           s == [r EXCEPT !.status = t.status, !.available = t.available,
                          !.owner = NoWorker, !.expires = Null]
           b == [a EXCEPT ![r.attempt].outcome = outcome,
                          ![r.attempt].final = t.status]
<1>0. r.attempt \in AttemptNumbers /\ r.spec.max_attempts \in Int /\ r.attempt \in Int
    BY SpecType, BoundsAssumption DEF RowInv, AttemptNumbers
<1>1. /\ t.available \in Nat
      /\ t.status \in JobStatus \ {"leased"}
      /\ outcome = "succeeded" => t.status = "succeeded"
      /\ outcome = "permanent" => t.status = "permanent_failure"
      /\ outcome = "cancelled" => t.status = "cancelled"
      /\ outcome = "retryable" =>
            t.status = IF r.attempt >= r.spec.max_attempts
                       THEN "exhausted" ELSE "queued"
    BY TransitionType
<1> HIDE DEF t
<1>2. a[r.attempt] \in AttemptRow
    BY <1>0 DEF AttemptRows
<1>3. s \in JobRecord
    BY <1>1 DEF JobRecord, Owners
<1>4. b \in AttemptRows
    BY <1>0, <1>1, <1>2 DEF AttemptRows, AttemptRow, Closed
<1>5. \A k \in AttemptNumbers :
        /\ b[k].generation = a[k].generation
        /\ b[k].worker = a[k].worker
        /\ b[k].outcome = IF k = r.attempt THEN outcome ELSE a[k].outcome
        /\ b[k].expires = a[k].expires
    BY <1>0 DEF AttemptRows, AttemptRow
<1>6. /\ s.status = t.status /\ s.attempt = r.attempt
      /\ s.generation = r.generation
      /\ s.cancel = r.cancel /\ s.spec = r.spec
    BY DEF JobRecord
<1> HIDE DEF s, b
<1>7. RowInv(s, b)
    BY <1>0, <1>1, <1>5, <1>6 DEF RowInv, HandlerOutcome, JobStatus, Terminal
<1> QED BY <1>3, <1>4, <1>7 DEF s, b, t

\* A cancellation ends a queued job and marks a leased one.
LEMMA CancellationKeepsRow ==
    ASSUME NEW r \in JobRecord, NEW a \in AttemptRows,
           RowInv(r, a), r.status \in {"queued", "leased"}
    PROVE  LET s == [r EXCEPT !.cancel = TRUE,
                              !.status = IF r.status = "queued" THEN "cancelled" ELSE @]
           IN  s \in JobRecord /\ RowInv(s, a)
<1> DEFINE s == [r EXCEPT !.cancel = TRUE,
                          !.status = IF r.status = "queued" THEN "cancelled" ELSE @]
<1>1. s \in JobRecord
    BY DEF JobRecord, JobStatus, Terminal
<1>2. /\ s.attempt = r.attempt /\ s.generation = r.generation
      /\ s.owner = r.owner /\ s.expires = r.expires /\ s.spec = r.spec
      /\ s.cancel = TRUE
      /\ s.status = IF r.status = "queued" THEN "cancelled" ELSE r.status
    BY DEF JobRecord
<1> HIDE DEF s
<1>3. RowInv(s, a)
    BY <1>2 DEF RowInv
<1> QED BY <1>1, <1>3 DEF s

-----------------------------------------------------------------------------
(* The invariant is inductive *)

\* The times a caller may have read are times.
LEMMA SampledType ==
    ASSUME clock \in Nat
    PROVE  Sampled \subseteq Nat
BY DEF Sampled

\* Job identifiers are numbers, and none is Null.
LEMMA IdType ==
    /\ JobIds \subseteq Nat
    /\ Null \notin JobIds
    /\ \A n \in NewJobs : n.id \in JobIds
BY NewJobsAssumption DEF JobIds, Null

\* The empty tables satisfy the invariant.
LEMMA InitIInv == Init => IInv
<1> SUFFICES ASSUME Init PROVE IInv
    OBVIOUS
<1>1. \A j \in JobIds : /\ jobs[j] \in JobRecord
                        /\ jobs[j].status = "absent" /\ jobs[j].attempt = 0
                        /\ jobs[j].generation = 0 /\ ~jobs[j].cancel
    <2> SUFFICES ASSUME NEW j \in JobIds
                 PROVE  /\ jobs[j] \in JobRecord
                        /\ jobs[j].status = "absent" /\ jobs[j].attempt = 0
                        /\ jobs[j].generation = 0 /\ ~jobs[j].cancel
        OBVIOUS
    <2> DEFINE n == CHOOSE n \in NewJobs : n.id = j
    <2>1. n \in NewJobs
        BY DEF JobIds
    <2> HIDE DEF n
    <2>2. jobs[j] = [spec |-> n, status |-> "absent",
           available |-> 0, attempt |-> 0, generation |-> 0,
           owner |-> NoWorker, expires |-> Null, cancel |-> FALSE, created |-> 0]
        BY DEF Init, n
    <2> QED BY <2>1, <2>2, BoundsAssumption DEF JobRecord, Owners
<1>2. \A j \in JobIds : /\ attempts[j] \in AttemptRows
                        /\ \A k \in AttemptNumbers : attempts[j][k].outcome = "none"
    <2>1. NoAttempt \in AttemptRow
        BY DEF NoAttempt, AttemptRow, Owners
    <2> QED BY <2>1 DEF Init, AttemptRows, NoAttempt
<1>3. \A w \in Workers : worker[w] \in JobLease /\ worker[w].job = Null
    BY BoundsAssumption DEF Init, Idle, JobLease
<1>4. TypeOK
    <2>1. clock \in Nat
        BY DEF Init
    <2>2. jobs \in [JobIds -> JobRecord]
        BY <1>1 DEF Init
    <2>3. attempts \in [JobIds -> [AttemptNumbers -> AttemptRow]]
        BY <1>2 DEF Init, AttemptRows
    <2>4. worker \in [Workers -> JobLease]
        BY <1>3 DEF Init
    <2>5. cancels \in [JobIds -> {"none", "queued", "leased"}]
        BY DEF Init
    <2> QED BY <2>1, <2>2, <2>3, <2>4, <2>5 DEF TypeOK
<1>5. \A j \in JobIds : RowInv(jobs[j], attempts[j])
    <2> SUFFICES ASSUME NEW j \in JobIds PROVE RowInv(jobs[j], attempts[j])
        OBVIOUS
    <2>1. jobs[j].spec.max_attempts \in 1..JobMaxAttempts
        BY <1>1, SpecType
    <2> QED BY <1>1, <1>2, <2>1, BoundsAssumption DEF RowInv, AttemptNumbers
<1> QED BY <1>3, <1>4, <1>5 DEF IInv, LeaseInv, LeasesDistinct

\* enqueue_job writes a row without history.
LEMMA EnqueueStep ==
    ASSUME IInv, NEW n \in NewJobs, enqueue_job(n)
    PROVE  IInv'
<1>1. PICK now \in Sampled :
        /\ EnqueueResult(n) = "inserted"
        /\ jobs' = [jobs EXCEPT ![n.id] =
              [spec |-> n, status |-> "queued", available |-> n.available,
               attempt |-> 0, generation |-> 0, owner |-> NoWorker,
               expires |-> Null, cancel |-> FALSE, created |-> now]]
        /\ UNCHANGED <<clock, attempts, worker, cancels>>
    BY DEF enqueue_job
<1> DEFINE r == [spec |-> n, status |-> "queued", available |-> n.available,
               attempt |-> 0, generation |-> 0, owner |-> NoWorker,
               expires |-> Null, cancel |-> FALSE, created |-> now]
<1>2. now \in Nat /\ n.id \in JobIds /\ n.available \in Nat
    BY SampledType, IdType, NewJobsAssumption DEF IInv, TypeOK
<1>3. r \in JobRecord
    BY <1>2, BoundsAssumption DEF JobRecord, JobStatus, Owners
<1>4. jobs[n.id].status = "absent"
    BY <1>1 DEF EnqueueResult, Present
<1>5. jobs[n.id].attempt = 0
    BY <1>2, <1>4 DEF IInv, RowInv
<1>6. RowInv(r, attempts[n.id])
    <2>1. n.max_attempts \in 1..JobMaxAttempts
        BY NewJobsAssumption
    <2>2. \A k \in AttemptNumbers : attempts[n.id][k].outcome = "none"
        BY <1>2, <1>5 DEF IInv, RowInv, AttemptNumbers
    <2> QED BY <2>1, <2>2, BoundsAssumption DEF RowInv, AttemptNumbers
<1>7. jobs' \in [JobIds -> JobRecord]
    BY <1>1, <1>2, <1>3 DEF IInv, TypeOK
<1>8. TypeOK'
    BY <1>1, <1>7 DEF IInv, TypeOK
<1>9. \A j \in JobIds : jobs'[j] = IF j = n.id THEN r ELSE jobs[j]
    BY <1>1, <1>2 DEF IInv, TypeOK
<1>10. \A j \in JobIds : RowInv(jobs'[j], attempts'[j])
    BY <1>1, <1>6, <1>9 DEF IInv
<1>11. \A w \in Workers : LeaseInv(worker[w])'
    <2> SUFFICES ASSUME NEW w \in Workers PROVE LeaseInv(worker[w])'
        OBVIOUS
    <2>1. worker[w].job # Null => worker[w].job \in JobIds
        BY DEF IInv, TypeOK, JobLease
    <2>2. \A j \in JobIds : jobs'[j].attempt = jobs[j].attempt
        BY <1>5, <1>9
    <2> QED BY <1>1, <2>1, <2>2 DEF IInv, LeaseInv
<1>12. LeasesDistinct'
    BY <1>1 DEF IInv, LeasesDistinct
<1> QED BY <1>8, <1>10, <1>11, <1>12 DEF IInv

\* claim_job recovers every row and claims at most one of them.
LEMMA ClaimStep ==
    ASSUME IInv, NEW w \in Workers, claim_job(w)
    PROVE  IInv'
<1>1. PICK now \in Sampled :
        LET recovered == [j \in JobIds |-> RecoveredJob(jobs[j], now)]
            abandoned == [j \in JobIds |->
                            [k \in AttemptNumbers |->
                                RecoveredAttempt(jobs[j], attempts[j][k], k, now)]]
            ready == {j \in JobIds : Claimable(recovered[j], now, Kind[w])}
        IN
        /\ worker[w] = Idle
        /\ \/ /\ ready = {}
              /\ jobs' = recovered
              /\ attempts' = abandoned
              /\ UNCHANGED worker
           \/ \E j \in ready :
                LET r == Claimed(recovered[j], w, now) IN
                /\ jobs' = [recovered EXCEPT ![j] = r]
                /\ attempts' = [abandoned EXCEPT ![j][r.attempt] =
                      [generation |-> r.generation, worker |-> WorkerId[w],
                       expires |-> r.expires, outcome |-> "open",
                       final |-> "none"]]
                /\ worker' = [worker EXCEPT ![w] =
                      [job |-> j, attempt |-> r.attempt,
                       generation |-> r.generation, leased_at |-> now]]
        /\ UNCHANGED <<clock, cancels>>
    BY ZenonT(40) DEF claim_job
<1> DEFINE recovered == [j \in JobIds |-> RecoveredJob(jobs[j], now)]
           abandoned == [j \in JobIds |-> RecoveredAttempts(jobs[j], attempts[j], now)]
<1>2. now \in Nat
    BY SampledType DEF IInv, TypeOK
<1>3. \A j \in JobIds : jobs[j] \in JobRecord /\ attempts[j] \in AttemptRows
    BY DEF IInv, TypeOK, AttemptRows
<1>4. \A j \in JobIds :
        /\ recovered[j] \in JobRecord
        /\ abandoned[j] \in AttemptRows
        /\ RowInv(recovered[j], abandoned[j])
        /\ recovered[j].attempt = jobs[j].attempt
    <2> SUFFICES ASSUME NEW j \in JobIds
                 PROVE  /\ recovered[j] \in JobRecord
                        /\ abandoned[j] \in AttemptRows
                        /\ RowInv(recovered[j], abandoned[j])
                        /\ recovered[j].attempt = jobs[j].attempt
        OBVIOUS
    <2>1. RowInv(jobs[j], attempts[j])
        BY DEF IInv
    <2>2. RecoveredJob(jobs[j], now).attempt = jobs[j].attempt
        BY <1>3 DEF RecoveredJob, JobRecord
    <2> QED BY <1>2, <1>3, <2>1, <2>2, RecoveryType, RecoveryKeepsRow
<1>5. \A v \in Workers : worker[v] \in JobLease /\ LeaseInv(worker[v])
    BY DEF IInv, TypeOK
<1>6. CASE /\ jobs' = recovered
           /\ attempts' = abandoned
           /\ UNCHANGED worker
    <2>1. jobs' \in [JobIds -> JobRecord]
        BY <1>4, <1>6
    <2>2. attempts' \in [JobIds -> [AttemptNumbers -> AttemptRow]]
        BY <1>4, <1>6 DEF AttemptRows
    <2>3. TypeOK'
        BY <1>1, <1>6, <2>1, <2>2 DEF IInv, TypeOK
    <2>4. \A j \in JobIds : RowInv(jobs'[j], attempts'[j])
        BY <1>4, <1>6
    <2>5. \A v \in Workers : LeaseInv(worker[v])'
        BY <1>4, <1>5, <1>6 DEF LeaseInv, JobLease
    <2>6. LeasesDistinct'
        BY <1>6 DEF IInv, LeasesDistinct
    <2> QED BY <2>3, <2>4, <2>5, <2>6 DEF IInv
<1>7. ASSUME NEW j \in JobIds, Claimable(recovered[j], now, Kind[w]),
             LET r == Claimed(recovered[j], w, now) IN
                /\ jobs' = [recovered EXCEPT ![j] = r]
                /\ attempts' = [abandoned EXCEPT ![j][r.attempt] =
                      [generation |-> r.generation, worker |-> WorkerId[w],
                       expires |-> r.expires, outcome |-> "open",
                       final |-> "none"]]
                /\ worker' = [worker EXCEPT ![w] =
                      [job |-> j, attempt |-> r.attempt,
                       generation |-> r.generation, leased_at |-> now]]
      PROVE  IInv'
    <2> DEFINE r == Claimed(recovered[j], w, now)
               b == [abandoned[j] EXCEPT ![r.attempt] =
                      [generation |-> r.generation, worker |-> WorkerId[w],
                       expires |-> r.expires, outcome |-> "open",
                       final |-> "none"]]
               l == [job |-> j, attempt |-> r.attempt,
                     generation |-> r.generation, leased_at |-> now]
    <2>1. /\ r \in JobRecord /\ b \in AttemptRows
          /\ r.attempt = jobs[j].attempt + 1
          /\ r.attempt \in AttemptNumbers
          /\ RowInv(r, b)
        <3>1. RowInv(jobs[j], attempts[j])
            BY DEF IInv
        <3>2. Claimable(RecoveredJob(jobs[j], now), now, Kind[w])
            BY <1>7
        <3> QED BY <1>2, <1>3, <3>1, <3>2, ClaimKeepsRow
    <2>2. /\ jobs' = [recovered EXCEPT ![j] = r]
          /\ attempts' = [abandoned EXCEPT ![j] = b]
          /\ worker' = [worker EXCEPT ![w] = l]
        BY <1>7
    <2> HIDE DEF recovered, abandoned, r, b
    <2>3. \A i \in JobIds : /\ jobs'[i] = IF i = j THEN r ELSE recovered[i]
                            /\ attempts'[i] = IF i = j THEN b ELSE abandoned[i]
        BY <2>2 DEF recovered, abandoned
    <2>4. l \in JobLease
        BY <1>2, <2>1 DEF JobLease, JobRecord, AttemptNumbers
    <2>5. \A v \in Workers : worker'[v] = IF v = w THEN l ELSE worker[v]
        BY <2>2 DEF IInv, TypeOK
    <2>6. jobs' \in [JobIds -> JobRecord]
        BY <1>4, <2>1, <2>2 DEF recovered
    <2>7. attempts' \in [JobIds -> AttemptRows]
        BY <1>4, <2>1, <2>2 DEF abandoned
    <2>8. worker' \in [Workers -> JobLease]
        BY <2>2, <2>4 DEF IInv, TypeOK
    <2>9. TypeOK'
        BY <1>1, <2>6, <2>7, <2>8 DEF IInv, TypeOK, AttemptRows
    <2>10. \A i \in JobIds : RowInv(jobs'[i], attempts'[i])
        BY <1>4, <2>1, <2>3
    <2>11. r.generation = r.attempt /\ r.attempt > 0
        BY <2>1 DEF RowInv, AttemptNumbers
    <2>12. \A i \in JobIds :
            /\ jobs[i].attempt \in Int
            /\ jobs'[i].attempt = IF i = j THEN jobs[i].attempt + 1 ELSE jobs[i].attempt
        BY <1>3, <1>4, <2>1, <2>3, SpecType
    <2>13. \A v \in Workers : worker[v].attempt \in Int
        BY <1>5 DEF JobLease
    <2>14. ASSUME NEW v \in Workers PROVE LeaseInv(worker[v])'
        <3>1. CASE v = w
            BY <2>3, <2>5, <2>11, <2>12, <3>1 DEF LeaseInv
        <3>2. CASE v # w
            BY <1>5, <2>5, <2>12, <2>13, <3>2 DEF LeaseInv, JobLease
        <3> QED BY <3>1, <3>2
    <2>15. ASSUME NEW u \in Workers, NEW v \in Workers, u # v,
                  worker'[u].job # Null, worker'[u].job = worker'[v].job
           PROVE  worker'[u].attempt # worker'[v].attempt
        <3>1. CASE u # w /\ v # w
            BY <2>5, <2>15, <3>1 DEF IInv, LeasesDistinct
        <3>2. CASE u = w
            BY <1>5, <2>1, <2>5, <2>12, <2>13, <2>15, <3>2 DEF LeaseInv
        <3>3. CASE v = w
            BY <1>5, <2>1, <2>5, <2>12, <2>13, <2>15, <3>3 DEF LeaseInv
        <3> QED BY <3>1, <3>2, <3>3
    <2> QED BY <2>9, <2>10, <2>14, <2>15 DEF IInv, LeasesDistinct
<1>8. abandoned = [j \in JobIds |->
                     [k \in AttemptNumbers |->
                         RecoveredAttempt(jobs[j], attempts[j][k], k, now)]]
    BY DEF RecoveredAttempts
<1> QED BY <1>1, <1>6, <1>7, <1>8

\* A step that rewrites one row, and its history, within RowInv, without
\* touching the attempt counter or the workers.
LEMMA RowStep ==
    ASSUME IInv, NEW j \in JobIds, NEW r \in JobRecord, NEW a \in AttemptRows,
           RowInv(r, a), r.attempt = jobs[j].attempt,
           jobs' = [jobs EXCEPT ![j] = r],
           attempts' = [attempts EXCEPT ![j] = a],
           UNCHANGED <<clock, worker>>,
           cancels' \in [JobIds -> {"none", "queued", "leased"}]
    PROVE  IInv'
<1>1. \A i \in JobIds : /\ jobs'[i] = IF i = j THEN r ELSE jobs[i]
                        /\ attempts'[i] = IF i = j THEN a ELSE attempts[i]
    BY DEF IInv, TypeOK
<1>2. TypeOK'
    <2>1. jobs' \in [JobIds -> JobRecord]
        BY DEF IInv, TypeOK
    <2>2. attempts' \in [JobIds -> [AttemptNumbers -> AttemptRow]]
        BY DEF IInv, TypeOK, AttemptRows
    <2> QED BY <2>1, <2>2 DEF IInv, TypeOK
<1>3. \A i \in JobIds : RowInv(jobs'[i], attempts'[i])
    BY <1>1 DEF IInv
<1>4. \A w \in Workers : LeaseInv(worker[w])'
    <2>1. \A i \in JobIds : jobs'[i].attempt = jobs[i].attempt
        BY <1>1
    <2>2. \A w \in Workers : worker[w].job # Null => worker[w].job \in JobIds
        BY DEF IInv, TypeOK, JobLease
    <2> QED BY <2>1, <2>2 DEF IInv, LeaseInv
<1>5. LeasesDistinct'
    BY DEF IInv, LeasesDistinct
<1> QED BY <1>2, <1>3, <1>4, <1>5 DEF IInv

\* What a worker that passes the fence knows of its job.
LEMMA FencedFacts ==
    ASSUME IInv, NEW w \in Workers, Fenced(w)
    PROVE  LET l == worker[w] IN
           /\ l.job \in JobIds
           /\ jobs[l.job] \in JobRecord
           /\ attempts[l.job] \in AttemptRows
           /\ RowInv(jobs[l.job], attempts[l.job])
           /\ jobs[l.job].status = "leased"
           /\ jobs[l.job].attempt = l.attempt
           /\ l.attempt \in AttemptNumbers
           /\ attempts[l.job][l.attempt].generation = l.generation
<1> DEFINE l == worker[w]
<1>1. l.job \in JobIds
    BY DEF Fenced, IInv, TypeOK, JobLease
<1>2. /\ jobs[l.job] \in JobRecord /\ attempts[l.job] \in AttemptRows
      /\ RowInv(jobs[l.job], attempts[l.job])
    BY <1>1 DEF IInv, TypeOK, AttemptRows
<1>3. jobs[l.job].status = "leased" /\ jobs[l.job].attempt = l.attempt
      /\ jobs[l.job].generation = l.generation
    BY DEF Fenced
<1>4. l.attempt \in AttemptNumbers
    <2>1. jobs[l.job].attempt \in 0..JobMaxAttempts
        BY <1>2, SpecType
    <2>2. jobs[l.job].attempt > 0
        BY <1>2, <1>3 DEF RowInv
    <2> QED BY <1>3, <2>1, <2>2, BoundsAssumption DEF AttemptNumbers
<1>5. attempts[l.job][l.attempt].generation = l.generation
    <2>1. l.attempt <= jobs[l.job].attempt
        BY <1>3, <1>4, BoundsAssumption DEF AttemptNumbers
    <2>2. attempts[l.job][l.attempt].generation = l.attempt
        <3>1. \A k \in AttemptNumbers : k <= jobs[l.job].attempt => attempts[l.job][k].generation = k
            BY <1>2, Zenon DEF RowInv
        <3> QED BY <1>4, <2>1, <3>1, Zenon
    <2>3. jobs[l.job].generation = jobs[l.job].attempt
        BY <1>2, Zenon DEF RowInv
    <2> QED BY <1>3, <2>2, <2>3
<1> QED BY <1>1, <1>2, <1>3, <1>4, <1>5

\* renew_job moves the expiry of a fenced lease and nothing else.
LEMMA RenewStep ==
    ASSUME IInv, NEW w \in Workers, renew_job(w)
    PROVE  IInv'
<1> DEFINE l == worker[w]
<1>1. PICK now \in Sampled :
        /\ Fenced(w)
        /\ jobs' = [jobs EXCEPT ![l.job].expires = now + LeaseDuration]
        /\ attempts' = [attempts EXCEPT
              ![l.job][l.attempt].expires = now + LeaseDuration]
        /\ UNCHANGED <<clock, worker, cancels>>
    BY DEF renew_job
<1>2. now + LeaseDuration \in Nat
    BY SampledType, BoundsAssumption DEF IInv, TypeOK
<1> DEFINE t == now + LeaseDuration
           r == [jobs[l.job] EXCEPT !.expires = t]
           a == [attempts[l.job] EXCEPT ![l.attempt].expires = t]
<1> HIDE DEF l
<1>3. /\ l.job \in JobIds /\ jobs[l.job] \in JobRecord
      /\ attempts[l.job] \in AttemptRows
      /\ RowInv(jobs[l.job], attempts[l.job])
      /\ jobs[l.job].status = "leased" /\ jobs[l.job].attempt = l.attempt
    BY <1>1, FencedFacts DEF l
<1>4. r \in JobRecord /\ a \in AttemptRows /\ RowInv(r, a)
    BY <1>2, <1>3, RenewalKeepsRow
<1>5. r.attempt = jobs[l.job].attempt
    BY <1>3 DEF JobRecord
<1>6. jobs' = [jobs EXCEPT ![l.job] = r] /\ attempts' = [attempts EXCEPT ![l.job] = a]
    BY <1>1
<1>7. cancels' \in [JobIds -> {"none", "queued", "leased"}]
    BY <1>1 DEF IInv, TypeOK
<1> HIDE DEF r, a
<1> QED BY <1>1, <1>3, <1>4, <1>5, <1>6, <1>7, RowStep

\* complete_job closes the attempt of a fenced lease with its row.
LEMMA CompleteStep ==
    ASSUME IInv, NEW w \in Workers, NEW outcome \in HandlerOutcome,
           complete_job(w, outcome)
    PROVE  IInv'
<1> DEFINE l == worker[w]
<1>1. PICK now \in Sampled :
        LET t == completion_transition(jobs[l.job], outcome, now) IN
        /\ ~existing_completion(w)
        /\ validate_active_completion(w, outcome, now)
        /\ jobs' = [jobs EXCEPT ![l.job].status = t.status,
                                ![l.job].available = t.available,
                                ![l.job].owner = NoWorker,
                                ![l.job].expires = Null]
        /\ attempts' = [attempts EXCEPT ![l.job][l.attempt].outcome = outcome,
                                        ![l.job][l.attempt].final = t.status]
        /\ UNCHANGED <<clock, worker, cancels>>
    BY DEF complete_job
<1>2. now \in Nat
    BY SampledType DEF IInv, TypeOK
<1>3. Fenced(w) /\ (jobs[l.job].cancel => outcome = "cancelled")
    BY <1>1 DEF validate_active_completion
<1>4. /\ l.job \in JobIds /\ jobs[l.job] \in JobRecord
      /\ attempts[l.job] \in AttemptRows
      /\ RowInv(jobs[l.job], attempts[l.job])
      /\ jobs[l.job].status = "leased" /\ jobs[l.job].attempt = l.attempt
      /\ l.attempt \in AttemptNumbers
      /\ attempts[l.job][l.attempt].generation = l.generation
    BY <1>3, FencedFacts
<1>5. attempts[l.job][jobs[l.job].attempt].outcome \notin Closed
    BY <1>1, <1>4 DEF existing_completion
<1> DEFINE t == completion_transition(jobs[l.job], outcome, now)
           r == [jobs[l.job] EXCEPT !.status = t.status, !.available = t.available,
                                    !.owner = NoWorker, !.expires = Null]
           a == [attempts[l.job] EXCEPT ![l.attempt].outcome = outcome,
                                        ![l.attempt].final = t.status]
<1> HIDE DEF l
<1>6. r \in JobRecord /\ a \in AttemptRows /\ RowInv(r, a)
    BY <1>2, <1>3, <1>4, <1>5, CompletionKeepsRow
<1> HIDE DEF t
<1>7. r.attempt = jobs[l.job].attempt
    BY <1>4 DEF JobRecord
<1>8. jobs' = [jobs EXCEPT ![l.job] = r]
    BY <1>1, <1>4 DEF IInv, TypeOK, t
<1>9. attempts' = [attempts EXCEPT ![l.job] = a]
    BY <1>1, <1>4 DEF IInv, TypeOK, AttemptRows, t
<1>10. cancels' \in [JobIds -> {"none", "queued", "leased"}]
    BY <1>1 DEF IInv, TypeOK
<1> HIDE DEF r, a
<1> QED BY <1>1, <1>4, <1>6, <1>7, <1>8, <1>9, <1>10, RowStep

\* The end of run_once, by an answer or by a crash.
LEMMA ForgetStep ==
    ASSUME IInv, NEW w \in Workers,
           worker' = [worker EXCEPT ![w] = Idle],
           UNCHANGED <<clock, jobs, attempts, cancels>>
    PROVE  IInv'
<1>1. \A v \in Workers : worker'[v] = IF v = w THEN Idle ELSE worker[v]
    BY DEF IInv, TypeOK
<1>2. Idle \in JobLease /\ Idle.job = Null
    BY BoundsAssumption DEF Idle, JobLease
<1>3. TypeOK'
    BY <1>2 DEF IInv, TypeOK
<1>4. \A v \in Workers : LeaseInv(worker[v])'
    BY <1>1, <1>2 DEF IInv, LeaseInv
<1>5. LeasesDistinct'
    BY <1>1, <1>2 DEF IInv, LeasesDistinct
<1> QED BY <1>3, <1>4, <1>5 DEF IInv

\* The two statements of cancel_job, and its failure between them.
LEMMA CancelStep ==
    ASSUME IInv, NEW j \in JobIds,
           CancelRead(j) \/ CancelWrite(j) \/ CancelFails(j)
    PROVE  IInv'
<1>1. CASE CancelRead(j)
    <2>1. TypeOK'
        BY <1>1 DEF CancelRead, IInv, TypeOK
    <2> QED BY <1>1, <2>1 DEF CancelRead, IInv, LeaseInv, LeasesDistinct
<1>2. CASE CancelWrite(j)
    <2> DEFINE r == [jobs[j] EXCEPT !.cancel = TRUE,
                         !.status = IF jobs[j].status = "queued" THEN "cancelled" ELSE @]
    <2>1. jobs[j] \in JobRecord /\ attempts[j] \in AttemptRows
        BY DEF IInv, TypeOK, AttemptRows
    <2>2. RowInv(jobs[j], attempts[j])
        BY DEF IInv
    <2>3. jobs[j].status \in {"queued", "leased"}
        BY <1>2 DEF CancelWrite, IInv, TypeOK
    <2>4. r \in JobRecord /\ RowInv(r, attempts[j])
        BY <2>1, <2>2, <2>3, CancellationKeepsRow
    <2>5. r.attempt = jobs[j].attempt
        BY <2>1 DEF JobRecord
    <2>6. jobs' = [jobs EXCEPT ![j] = r]
        BY <1>2 DEF CancelWrite
    <2>7. attempts' = [attempts EXCEPT ![j] = attempts[j]] /\ UNCHANGED <<clock, worker>>
        BY <1>2 DEF CancelWrite, IInv, TypeOK
    <2>8. cancels' \in [JobIds -> {"none", "queued", "leased"}]
        BY <1>2 DEF CancelWrite, IInv, TypeOK
    <2> HIDE DEF r
    <2> QED BY <2>1, <2>4, <2>5, <2>6, <2>7, <2>8, RowStep
<1>3. CASE CancelFails(j)
    <2>1. TypeOK'
        BY <1>3 DEF CancelFails, IInv, TypeOK
    <2> QED BY <1>3, <2>1 DEF CancelFails, IInv, LeaseInv, LeasesDistinct
<1> QED BY <1>1, <1>2, <1>3

\* Every step of every worker and caller keeps the invariant.
LEMMA IInvInductive == IInv /\ [Next]_vars => IInv'
<1> SUFFICES ASSUME IInv, [Next]_vars PROVE IInv'
    OBVIOUS
<1>1. CASE \E n \in NewJobs : enqueue_job(n)
    BY <1>1, EnqueueStep
<1>2. ASSUME NEW w \in Workers, claim_job(w) PROVE IInv'
    BY <1>2, ClaimStep
<1>3. ASSUME NEW w \in Workers, renew_job(w) PROVE IInv'
    BY <1>3, RenewStep
<1>4. ASSUME NEW w \in Workers, NEW outcome \in HandlerOutcome, complete_job(w, outcome)
      PROVE  IInv'
    BY <1>4, CompleteStep
<1>5. ASSUME NEW w \in Workers, complete_answer(w) PROVE IInv'
    BY <1>5, ForgetStep DEF complete_answer
<1>6. ASSUME NEW w \in Workers, Crash(w) PROVE IInv'
    BY <1>6, ForgetStep DEF Crash
<1>7. CASE \E j \in JobIds : CancelRead(j) \/ CancelWrite(j) \/ CancelFails(j)
    BY <1>7, CancelStep
<1>8. CASE Tick
    <2>1. TypeOK'
        BY <1>8 DEF Tick, IInv, TypeOK
    <2> QED BY <1>8, <2>1 DEF Tick, IInv, LeaseInv, LeasesDistinct
<1>9. CASE UNCHANGED vars
    BY <1>9 DEF vars, IInv, TypeOK, LeaseInv, LeasesDistinct
<1> QED BY <1>1, <1>2, <1>3, <1>4, <1>5, <1>6, <1>7, <1>8, <1>9 DEF Next

\* The invariant of the whole queue.
LEMMA Invariance == Spec => []IInv
<1>1. Init => IInv
    BY InitIInv
<1>2. IInv /\ [Next]_vars => IInv'
    BY IInvInductive
<1> QED BY <1>1, <1>2, PTL DEF Spec

-----------------------------------------------------------------------------
(* What a step may do to one row *)

\* Terminal rows and closed attempts stay; a cancelled job is not leased again;
\* identities stay; and the row moves along the lifecycle.
RowProgress(r, a, s, b) ==
    /\ r.status \in Terminal => s = r
    /\ \A k \in AttemptNumbers : a[k].outcome \in Closed => b[k] = a[k]
    /\ r.cancel => s.generation = r.generation /\ s.status \in {r.status, "cancelled"}
    /\ r.status # "absent" => s.status # "absent" /\ s.spec = r.spec
    /\ \/ LifecycleOf(s) = LifecycleOf(r)
       \/ Lifecycle!JobStep(LifecycleOf(r), LifecycleOf(s))

\* A row that does not change makes progress by stuttering.
LEMMA RowStutters ==
    ASSUME NEW r, NEW a
    PROVE  RowProgress(r, a, r, a)
BY DEF RowProgress

\* recover_expired only closes and requeues, or ends, what it touches.
LEMMA RecoveryProgress ==
    ASSUME NEW r \in JobRecord, NEW a \in AttemptRows, NEW now \in Nat,
           RowInv(r, a)
    PROVE  RowProgress(r, a, RecoveredJob(r, now), RecoveredAttempts(r, a, now))
<1> DEFINE s == RecoveredJob(r, now)
           b == RecoveredAttempts(r, a, now)
<1>0. r.attempt \in Int /\ r.spec.max_attempts \in Int /\ r.cancel \in BOOLEAN
    BY SpecType DEF JobRecord
<1>1. \A k \in AttemptNumbers : a[k].outcome \in Closed => b[k] = a[k]
    BY DEF RecoveredAttempts, RecoveredAttempt, Closed, HandlerOutcome
<1>2. CASE s = r
    BY <1>1, <1>2 DEF RowProgress
<1>3. CASE /\ r.status = "leased"
           /\ r.cancel \/ r.attempt >= r.spec.max_attempts
           /\ s = [r EXCEPT !.status = IF r.cancel THEN "cancelled" ELSE "exhausted",
                            !.owner = NoWorker, !.expires = Null]
    <2>1. /\ s.attempt = r.attempt /\ s.generation = r.generation
          /\ s.spec = r.spec /\ s.cancel = r.cancel
          /\ s.status = IF r.cancel THEN "cancelled" ELSE "exhausted"
        BY <1>3 DEF JobRecord
    <2> DEFINE x == LifecycleOf(r)
               y == LifecycleOf(s)
    <2>2. /\ x = [phase |-> "running", runs |-> r.attempt,
                  limit |-> r.spec.max_attempts, cancel |-> r.cancel]
          /\ y = [phase |-> s.status, runs |-> r.attempt,
                  limit |-> r.spec.max_attempts, cancel |-> r.cancel]
        BY <1>3, <2>1 DEF LifecycleOf
    <2> HIDE DEF x, y, s
    <2>3. CASE r.cancel
        <3>0. s.status = "cancelled"
            BY <2>1, <2>3
        <3>1. y = [x EXCEPT !.phase = "cancelled"] /\ x.phase = "running"
            BY <2>2, <3>0
        <3>2. Lifecycle!Cancel(x, y)
            BY <3>1 DEF Lifecycle!Cancel
        <3> QED BY <1>1, <1>3, <2>1, <3>2, <2>3
              DEF RowProgress, Lifecycle!JobStep, Terminal, x, y, s
    <2>4. CASE ~r.cancel
        <3>1. /\ y = [x EXCEPT !.phase = "exhausted"] /\ x.phase = "running"
              /\ x.runs = x.limit /\ ~x.cancel
            BY <1>0, <1>3, <2>1, <2>2, <2>4 DEF RowInv
        <3>2. Lifecycle!Exhaust(x, y)
            BY <3>1 DEF Lifecycle!Exhaust
        <3> QED BY <1>1, <1>3, <2>1, <2>4, <3>2
              DEF RowProgress, Lifecycle!JobStep, Terminal, x, y, s
    <2> QED BY <1>0, <2>3, <2>4
<1> QED BY <1>2, <1>3 DEF RecoveredJob

\* A claim, after the recovery in its transaction, is a step of the lifecycle.
LEMMA ClaimProgress ==
    ASSUME NEW r \in JobRecord, NEW a \in AttemptRows, NEW now \in Nat,
           NEW w \in Workers, NEW kind, NEW row,
           RowInv(r, a),
           Claimable(RecoveredJob(r, now), now, kind)
    PROVE  LET s == Claimed(RecoveredJob(r, now), w, now) IN
           RowProgress(r, a, s,
                [RecoveredAttempts(r, a, now) EXCEPT ![s.attempt] = row])
<1> DEFINE s == Claimed(RecoveredJob(r, now), w, now)
           c == RecoveredAttempts(r, a, now)
           b == [c EXCEPT ![s.attempt] = row]
           x == LifecycleOf(r)
           y == LifecycleOf(s)
<1>0. /\ r.attempt \in Int /\ r.spec.max_attempts \in Int /\ r.attempt >= 0
      /\ r.cancel \in BOOLEAN
    BY SpecType DEF JobRecord
<1>1. RecoveredJob(r, now) = r
    BY DEF Claimable, RecoveredJob
<1>2. /\ r.attempt < r.spec.max_attempts /\ ~r.cancel
      /\ r.status \in {"queued", "leased"}
    BY <1>1 DEF Claimable
<1>3. /\ s.attempt = r.attempt + 1 /\ s.spec = r.spec
      /\ s.cancel = r.cancel /\ s.status = "leased"
    BY <1>1 DEF Claimed, JobRecord
<1> HIDE DEF s
<1>4. /\ x = [phase |-> IF r.status = "leased" THEN "running" ELSE r.status,
              runs |-> r.attempt,
              limit |-> r.spec.max_attempts, cancel |-> r.cancel]
      /\ y = [phase |-> "running", runs |-> r.attempt + 1,
              limit |-> r.spec.max_attempts, cancel |-> r.cancel]
    BY <1>2, <1>3 DEF LifecycleOf
<1> HIDE DEF x, y
<1>5. /\ y = [phase |-> "running", runs |-> x.runs + 1, limit |-> x.limit,
              cancel |-> x.cancel]
      /\ x.phase \in {"queued", "running"} /\ ~x.cancel /\ x.runs < x.limit
    BY <1>0, <1>2, <1>4
<1>6. Lifecycle!Start(x, y)
    BY <1>5 DEF Lifecycle!Start
<1>7. \A k \in AttemptNumbers : a[k].outcome \in Closed => c[k] = a[k]
    BY DEF RecoveredAttempts, RecoveredAttempt, Closed, HandlerOutcome
<1>8. \A k \in AttemptNumbers : k # s.attempt => b[k] = c[k]
    BY DEF RecoveredAttempts
<1>9. \A k \in AttemptNumbers : k = s.attempt => a[k].outcome = "none"
    BY <1>0, <1>3 DEF RowInv, AttemptNumbers
<1>10. \A k \in AttemptNumbers : a[k].outcome \in Closed => b[k] = a[k]
    BY <1>7, <1>8, <1>9 DEF Closed, HandlerOutcome
<1> HIDE DEF b, c
<1>11. RowProgress(r, a, s, b)
    BY <1>2, <1>3, <1>6, <1>10 DEF RowProgress, Lifecycle!JobStep, Terminal, x, y
<1> QED BY <1>11 DEF s, b, c

\* A completion is a step of the lifecycle and leaves other attempts alone.
LEMMA CompletionProgress ==
    ASSUME NEW r \in JobRecord, NEW a \in AttemptRows, NEW now \in Nat,
           NEW outcome \in HandlerOutcome, NEW a2,
           RowInv(r, a), r.status = "leased",
           a[r.attempt].outcome \notin Closed,
           r.cancel => outcome = "cancelled",
           \A k \in AttemptNumbers : k # r.attempt => a2[k] = a[k]
    PROVE  LET t == completion_transition(r, outcome, now) IN
           RowProgress(r, a,
                [r EXCEPT !.status = t.status, !.available = t.available,
                          !.owner = NoWorker, !.expires = Null], a2)
<1> DEFINE t == completion_transition(r, outcome, now)
           s == [r EXCEPT !.status = t.status, !.available = t.available,
                          !.owner = NoWorker, !.expires = Null]
           x == LifecycleOf(r)
           y == LifecycleOf(s)
<1>0. r.spec.max_attempts \in Int /\ r.attempt \in Int /\ r.cancel \in BOOLEAN
    BY SpecType DEF JobRecord
<1>1. /\ t.status \in JobStatus \ {"leased"}
      /\ outcome = "succeeded" => t.status = "succeeded"
      /\ outcome = "permanent" => t.status = "permanent_failure"
      /\ outcome = "cancelled" => t.status = "cancelled"
      /\ outcome = "retryable" =>
            t.status = IF r.attempt >= r.spec.max_attempts
                       THEN "exhausted" ELSE "queued"
    BY TransitionType
<1> HIDE DEF t
<1>2. /\ s.status = t.status /\ s.attempt = r.attempt
      /\ s.generation = r.generation
      /\ s.cancel = r.cancel /\ s.spec = r.spec
    BY DEF JobRecord
<1> HIDE DEF s
<1>3. /\ x = [phase |-> "running", runs |-> r.attempt,
              limit |-> r.spec.max_attempts, cancel |-> r.cancel]
      /\ y = [phase |-> t.status, runs |-> r.attempt,
              limit |-> r.spec.max_attempts, cancel |-> r.cancel]
    BY <1>1, <1>2 DEF LifecycleOf, JobStatus, Terminal
<1>4. y = [x EXCEPT !.phase = t.status] /\ x.phase = "running"
      /\ x.cancel = r.cancel /\ x.runs = r.attempt /\ x.limit = r.spec.max_attempts
    BY <1>3
<1> HIDE DEF x, y
<1>5. Lifecycle!JobStep(x, y)
    <2>1. CASE outcome = "succeeded" \/ outcome = "permanent"
        <3>1. ~x.cancel /\ t.status \in {"succeeded", "permanent_failure"}
            BY <1>0, <1>1, <1>4, <2>1
        <3>2. Lifecycle!Finish(x, y)
            BY <1>4, <3>1 DEF Lifecycle!Finish
        <3> QED BY <3>2 DEF Lifecycle!JobStep
    <2>2. CASE outcome = "cancelled"
        BY <1>1, <1>4, <2>2 DEF Lifecycle!Cancel, Lifecycle!JobStep
    <2>3. CASE outcome = "retryable" /\ r.attempt >= r.spec.max_attempts
        <3>1. ~x.cancel /\ x.runs = x.limit
            BY <1>0, <1>4, <2>3 DEF RowInv
        <3> QED BY <1>1, <1>4, <2>3, <3>1 DEF Lifecycle!Exhaust, Lifecycle!JobStep
    <2>4. CASE outcome = "retryable" /\ ~(r.attempt >= r.spec.max_attempts)
        <3>1. ~x.cancel /\ x.runs < x.limit
            BY <1>0, <1>4, <2>4
        <3> QED BY <1>1, <1>4, <2>4, <3>1 DEF Lifecycle!Retry, Lifecycle!JobStep
    <2> QED BY <2>1, <2>2, <2>3, <2>4 DEF HandlerOutcome
<1>6. \A k \in AttemptNumbers : a[k].outcome \in Closed => a2[k] = a[k]
    OBVIOUS
<1>7. RowProgress(r, a, s, a2)
    BY <1>1, <1>2, <1>5, <1>6 DEF RowProgress, Terminal, JobStatus, x, y
<1> QED BY <1>7 DEF s, t

\* A cancellation is a step of the lifecycle.
LEMMA CancellationProgress ==
    ASSUME NEW r \in JobRecord, NEW a \in AttemptRows,
           RowInv(r, a), r.status \in {"queued", "leased"}
    PROVE  RowProgress(r, a,
                [r EXCEPT !.cancel = TRUE,
                          !.status = IF r.status = "queued" THEN "cancelled" ELSE @], a)
<1> DEFINE s == [r EXCEPT !.cancel = TRUE,
                          !.status = IF r.status = "queued" THEN "cancelled" ELSE @]
           x == LifecycleOf(r)
           y == LifecycleOf(s)
<1>1. /\ s.attempt = r.attempt /\ s.generation = r.generation
      /\ s.spec = r.spec /\ s.cancel = TRUE
      /\ s.status = IF r.status = "queued" THEN "cancelled" ELSE r.status
    BY DEF JobRecord
<1> HIDE DEF s
<1>2. /\ x = [phase |-> IF r.status = "leased" THEN "running" ELSE r.status,
              runs |-> r.attempt,
              limit |-> r.spec.max_attempts, cancel |-> r.cancel]
      /\ y = [phase |-> IF r.status = "leased" THEN "running" ELSE "cancelled",
              runs |-> r.attempt,
              limit |-> r.spec.max_attempts, cancel |-> TRUE]
    BY <1>1 DEF LifecycleOf
<1>3. CASE r.status = "leased"
    <2>1. x = [phase |-> "running", runs |-> r.attempt,
               limit |-> r.spec.max_attempts, cancel |-> r.cancel]
        BY <1>2, <1>3
    <2>2. y = [phase |-> "running", runs |-> r.attempt,
               limit |-> r.spec.max_attempts, cancel |-> TRUE]
        BY <1>2, <1>3
    <2> HIDE DEF x, y
    <2>3. /\ y = [phase |-> "running", runs |-> x.runs, limit |-> x.limit, cancel |-> TRUE]
          /\ x.phase = "running"
        BY <2>1, <2>2
    <2>4. Lifecycle!RequestCancel(x, y)
        BY <2>3 DEF Lifecycle!RequestCancel
    <2> QED BY <1>1, <1>3, <2>4 DEF RowProgress, Lifecycle!JobStep, Terminal, x, y, s
<1>4. CASE r.status = "queued"
    <2>1. x = [phase |-> "queued", runs |-> r.attempt,
               limit |-> r.spec.max_attempts, cancel |-> r.cancel]
        BY <1>2, <1>4
    <2>2. y = [phase |-> "cancelled", runs |-> r.attempt,
               limit |-> r.spec.max_attempts, cancel |-> TRUE]
        BY <1>2, <1>4
    <2> HIDE DEF x, y
    <2>3. /\ y = [phase |-> "cancelled", runs |-> x.runs, limit |-> x.limit, cancel |-> TRUE]
          /\ x.phase = "queued"
        BY <2>1, <2>2
    <2>4. Lifecycle!Cancel(x, y)
        BY <2>3 DEF Lifecycle!Cancel
    <2> QED BY <1>1, <1>4, <2>4 DEF RowProgress, Lifecycle!JobStep, Terminal, x, y, s
<1> QED BY <1>3, <1>4

\* Whatever step the queue takes, every row progresses.
LEMMA StepProgress ==
    ASSUME IInv, [Next]_vars, NEW j \in JobIds
    PROVE  RowProgress(jobs[j], attempts[j], jobs'[j], attempts'[j])
<1> DEFINE Goal == RowProgress(jobs[j], attempts[j], jobs'[j], attempts'[j])
<1>0. /\ jobs[j] \in JobRecord /\ attempts[j] \in AttemptRows
      /\ RowInv(jobs[j], attempts[j])
    BY DEF IInv, TypeOK, AttemptRows
<1>1. ASSUME NEW n \in NewJobs, enqueue_job(n) PROVE Goal
    <2>1. PICK now \in Sampled :
            /\ EnqueueResult(n) = "inserted"
            /\ jobs' = [jobs EXCEPT ![n.id] =
                  [spec |-> n, status |-> "queued", available |-> n.available,
                   attempt |-> 0, generation |-> 0, owner |-> NoWorker,
                   expires |-> Null, cancel |-> FALSE, created |-> now]]
            /\ UNCHANGED attempts
        BY <1>1 DEF enqueue_job
    <2>2. CASE j # n.id
        BY <2>1, <2>2, RowStutters DEF IInv, TypeOK
    <2>3. CASE j = n.id
        <3> DEFINE r == [spec |-> n, status |-> "queued", available |-> n.available,
                   attempt |-> 0, generation |-> 0, owner |-> NoWorker,
                   expires |-> Null, cancel |-> FALSE, created |-> now]
                   x == LifecycleOf(jobs[j])
                   y == LifecycleOf(r)
        <3>1. jobs'[j] = r /\ attempts' = attempts
            BY <2>1, <2>3 DEF IInv, TypeOK
        <3>2. jobs[j].status = "absent" /\ ~jobs[j].cancel
            BY <1>0, <2>1, <2>3 DEF EnqueueResult, Present, RowInv
        <3>3. n.max_attempts \in Nat \ {0}
            BY NewJobsAssumption, BoundsAssumption
        <3>4. /\ x.phase = "absent"
              /\ y = [phase |-> "queued", runs |-> 0, limit |-> n.max_attempts,
                      cancel |-> FALSE]
            BY <3>2 DEF LifecycleOf
        <3> HIDE DEF x, y
        <3>5. Lifecycle!Store(x, y)
            BY <3>3, <3>4 DEF Lifecycle!Store
        <3> QED BY <3>1, <3>2, <3>5 DEF RowProgress, Lifecycle!JobStep, Terminal, x, y
    <2> QED BY <2>2, <2>3
<1>2. ASSUME NEW w \in Workers, claim_job(w) PROVE Goal
    <2>1. PICK now \in Sampled :
            LET recovered == [i \in JobIds |-> RecoveredJob(jobs[i], now)]
                abandoned == [i \in JobIds |->
                                [k \in AttemptNumbers |->
                                    RecoveredAttempt(jobs[i], attempts[i][k], k, now)]]
            IN
            \/ /\ jobs' = recovered
               /\ attempts' = abandoned
            \/ \E i \in JobIds :
                 LET r == Claimed(recovered[i], w, now) IN
                 /\ Claimable(recovered[i], now, Kind[w])
                 /\ jobs' = [recovered EXCEPT ![i] = r]
                 /\ attempts' = [abandoned EXCEPT ![i][r.attempt] =
                       [generation |-> r.generation, worker |-> WorkerId[w],
                        expires |-> r.expires, outcome |-> "open",
                        final |-> "none"]]
        BY ZenonT(40), <1>2 DEF claim_job
    <2> DEFINE recovered == [i \in JobIds |-> RecoveredJob(jobs[i], now)]
               abandoned == [i \in JobIds |-> RecoveredAttempts(jobs[i], attempts[i], now)]
    <2>2. now \in Nat
        BY SampledType DEF IInv, TypeOK
    <2>3. abandoned = [i \in JobIds |->
                         [k \in AttemptNumbers |->
                             RecoveredAttempt(jobs[i], attempts[i][k], k, now)]]
        BY DEF RecoveredAttempts
    <2>4. RowProgress(jobs[j], attempts[j], recovered[j], abandoned[j])
        BY <1>0, <2>2, RecoveryProgress
    <2>5. CASE jobs' = recovered /\ attempts' = abandoned
        BY <2>4, <2>5
    <2>6. ASSUME NEW i \in JobIds,
                 LET r == Claimed(recovered[i], w, now) IN
                 /\ Claimable(recovered[i], now, Kind[w])
                 /\ jobs' = [recovered EXCEPT ![i] = r]
                 /\ attempts' = [abandoned EXCEPT ![i][r.attempt] =
                       [generation |-> r.generation, worker |-> WorkerId[w],
                        expires |-> r.expires, outcome |-> "open",
                        final |-> "none"]]
          PROVE  Goal
        <3>1. CASE j # i
            BY <2>4, <2>6, <3>1
        <3>2. CASE j = i
            <4> DEFINE r == Claimed(RecoveredJob(jobs[j], now), w, now)
                       row == [generation |-> r.generation, worker |-> WorkerId[w],
                               expires |-> r.expires, outcome |-> "open",
                               final |-> "none"]
            <4>1. jobs'[j] = r
                BY <2>6, <3>2
            <4>2. attempts'[j] =
                    [RecoveredAttempts(jobs[j], attempts[j], now) EXCEPT ![r.attempt] = row]
                BY <2>6, <3>2
            <4>3. Claimable(RecoveredJob(jobs[j], now), now, Kind[w])
                BY <2>6, <3>2
            <4> HIDE DEF row
            <4>4. RowProgress(jobs[j], attempts[j], r,
                    [RecoveredAttempts(jobs[j], attempts[j], now) EXCEPT ![r.attempt] = row])
                BY <1>0, <2>2, <4>3, ClaimProgress
            <4> QED BY <4>1, <4>2, <4>4
        <3> QED BY <3>1, <3>2
    <2> QED BY <2>1, <2>3, <2>5, <2>6
<1>3. ASSUME NEW w \in Workers, renew_job(w) PROVE Goal
    <2> DEFINE l == worker[w]
    <2>1. PICK now \in Sampled :
            /\ Fenced(w)
            /\ attempts[l.job][l.attempt].outcome = "open"
            /\ jobs' = [jobs EXCEPT ![l.job].expires = now + LeaseDuration]
            /\ attempts' = [attempts EXCEPT
                  ![l.job][l.attempt].expires = now + LeaseDuration]
        BY <1>3 DEF renew_job
    <2>2. l.job \in JobIds /\ l.attempt \in AttemptNumbers /\ jobs[l.job].status = "leased"
        BY <2>1, FencedFacts
    <2>3. CASE j # l.job
        BY <2>1, <2>3, RowStutters DEF IInv, TypeOK
    <2>4. CASE j = l.job
        <3> HIDE DEF l
        <3>1. jobs'[j] = [jobs[j] EXCEPT !.expires = now + LeaseDuration]
            BY <2>1, <2>4 DEF IInv, TypeOK
        <3>2. \A k \in AttemptNumbers :
                attempts[j][k].outcome \in Closed => attempts'[j][k] = attempts[j][k]
            <4>1. attempts'[j] = [attempts[j] EXCEPT ![l.attempt].expires = now + LeaseDuration]
                BY <2>1, <2>4 DEF IInv, TypeOK
            <4>2. \A k \in AttemptNumbers : k # l.attempt => attempts'[j][k] = attempts[j][k]
                BY <1>0, <4>1 DEF AttemptRows
            <4> QED BY <2>1, <2>4, <4>2 DEF Closed, HandlerOutcome
        <3>3. /\ jobs'[j].status = jobs[j].status /\ jobs'[j].attempt = jobs[j].attempt
              /\ jobs'[j].generation = jobs[j].generation
              /\ jobs'[j].cancel = jobs[j].cancel /\ jobs'[j].spec = jobs[j].spec
            BY <1>0, <3>1 DEF JobRecord
        <3>4. LifecycleOf(jobs'[j]) = LifecycleOf(jobs[j])
            BY <3>3 DEF LifecycleOf
        <3> QED BY <2>2, <2>4, <3>2, <3>3, <3>4 DEF RowProgress, Terminal
    <2> QED BY <2>3, <2>4
<1>4. ASSUME NEW w \in Workers, NEW outcome \in HandlerOutcome, complete_job(w, outcome)
      PROVE  Goal
    <2> DEFINE l == worker[w]
    <2>1. PICK now \in Sampled :
            LET t == completion_transition(jobs[l.job], outcome, now) IN
            /\ ~existing_completion(w)
            /\ validate_active_completion(w, outcome, now)
            /\ jobs' = [jobs EXCEPT ![l.job].status = t.status,
                                    ![l.job].available = t.available,
                                    ![l.job].owner = NoWorker,
                                    ![l.job].expires = Null]
            /\ attempts' = [attempts EXCEPT ![l.job][l.attempt].outcome = outcome,
                                            ![l.job][l.attempt].final = t.status]
        BY <1>4 DEF complete_job
    <2>2. now \in Nat
        BY SampledType DEF IInv, TypeOK
    <2>3. Fenced(w) /\ (jobs[l.job].cancel => outcome = "cancelled")
        BY <2>1 DEF validate_active_completion
    <2>4. /\ l.job \in JobIds /\ jobs[l.job].status = "leased"
          /\ jobs[l.job].attempt = l.attempt
          /\ l.attempt \in AttemptNumbers
          /\ attempts[l.job][l.attempt].generation = l.generation
        BY <2>3, FencedFacts
    <2>5. attempts[l.job][jobs[l.job].attempt].outcome \notin Closed
        BY <2>1, <2>4 DEF existing_completion
    <2>6. CASE j # l.job
        BY <2>1, <2>6, RowStutters DEF IInv, TypeOK
    <2>7. CASE j = l.job
        <3> DEFINE t == completion_transition(jobs[j], outcome, now)
        <3> HIDE DEF l, t
        <3>1. jobs'[j] = [jobs[j] EXCEPT !.status = t.status, !.available = t.available,
                                         !.owner = NoWorker, !.expires = Null]
            BY <2>1, <2>7 DEF IInv, TypeOK, t
        <3>2. \A k \in AttemptNumbers : k # jobs[j].attempt => attempts'[j][k] = attempts[j][k]
            BY <2>1, <2>4, <2>7 DEF IInv, TypeOK
        <3>3. /\ jobs[j].status = "leased"
              /\ attempts[j][jobs[j].attempt].outcome \notin Closed
              /\ jobs[j].cancel => outcome = "cancelled"
            BY <2>3, <2>4, <2>5, <2>7 DEF l
        <3>4. RowProgress(jobs[j], attempts[j],
                [jobs[j] EXCEPT !.status = t.status, !.available = t.available,
                                !.owner = NoWorker, !.expires = Null], attempts'[j])
            BY <1>0, <2>2, <3>2, <3>3, CompletionProgress DEF t
        <3> QED BY <3>1, <3>4
    <2> QED BY <2>6, <2>7
<1>5. ASSUME NEW w \in Workers, complete_answer(w) PROVE Goal
    BY <1>5, RowStutters DEF complete_answer
<1>6. ASSUME NEW w \in Workers, Crash(w) PROVE Goal
    BY <1>6, RowStutters DEF Crash
<1>7. ASSUME NEW i \in JobIds, CancelRead(i) \/ CancelWrite(i) \/ CancelFails(i)
      PROVE  Goal
    <2>1. CASE CancelRead(i) \/ CancelFails(i)
        BY <2>1, RowStutters DEF CancelRead, CancelFails
    <2>2. CASE CancelWrite(i) /\ i # j
        BY <2>2, RowStutters DEF CancelWrite, IInv, TypeOK
    <2>3. CASE CancelWrite(i) /\ i = j
        <3>1. jobs[j].status \in {"queued", "leased"}
            BY <2>3 DEF CancelWrite, IInv, TypeOK
        <3>2. /\ jobs'[j] = [jobs[j] EXCEPT !.cancel = TRUE,
                   !.status = IF jobs[j].status = "queued" THEN "cancelled" ELSE @]
              /\ attempts'[j] = attempts[j]
            BY <2>3 DEF CancelWrite, IInv, TypeOK
        <3> QED BY ZenonT(40), <1>0, <3>1, <3>2, CancellationProgress
    <2> QED BY <1>7, <2>1, <2>2, <2>3
<1>8. CASE Tick
    BY <1>8, RowStutters DEF Tick
<1>9. CASE UNCHANGED vars
    BY <1>9, RowStutters DEF vars
<1> QED BY <1>1, <1>2, <1>3, <1>4, <1>5, <1>6, <1>7, <1>8, <1>9 DEF Next

-----------------------------------------------------------------------------
(* The theorems *)

\* Type correctness of the tables and of the workers' memory (columns of
\* migration 0009, JobLease).
THEOREM TypeCorrect == Spec => []TypeOK
<1>1. IInv => TypeOK
    BY DEF IInv
<1> QED BY <1>1, Invariance, PTL

\* An open row of job_attempts is the live lease of its job, in every
\* interleaving of claim, renew, complete, cancel and recovery.
THEOREM OpenAttemptCorrect == Spec => []OpenAttemptIsTheLease
<1>1. IInv => OpenAttemptIsTheLease
    <2> SUFFICES ASSUME IInv, NEW j \in JobIds, NEW k \in AttemptNumbers,
                        attempts[j][k].outcome = "open"
                 PROVE  /\ jobs[j].status = "leased"
                        /\ jobs[j].attempt = k
                        /\ jobs[j].generation = attempts[j][k].generation
                        /\ jobs[j].owner = attempts[j][k].worker
                        /\ jobs[j].expires = attempts[j][k].expires
        BY DEF OpenAttemptIsTheLease
    <2>1. RowInv(jobs[j], attempts[j])
        BY DEF IInv
    <2> QED BY <2>1 DEF RowInv, AttemptNumbers
<1> QED BY <1>1, Invariance, PTL

\* The attempt history explains how every job stands and ended.
THEOREM HistoryCorrect == Spec => []HistoryExplainsStatus
<1>1. IInv => HistoryExplainsStatus
    <2> SUFFICES ASSUME IInv, NEW j \in JobIds
                 PROVE  HistoryExplainsStatus!(j)
        BY DEF HistoryExplainsStatus
    <2>1. RowInv(jobs[j], attempts[j])
        BY DEF IInv
    <2>2. jobs[j] \in JobRecord
        BY DEF IInv, TypeOK
    <2>3. CASE jobs[j].attempt = 0
        <3>1. LastOutcome(j) = "none"
            BY <2>3 DEF LastOutcome
        <3> QED BY <2>1, <2>2, <2>3, <3>1 DEF RowInv
    <2>4. CASE jobs[j].attempt # 0
        <3>1. jobs[j].attempt \in AttemptNumbers
            BY <2>2, <2>4, SpecType, BoundsAssumption DEF AttemptNumbers
        <3>2. LastOutcome(j) = attempts[j][jobs[j].attempt].outcome
            BY <2>4 DEF LastOutcome
        <3> QED BY <2>1, <2>2, <3>1, <3>2 DEF RowInv
    <2> QED BY <2>3, <2>4
<1> QED BY <1>1, Invariance, PTL

\* Fencing by attempt and generation excludes two live holders, also among
\* processes that share a worker_id.
THEOREM FencingCorrect == Spec => []OneFencedWorker
<1>1. IInv => OneFencedWorker
    BY DEF IInv, LeasesDistinct, OneFencedWorker, Fenced
<1> QED BY <1>1, Invariance, PTL

\* A terminal row of jobs is never written again.
THEOREM TerminalCorrect == Spec => TerminalIsFinal
<1>1. IInv /\ [Next]_vars =>
        [\A j \in JobIds : jobs[j].status \in Terminal => jobs'[j] = jobs[j]]_vars
    BY StepProgress DEF RowProgress
<1> QED BY <1>1, Invariance, PTL DEF Spec, TerminalIsFinal

\* A closed row of job_attempts is never written again.
THEOREM ClosedAttemptCorrect == Spec => ClosedAttemptIsFinal
<1>1. IInv /\ [Next]_vars =>
        [\A j \in JobIds : \A k \in AttemptNumbers :
            attempts[j][k].outcome \in Closed => attempts'[j][k] = attempts[j][k]]_vars
    BY StepProgress DEF RowProgress
<1> QED BY <1>1, Invariance, PTL DEF Spec, ClosedAttemptIsFinal

\* After a cancellation request a job is not leased again and can only end
\* cancelled.
THEOREM CancellationCorrect == Spec => CancelledNeverRuns
<1>1. IInv /\ [Next]_vars =>
        [\A j \in JobIds : jobs[j].cancel =>
            /\ jobs'[j].generation = jobs[j].generation
            /\ jobs'[j].status \in {jobs[j].status, "cancelled"}]_vars
    BY StepProgress DEF RowProgress
<1> QED BY <1>1, Invariance, PTL DEF Spec, CancelledNeverRuns

\* No transaction but enqueue_job brings a row into being.
LEMMA AbsentStays ==
    ASSUME IInv, NEW j \in JobIds, jobs[j].status = "absent",
           [Next]_vars, ~\E n \in NewJobs : enqueue_job(n)
    PROVE  jobs'[j].status = "absent"
<1>1. ASSUME NEW w \in Workers, claim_job(w) PROVE jobs'[j].status = "absent"
    <2>1. PICK now \in Sampled :
            LET recovered == [i \in JobIds |-> RecoveredJob(jobs[i], now)] IN
            \/ jobs' = recovered
            \/ \E i \in JobIds :
                 /\ Claimable(recovered[i], now, Kind[w])
                 /\ jobs' = [recovered EXCEPT ![i] = Claimed(recovered[i], w, now)]
        BY <1>1 DEF claim_job
    <2> DEFINE recovered == [i \in JobIds |-> RecoveredJob(jobs[i], now)]
    <2>2. recovered[j].status = "absent"
        BY DEF RecoveredJob
    <2>3. ~Claimable(recovered[j], now, Kind[w])
        BY <2>2 DEF Claimable
    <2> QED BY <2>1, <2>2, <2>3
<1>2. ASSUME NEW w \in Workers, renew_job(w) PROVE jobs'[j].status = "absent"
    <2>1. Fenced(w) /\ \E t : jobs' = [jobs EXCEPT ![worker[w].job].expires = t]
        BY <1>2 DEF renew_job
    <2>2. worker[w].job # j
        BY <2>1 DEF Fenced
    <2> QED BY <2>1, <2>2 DEF IInv, TypeOK
<1>3. ASSUME NEW w \in Workers, NEW outcome \in HandlerOutcome, complete_job(w, outcome)
      PROVE  jobs'[j].status = "absent"
    <2>1. PICK now \in Sampled :
            LET t == completion_transition(jobs[worker[w].job], outcome, now) IN
            /\ Fenced(w)
            /\ jobs' = [jobs EXCEPT ![worker[w].job].status = t.status,
                                    ![worker[w].job].available = t.available,
                                    ![worker[w].job].owner = NoWorker,
                                    ![worker[w].job].expires = Null]
        BY <1>3 DEF complete_job, validate_active_completion
    <2>2. worker[w].job # j
        BY <2>1 DEF Fenced
    <2> DEFINE t == completion_transition(jobs[worker[w].job], outcome, now)
    <2> HIDE DEF t
    <2>3. jobs' = [jobs EXCEPT ![worker[w].job].status = t.status,
                               ![worker[w].job].available = t.available,
                               ![worker[w].job].owner = NoWorker,
                               ![worker[w].job].expires = Null]
        BY <2>1 DEF t
    <2> QED BY <2>2, <2>3 DEF IInv, TypeOK
<1>4. ASSUME NEW i \in JobIds, CancelWrite(i) PROVE jobs'[j].status = "absent"
    <2>1. i # j
        BY <1>4 DEF CancelWrite, IInv, TypeOK
    <2> QED BY <1>4, <2>1 DEF CancelWrite, IInv, TypeOK
<1>5. CASE UNCHANGED jobs
    BY <1>5
<1> QED BY <1>1, <1>2, <1>3, <1>4, <1>5
    DEF Next, complete_answer, Crash, CancelRead, CancelFails, Tick, vars

\* (kind, deduplication_key) identifies at most one stored job.
THEOREM DeduplicationCorrect == Spec => []DeduplicationHolds
<1>1. Init => DeduplicationHolds
    BY DEF Init, DeduplicationHolds, Present
<1>2. IInv /\ DeduplicationHolds /\ [Next]_vars => DeduplicationHolds'
    <2> SUFFICES ASSUME IInv, DeduplicationHolds, [Next]_vars PROVE DeduplicationHolds'
        OBVIOUS
    <2>1. \A j \in JobIds : Present(j) => jobs'[j].spec = jobs[j].spec
        BY StepProgress DEF RowProgress, Present
    <2>2. CASE ~\E n \in NewJobs : enqueue_job(n)
        <3>1. \A j \in JobIds : Present(j)' => Present(j)
            BY <2>2, AbsentStays DEF Present
        <3> QED BY <2>1, <3>1 DEF DeduplicationHolds
    <2>3. ASSUME NEW n \in NewJobs, enqueue_job(n) PROVE DeduplicationHolds'
        <3>1. PICK row :
                /\ EnqueueResult(n) = "inserted"
                /\ row.spec = n
                /\ jobs' = [jobs EXCEPT ![n.id] = row]
            BY <2>3 DEF enqueue_job
        <3>2. \A j \in JobIds : Present(j) =>
                <<jobs[j].spec.kind, jobs[j].spec.key>> # <<n.kind, n.key>>
            BY <3>1 DEF EnqueueResult, Deduplicated
        <3>3. \A j \in JobIds : jobs'[j] = IF j = n.id THEN row ELSE jobs[j]
            BY <3>1 DEF IInv, TypeOK
        <3>4. \A j \in JobIds : j # n.id /\ Present(j)' => Present(j)
            BY <3>3 DEF Present
        <3> QED BY <3>1, <3>2, <3>3, <3>4 DEF DeduplicationHolds
    <2> QED BY <2>2, <2>3
<1> QED BY <1>1, <1>2, Invariance, PTL DEF Spec

\* The queue implements the lifecycle of module JobLifecycle.
THEOREM LifecycleCorrect == Spec => ImplementsLifecycle
<1>1. Init => Lifecycle!Init
    <2> SUFFICES ASSUME Init PROVE Lifecycle!Init
        OBVIOUS
    <2>1. \A j \in JobIds : LifecycleOf(jobs[j]) =
            [phase |-> "absent", runs |-> 0, limit |-> 0, cancel |-> FALSE]
        BY DEF Init, LifecycleOf
    <2> QED BY <2>1 DEF Lifecycle!Init
<1>2. IInv /\ [Next]_vars => [Lifecycle!Next]_([j \in JobIds |-> LifecycleOf(jobs[j])])
    <2> SUFFICES ASSUME IInv, [Next]_vars
                 PROVE  Lifecycle!Next
        OBVIOUS
    <2> QED BY StepProgress DEF RowProgress, Lifecycle!Next
<1> QED BY <1>1, <1>2, Invariance, PTL DEF Spec, ImplementsLifecycle, Lifecycle!Spec

\* The two tables agree in every reachable state, for every number of jobs,
\* workers and attempts.
THEOREM RowsConsistent == Spec => []RowsAreConsistent
<1>1. TypeOK /\ OpenAttemptIsTheLease /\ HistoryExplainsStatus /\ OneFencedWorker /\ DeduplicationHolds
        => RowsAreConsistent
    BY DEF RowsAreConsistent
<1> QED BY <1>1, TypeCorrect, OpenAttemptCorrect, HistoryCorrect, FencingCorrect, DeduplicationCorrect, PTL

\* No step, late or repeated, changes an ended job or a closed attempt, or
\* leases a job that was cancelled.
THEOREM RowsFinal == Spec => RowsAreFinal
<1> QED BY TerminalCorrect, ClosedAttemptCorrect, CancellationCorrect, PTL DEF RowsAreFinal
=============================================================================
