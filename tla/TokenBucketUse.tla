--------------------------- MODULE TokenBucketUse ---------------------------
(***************************************************************************)
(* One bucket under an arbitrary legal policy, polled and drained at       *)
(* arbitrary times: every bucket an acquisition can find in the table.     *)
(***************************************************************************)
EXTENDS TokenBucket, Sequences

CONSTANTS
    Capacities, RefillTokens, Intervals,   \* the policies
    BucketHorizon                          \* bound on the times of calls

\* refill_bucket refuses a policy with a zero.
ASSUME BucketAssumption ==
    /\ Capacities \subseteq Nat \ {0} /\ RefillTokens \subseteq Nat \ {0} /\ Intervals \subseteq Nat \ {0}
    /\ BucketHorizon \in Nat

VARIABLES
    policy, bucket,
    drawn          \* history: when tokens were taken

bucketVars == <<policy, bucket, drawn>>

BucketInit ==
    /\ policy \in [capacity: Capacities, refill_tokens: RefillTokens,
                   refill_interval_ms: Intervals]
    /\ bucket = FullBucket(policy, 0)
    /\ drawn = <<>>

\* An acquisition that is limited by another scope persists the refill only.
Poll ==
    \E now \in 0..BucketHorizon :
        /\ Refillable(bucket, now)
        /\ bucket' = refill_bucket(bucket, policy, now)
        /\ UNCHANGED <<policy, drawn>>

\* An acquisition that is granted takes one token after the refill.
Grant ==
    \E now \in 0..BucketHorizon :
        /\ Refillable(bucket, now)
        /\ refill_bucket(bucket, policy, now).tokens > 0
        /\ bucket' = [refill_bucket(bucket, policy, now) EXCEPT !.tokens = @ - 1]
        /\ drawn' = Append(drawn, now)
        /\ UNCHANGED policy

BucketNext == Poll \/ Grant

BucketSpec == BucketInit /\ [][BucketNext]_bucketVars

-----------------------------------------------------------------------------

\* token_retry_at is exact: at the returned time the bucket has a token, and
\* one millisecond earlier it has none ("refill and retry times are exact").
RetryAtIsEarliest ==
    bucket.tokens = 0 =>
        LET retry == token_retry_at(bucket, policy, bucket.updated_at)
        IN /\ refill_bucket(bucket, policy, retry).tokens > 0
           /\ refill_bucket(bucket, policy, retry - 1).tokens = 0

\* Looking at a bucket in between neither gains nor loses a fraction of a
\* token: refill_bucket twice is refill_bucket once.
PollingIsInvisible ==
    \A t1 \in bucket.updated_at..BucketHorizon : \A t2 \in t1..BucketHorizon :
        refill_bucket(refill_bucket(bucket, policy, t1), policy, t2)
            = refill_bucket(bucket, policy, t2)

\* Over every window of time, the grants stay within the burst plus what the
\* window refills, however polls and grants are interleaved.
WindowsStayWithinRate ==
    \A i, j \in DOMAIN drawn : i <= j =>
        (j - i + 1) * policy.refill_interval_ms
            <= policy.capacity * policy.refill_interval_ms
               + (drawn[j] - drawn[i]) * policy.refill_tokens

\* The bucket's integer arithmetic is exact: the retry time, the remainder of
\* a refill, the rate over every window.
BucketIsExact == RetryAtIsEarliest /\ PollingIsInvisible /\ WindowsStayWithinRate
=============================================================================
