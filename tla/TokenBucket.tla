---------------------------- MODULE TokenBucket ----------------------------
(***************************************************************************)
(* The deterministic integer token bucket of the scheduler: refill_bucket  *)
(* and token_retry_at.  A bucket holds whole tokens and the remainder of   *)
(* the last division, in units of 1/refill_interval_ms of a token.  The    *)
(* u32/u128 saturations of the code lie above every legal policy (capacity *)
(* and refill_tokens are at most MAX_RATE_CAPACITY): `min(capacity)`       *)
(* decides first.                                                          *)
(***************************************************************************)
EXTENDS Integers

RatePolicy == [capacity: Nat \ {0}, refill_tokens: Nat \ {0},
               refill_interval_ms: Nat \ {0}]

TokenBucketState == [tokens: Nat, remainder: Nat, updated_at: Nat]

\* The row that configure_limits writes: full, and no fraction pending.
FullBucket(policy, now) ==
    [tokens |-> policy.capacity, remainder |-> 0, updated_at |-> now]

\* refill_bucket answers InvalidInput when the clock runs backwards.
Refillable(state, now) == now >= state.updated_at

\* Mutant: the fraction of a token is dropped at every refill.
RefillWithoutRemainder(state, policy, now) ==
    LET numerator == (now - state.updated_at) * policy.refill_tokens
        tokens == state.tokens + numerator \div policy.refill_interval_ms
    IN IF tokens >= policy.capacity THEN FullBucket(policy, now)
       ELSE [tokens |-> tokens, remainder |-> 0, updated_at |-> now]

\* A bucket that reaches its capacity forgets the fraction.
refill_bucket(state, policy, now) ==
    LET numerator == (now - state.updated_at) * policy.refill_tokens + state.remainder
        tokens == state.tokens + numerator \div policy.refill_interval_ms
    IN IF state.tokens >= policy.capacity \/ tokens >= policy.capacity
       THEN FullBucket(policy, now)
       ELSE [tokens |-> tokens,
             remainder |-> numerator % policy.refill_interval_ms,
             updated_at |-> now]

token_retry_at(state, policy, now) ==
    IF state.tokens > 0 THEN now
    ELSE LET remaining == policy.refill_interval_ms - state.remainder
         IN now + (remaining + policy.refill_tokens - 1) \div policy.refill_tokens

=============================================================================
