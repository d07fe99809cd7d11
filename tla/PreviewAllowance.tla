-------------------------- MODULE PreviewAllowance --------------------------
(***************************************************************************)
(* The preview allowance of one seat of a practice game: a fixed window    *)
(* kept in memory, under a wall clock that is sometimes set.               *)
(***************************************************************************)
EXTENDS Integers

CONSTANTS
    PreviewWindowMs,     \* preview_policy.window_ms
    PreviewMax,          \* preview_policy.max_requests
    LatestTime,          \* bound on the clock
    MaxSteps,            \* bound on the time that passes in all
    MaxSetbacks          \* bound on clock changes and restarts

\* with_preview_policy asserts that both limits are positive.
ASSUME PreviewAssumption ==
    /\ PreviewWindowMs \in Nat \ {0} /\ PreviewMax \in Nat \ {0}
    /\ LatestTime \in Nat /\ MaxSteps \in Nat /\ MaxSetbacks \in Nat

VARIABLES
    pvNow,       \* the clock
    pvWindow,    \* [open, started, requests]
    pvRetry,     \* retry_after_ms of a refusal at this instant, or -1
    pvGranted,   \* previews granted so far
    pvPassed,    \* time that has passed, clock changes apart
    pvSetbacks   \* times the clock was set or the server restarted

previewVars == <<pvNow, pvWindow, pvRetry, pvGranted, pvPassed, pvSetbacks>>

NoWindow == [open |-> FALSE, started |-> 0, requests |-> 0]
NewWindow(now) == [open |-> TRUE, started |-> now, requests |-> 0]

\* Mutant: a window that began in the future is never over.
ExpiredForward(w, now) == ~w.open \/ now - w.started > PreviewWindowMs

\* The window is over, or began in what is now the future.
Expired(w, now) == ~w.open \/ now < w.started \/ now - w.started >= PreviewWindowMs

\* The window a request at a time falls in.
WindowAt(now) == IF Expired(pvWindow, now) THEN NewWindow(now) ELSE pvWindow
Allowed(now) == WindowAt(now).requests < PreviewMax

\* consume_preview_allowance; a placement that turns out to be illegal has
\* used its allowance too.
Preview ==
    LET w == WindowAt(pvNow)
    IN /\ IF Allowed(pvNow)
          THEN /\ pvWindow' = [w EXCEPT !.requests = @ + 1]
               /\ pvGranted' = pvGranted + 1 /\ pvRetry' = -1
          ELSE /\ pvWindow' = w /\ UNCHANGED pvGranted
               /\ pvRetry' = w.started + PreviewWindowMs - pvNow
       /\ UNCHANGED <<pvNow, pvPassed, pvSetbacks>>

PassTime ==
    /\ pvNow < LatestTime /\ pvPassed < MaxSteps
    /\ pvNow' = pvNow + 1 /\ pvPassed' = pvPassed + 1 /\ pvRetry' = -1
    /\ UNCHANGED <<pvWindow, pvGranted, pvSetbacks>>

SetClock(t) ==
    /\ t /= pvNow /\ pvSetbacks < MaxSetbacks
    /\ pvNow' = t /\ pvSetbacks' = pvSetbacks + 1 /\ pvRetry' = -1
    /\ UNCHANGED <<pvWindow, pvGranted, pvPassed>>

RestartServer ==
    /\ pvSetbacks < MaxSetbacks
    /\ pvWindow' = NoWindow /\ pvSetbacks' = pvSetbacks + 1 /\ pvRetry' = -1
    /\ UNCHANGED <<pvNow, pvGranted, pvPassed>>

PreviewInit ==
    /\ pvNow = 0 /\ pvWindow = NoWindow /\ pvRetry = -1
    /\ pvGranted = 0 /\ pvPassed = 0 /\ pvSetbacks = 0

PreviewNext == Preview \/ PassTime \/ RestartServer \/ \E t \in 0..LatestTime : SetClock(t)

PreviewSpec == PreviewInit /\ [][PreviewNext]_previewVars

-----------------------------------------------------------------------------
\* What a seat gets in all is bounded by the time that really passes and by
\* how often the clock is set or the server restarts, each of which can
\* start one window more.
GrantsAreBounded ==
    pvGranted <= PreviewMax * (1 + pvPassed \div PreviewWindowMs + pvSetbacks)

\* retry_after_ms is exact, also after the clock was set within the
\* window: a request after that time is granted, one a millisecond earlier
\* is not, and nobody is told to wait longer than a window.
RetryAfterIsExact ==
    pvRetry /= -1 => /\ pvRetry \in 1..PreviewWindowMs
                     /\ Allowed(pvNow + pvRetry) /\ ~Allowed(pvNow + pvRetry - 1)

\* The allowance keeps its promise under a clock that is set: both what it
\* grants and when it says to come back.
PreviewSafety == GrantsAreBounded /\ RetryAfterIsExact
=============================================================================
