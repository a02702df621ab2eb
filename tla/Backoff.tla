------------------------------- MODULE Backoff -------------------------------
(* How long the watch loop sleeps between two attempts (watch.go: backoff,   *)
(* sleepBackoff).  A duration is a signed integer that wraps around; the     *)
(* bounds come from WithReconnectBackoff, which accepts any.                 *)
EXTENDS Integers

CONSTANTS
  Half,          \* durations are -Half .. Half - 1; 2^63 in the code
  MaxAttempts    \* bound on the failures in a row

\* What a shift to the left by n multiplies with.
PowerOfTwo[n \in Nat] == IF n = 0 THEN 1 ELSE 2 * PowerOfTwo[n - 1]

ASSUME BackoffAssumption ==
  /\ Half \in Nat \ {0} /\ \E i \in 0..Half : Half = PowerOfTwo[i]
  /\ MaxAttempts \in Nat

VARIABLES
  reconnectMin,  \* the bounds New has accepted
  reconnectMax,
  attempt,       \* watchLoop's count of failures since it last made progress
  delay,         \* the last sleep
  panicked       \* the random draw has panicked, which ends the loop

boundVars == <<reconnectMin, reconnectMax>>
sleepVars == <<attempt, delay, panicked>>

BackoffInit == attempt = 0 /\ delay = 0 /\ panicked = FALSE

\* Definitions named Bug... are mistakes the properties are tested with; nothing
\* uses them.

\* Arithmetic on durations.
BugUnsigned(n) == n % (2 * Half)
Wrap(n) == ((n + Half) % (2 * Half)) - Half

\* min << (attempt - 1).
BugOneShiftMore(n) == Wrap(reconnectMin * PowerOfTwo[n])
Shifted(n) == Wrap(reconnectMin * PowerOfTwo[n - 1])

\* The longest sleep before attempt n.
BugNoOverflowCheck(n) == IF Shifted(n) > reconnectMax THEN reconnectMax ELSE Shifted(n)
BugUncapped(n) == IF Shifted(n) <= 0 THEN reconnectMax ELSE Shifted(n)
Ceiling(n) ==
  IF Shifted(n) <= 0 \/ Shifted(n) > reconnectMax THEN reconnectMax ELSE Shifted(n)

\* rand.Int64N panics on an argument that is not positive.
DrawFrom(n) == Wrap(Wrap(Ceiling(n) - reconnectMin) + 1)

\* A session has failed without progress: count it and sleep.
Sleep ==
  /\ ~panicked
  /\ attempt < MaxAttempts
  /\ attempt' = attempt + 1
  /\ \/ /\ Ceiling(attempt') <= reconnectMin
        /\ delay' = reconnectMin
        /\ UNCHANGED panicked
     \/ /\ Ceiling(attempt') > reconnectMin
        /\ DrawFrom(attempt') > 0
        /\ delay' \in {Wrap(reconnectMin + n) : n \in 0..(DrawFrom(attempt') - 1)}
        /\ UNCHANGED panicked
     \/ /\ Ceiling(attempt') > reconnectMin
        /\ DrawFrom(attempt') <= 0
        /\ panicked' = TRUE
        /\ UNCHANGED delay
  /\ UNCHANGED boundVars

\* A session has made progress, or a resync has succeeded.
Progress ==
  /\ ~panicked
  /\ attempt' = 0
  /\ UNCHANGED <<boundVars, delay, panicked>>

-----------------------------------------------------------------------------
(* Properties.                                                               *)

\* A sleep is never shorter than the minimum ("a flapping cluster must not be
\* hammered sub-min") nor longer than the maximum, if that is not below the
\* minimum, whatever the shift overflows to; and with a positive minimum the
\* loop does not die of the random draw.
DelayInBounds ==
  reconnectMin > 0 =>
    /\ ~panicked
    /\ attempt > 0 =>
         /\ reconnectMin <= delay
         /\ delay <= reconnectMax \/ (reconnectMax < reconnectMin /\ delay = reconnectMin)

\* "exp doubles per attempt (capped at max)": the ceiling is the one computed
\* without overflow, if max times what is left of min when it is halved as often
\* as it can be fits into a duration, sign bit included.  (It does for the
\* defaults.  Otherwise an overflow may look like a short sleep.)
OverflowShows ==
  \E i \in 0..reconnectMin : \E odd \in 1..reconnectMin :
    reconnectMin = odd * PowerOfTwo[i] /\ odd * reconnectMax < 2 * Half
CeilingDoubles ==
  (attempt > 0 /\ 0 < reconnectMin /\ reconnectMin <= reconnectMax /\ OverflowShows) =>
    Ceiling(attempt) = LET exp == reconnectMin * PowerOfTwo[attempt - 1]
                       IN IF exp > reconnectMax THEN reconnectMax ELSE exp
=============================================================================
