---------------------------- MODULE RetryBackoff ----------------------------
(***************************************************************************)
(* How long a job waits for its next attempt: retryDelay and               *)
(* jitteredRetryDelay of internal/jobqueue/worker.go, and what process     *)
(* makes of their result.  A time.Duration is a signed word; DurationBits  *)
(* is 64 in the code.                                                      *)
(***************************************************************************)
EXTENDS Integers, FiniteSetsExt

CONSTANT DurationBits

ASSUME BackoffConstants == DurationBits \in Nat \ {0, 1}

TwoTo[n \in Nat] == IF n = 0 THEN 1 ELSE 2 * TwoTo[n - 1]

Half == TwoTo[DurationBits - 1]
MaxDuration == Half - 1
Durations == 1..MaxDuration
Wrap(x) == ((x + Half) % (2 * Half)) - Half

\* Mutant: the delay is doubled first and compared afterwards.
retryDelayUnguarded(attempt, minimum, maximum) ==
    LET delay[current \in 1..attempt] ==
          IF current = 1 THEN minimum
          ELSE IF delay[current - 1] >= maximum THEN delay[current - 1]
          ELSE Wrap(2 * delay[current - 1])
    IN  IF minimum <= 0 \/ maximum <= 0 THEN 0 ELSE Min({delay[attempt], maximum})

\* delay[c] is the delay when the loop has counted to c.
retryDelay(attempt, minimum, maximum) ==
    LET delay[current \in 1..attempt] ==
          IF current = 1 THEN minimum
          ELSE IF delay[current - 1] >= maximum THEN delay[current - 1]
          ELSE IF delay[current - 1] > maximum \div 2 THEN maximum
          ELSE Wrap(2 * delay[current - 1])
    IN  IF minimum <= 0 \/ maximum <= 0 THEN 0 ELSE Min({delay[attempt], maximum})

\* The values it may draw, the one without randomness included.
jitteredRetryDelay(attempt, minimum, maximum) ==
    LET upper == retryDelay(attempt, minimum, maximum)
    IN  IF upper <= 1 THEN {upper} ELSE (upper \div 2)..upper

\* The delays process may choose for a retryable outcome with this RetryAfter, when
\* the job may live for remainingAge.
RetryDelays(attempt, minimum, maximum, retryAfter, remainingAge) ==
    {Min({Max({delay, retryAfter}), maximum, remainingAge}) :
        delay \in jitteredRetryDelay(attempt, minimum, maximum)}

\* Exponential back-off in unbounded arithmetic.
Doubled(attempt, minimum, maximum) == Min({minimum * TwoTo[attempt - 1], maximum})

\* The doubling neither overflows nor falls back, and a retry waits at least half of
\* it and what its handler asked for, unless the maximum or the job's age cuts the
\* wait short, and never longer than those.
ExactDelay(attempt, minimum, maximum) ==
    /\ retryDelay(attempt, minimum, maximum) = Doubled(attempt, minimum, maximum)
    /\ \A retryAfter \in {0, maximum, MaxDuration}, remainingAge \in {1, maximum} :
          \A delay \in RetryDelays(attempt, minimum, maximum, retryAfter, remainingAge) :
              /\ delay <= maximum /\ delay <= remainingAge
              /\ delay >= Min({retryAfter, maximum, remainingAge})
              /\ delay >= Min({Doubled(attempt, minimum, maximum) \div 2, remainingAge})
=============================================================================
