----------------------------- MODULE RateLimiter -----------------------------
(***************************************************************************)
(* The limiter of a lane (verification/local-live/rate-limiter.ts) as a    *)
(* value.  A lane calls it for one request at a time: acquire, then, when  *)
(* there is an answer, recordResult.  Durations are abstracted to whether  *)
(* the average has doubled, which takes LatencyHistory results.            *)
(***************************************************************************)
EXTENDS Integers

CONSTANTS
    MaxRequestsPerCampaign,  \* requests a limiter admits
    AutoStopOn5xxStreak,     \* 5xx answers in a row that stop it
    LatencyHistory           \* results before the averages are compared (10)

ASSUME LimiterConstants ==
    /\ MaxRequestsPerCampaign \in Nat
    /\ AutoStopOn5xxStreak \in Nat \ {0}
    /\ LatencyHistory \in Nat \ {0}

Limiter == [requestCount : 0..MaxRequestsPerCampaign, fiveXxStreak : Nat,
            latencies : 0..LatencyHistory, stopped : BOOLEAN]

NewLimiter == [requestCount |-> 0, fiveXxStreak |-> 0, latencies |-> 0, stopped |-> FALSE]

Refuses(limiter) ==
    limiter.stopped \/ limiter.requestCount >= MaxRequestsPerCampaign

\* What acquire leaves when it throws, and when it has waited for its slot.
Refused(limiter) == [limiter EXCEPT !.stopped = TRUE]
Acquired(limiter) == [limiter EXCEPT !.requestCount = @ + 1]

remainingBudget(limiter) == MaxRequestsPerCampaign - limiter.requestCount

\* The limiters recordResult may leave: whether the average doubled is up to the
\* target, once there are enough results.
Recorded(limiter, serverError) ==
    LET streak == IF serverError THEN limiter.fiveXxStreak + 1 ELSE 0
        latencies == IF limiter.latencies < LatencyHistory
                     THEN limiter.latencies + 1 ELSE limiter.latencies
        broken == serverError /\ streak >= AutoStopOn5xxStreak
    IN  {[requestCount |-> limiter.requestCount, fiveXxStreak |-> streak,
          latencies |-> latencies, stopped |-> limiter.stopped \/ broken \/ slower] :
         slower \in {b \in BOOLEAN : b => latencies = LatencyHistory}}
=============================================================================
