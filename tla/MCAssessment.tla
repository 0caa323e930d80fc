---------------------------- MODULE MCAssessment ----------------------------
(* Pages of up to eight characters, alone, and pairs of pages of up to four; *)
(* and the rate limiter, which is as self-contained as they are.             *)
EXTENDS Assessment, RateLimiter

VARIABLE part       \* which of the two this behaviour is

MCInit == Init /\ LimiterInit /\ part \in {"assessment", "limiter"}

MCNext ==
    \/ part = "assessment" /\ Next /\ UNCHANGED <<limiterVars, part>>
    \/ part = "limiter" /\ LimiterNext /\ UNCHANGED <<vars, part>>

MCSpec == MCInit /\ [][MCNext]_<<vars, limiterVars, part>>

MCDocument == {<<ink>> : ink \in SUBSET (0..7)}
                \cup {<<a, b>> : a \in SUBSET (0..2), b \in SUBSET (1..4)}
\* 3401 of 8000 is 0.425125, where the score is half-way to the threshold; 5600 is 0.7.
MCConfidence == {0, 3400, 3401, 3402, 5599, 5600, 8000}
MCCertainty == {29, 90}
MCAmount == {100, 250}
MCDeduction == {-20, 0, 130}
=============================================================================
