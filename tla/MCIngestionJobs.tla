--------------------------- MODULE MCIngestionJobs --------------------------
\* Small tenants: one or two document versions, two or three jobs.
EXTENDS IngestionJobs, TLC

CONSTANTS v1, v2, c1, c2, k1, k2, w1, w2

Request(k, v, c, m) == [key |-> k, version |-> v, config |-> c, max |-> m]

\* The second worker is not built for the second configuration.
Profiles == w1 :> {c1, c2} @@ w2 :> {c1}

\* One job with two attempts.
OneJob == {Request(k1, v1, c1, 2)}

\* Keys and work that collide.
CollidingRequests == {Request(k1, v1, c1, 1), Request(k1, v1, c2, 1),
                      Request(k2, v1, c1, 2)}

\* Interchangeable rows, calls and scans, for the runs of safety properties.
Symmetry == Permutations(Job) \cup Permutations(Client) \cup Permutations(ScanId)

\* min(900, 30 * 2^(attempts - 1)) s, in ticks.
Delays == [n \in 1 .. MaxAttempts |-> IF n = 1 THEN 1 ELSE 2]
=============================================================================
