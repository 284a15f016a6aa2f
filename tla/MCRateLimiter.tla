---------------------------- MODULE MCRateLimiter ----------------------------
(***************************************************************************)
(* Small instances of RateLimiter for TLC.                                 *)
(***************************************************************************)
EXTENDS RateLimiter, TLC

CONSTANTS i1, e1, r1, r2

MCIPs == {i1}
MCEmails == {e1}
MCRequests == {r1, r2}

\* A ceiling of two and a narrow limit of one, over three ticks: the smallest at
\* which a client meets either first.
MCMaxRequests == [p \in Policies |-> IF p = "ip" THEN 2 ELSE 1]
MCWindow == [p \in Policies |-> 3]

\* Requests are interchangeable.
MCSymmetry == Permutations(MCRequests)

=============================================================================
