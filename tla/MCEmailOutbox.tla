--------------------------- MODULE MCEmailOutbox ----------------------------
(***************************************************************************)
(* Small instances of EmailOutbox for TLC.                                 *)
(***************************************************************************)
EXTENDS EmailOutbox, TLC

CONSTANTS m1, m2, w1, w2

MCMessages == {m1, m2}
MCWorkers == {w1, w2}

\* Workers and messages are interchangeable; only safety runs use this.
MCSymmetry == Permutations(MCMessages) \cup Permutations(MCWorkers)

=============================================================================
