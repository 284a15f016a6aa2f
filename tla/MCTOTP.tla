------------------------------- MODULE MCTOTP -------------------------------
(***************************************************************************)
(* Small instances of TOTP for TLC.                                        *)
(***************************************************************************)
EXTENDS TOTP, TLC

CONSTANTS r1, r2

MCRequests == {r1, r2}

\* Requests are interchangeable.
MCSymmetry == Permutations(MCRequests)

=============================================================================
