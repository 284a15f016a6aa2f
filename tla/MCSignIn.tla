------------------------------ MODULE MCSignIn ------------------------------
(* Small instances of SignIn for TLC.                                      *)
EXTENDS SignIn, TLC

CONSTANTS u1, u2, b1, b2, t1, t2, k1

MCUsers == {u1, u2}
MCBrowsers == {b1, b2}
MCTabs == {t1, t2}
MCPasskeys == {k1}

\* Two tabs of one browser, with 2FA and without passkeys; the same with passkeys
\* and without 2FA; two browsers, with passkeys.
MCSites ==
    {[passkeys |-> FALSE, totp |-> MCUsers, browser |-> [t \in MCTabs |-> b1]],
     [passkeys |-> TRUE, totp |-> {}, browser |-> [t \in MCTabs |-> b1]],
     [passkeys |-> TRUE, totp |-> {}, browser |-> (t1 :> b1) @@ (t2 :> b2)]}

MCSymmetry == Permutations(MCUsers)

=============================================================================
