------------------------------ MODULE MCPages -------------------------------
(* A small instance of Pages for TLC: visits of a browser with two tabs.   *)
EXTENDS Pages, TLC

CONSTANTS u1, u2, k1, k2, t1, t2

MCUsers == {u1, u2}
MCTokens == {k1, k2}
MCTabs == {t1, t2}

\* One account and its sessions; mailed links; signing in; what an account is used
\* for; two accounts.
Gets(paths) == {GET(p) : p \in paths}
Posts(paths) == {POST(p) : p \in paths}
Visit(accounts, count, first, second) ==
    [accounts |-> accounts, sessions |-> count,
     begins |-> (t1 :> first) @@ (t2 :> second)]
MCVisits ==
    {Visit(1, 2,
        Posts({"LoginPasskeyFinish", "Logout", "VerifyEmailResend", "ChangePassword",
               "AccountSessionsRevoke", "AccountSessionsRevokeOthers", "AccountDelete"})
           \cup Gets({"Home", "Logout"}),
        Posts({"LoginPasskeyFinish"}) \cup Gets({"Account"})),
     Visit(1, 1,
        Posts({"Register", "ForgotPassword", "ResetPassword", "ResendVerification"})
           \cup Gets({"ResetPassword?token", "ConfirmEmail", "NotFound"}),
        Posts({"LoginPasskeyFinish"})),
     Visit(1, 2,
        Posts({"Login", "AccountTwoFactorChallenge", "LoginPasskeyBegin"})
           \cup Gets({"AccountTwoFactorChallenge"}),
        Posts({"Login"})),
     Visit(1, 1,
        {POST(p) : p \in {q \in VerifiedAuthPaths : POST(q) \in Routes}}
           \cup {POST("LoginPasskeyFinish")},
        Gets({"Account"})),
     Visit(2, 2, Posts({"Login"}), Gets({"ConfirmEmailChange"}))}

\* Nothing, another site, a page for anonymous users, the page for unverified users
\* and a path without a page.
MCNexts == {"", "elsewhere", "Login", "VerifyEmail", "Logout"}

MCSymmetry == Permutations(MCUsers) \cup Permutations(MCTokens)

=============================================================================
