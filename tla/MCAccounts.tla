----------------------------- MODULE MCAccounts -----------------------------
(***************************************************************************)
(* Small instances of Accounts for TLC.                                    *)
(***************************************************************************)
EXTENDS Accounts, TLC

CONSTANTS e1, e2, p1, p2, r1, r2

MCEmails == {e1, e2}
MCOneEmail == {e1}
MCPasswords == {p1, p2}
MCRequests == {r1, r2}

\* Passwords, requests and, where there are two, addresses are interchangeable.
MCSymmetry == Permutations(MCPasswords) \cup Permutations(MCRequests)
MCAddressSymmetry == MCSymmetry \cup Permutations(MCEmails)

\* Requests about passwords, sessions and the end of an account.
SessionOperations ==
    {"register", "login", "logout", "revoke_others", "revoke_one", "change_password",
     "request_reset", "reset_password", "verify_email", "delete_account", "cleanup"}

\* Requests about addresses.
AddressOperations ==
    {"register", "login", "request_email_change", "confirm_email_change",
     "verify_email", "resend", "resend_by_address", "request_reset"}

=============================================================================
