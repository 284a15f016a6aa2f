------------------------------ MODULE Accounts ------------------------------
(***************************************************************************)
(* Accounts, sessions and mailed tokens: internal/auth/auth.go over        *)
(* internal/auth/auth_store.go and the tables users, sessions,             *)
(* email_verification_tokens, password_reset_tokens, email_change_tokens.  *)
(*                                                                         *)
(* A request is a process: it reads, works on what it read (hashing a      *)
(* password takes a while), and writes in a later statement or transaction.*)
(* Statements and transactions are atomic; between them other requests     *)
(* run, and a request may end at any point (error, disconnect, crash).     *)
(* Requests that would be refused change nothing and are left out: a wrong *)
(* password, an unknown address, an invalid token.                         *)
(*                                                                         *)
(* Times are abstracted to "expired or not": expires_at > now, which every *)
(* use of a token or session asks for, turns false at some moment and      *)
(* stays false; cleanup deletes by the complement (for sessions up to the  *)
(* second that CURRENT_TIMESTAMP drops).  Two-factor login and passkeys    *)
(* are not part of this module: no account has them.                       *)
(***************************************************************************)
EXTENDS Naturals

CONSTANTS
    Emails,         \* valid, normalised addresses
    Passwords,      \* acceptable passwords
    Requests,       \* requests that may be in flight together
    Operations,     \* the operations clients use, of AllOperations
    SendOldEmailNotice, \* whether a changed address is told of the change
    MaxUsers,       \* bound: largest user id
    MaxAccounts,    \* bound: accounts ever created
    MaxTokens,      \* bound: mailed tokens in the tables at one time
    MaxSessions     \* bound: sessions in the table at one time

AllOperations ==
    {"register", "login", "logout", "revoke_others", "revoke_one",
     "change_password", "request_email_change", "confirm_email_change",
     "request_reset", "reset_password", "verify_email", "resend",
     "resend_by_address", "delete_account", "cleanup"}

ASSUME AccountsAssumption ==
    /\ MaxUsers \in Nat /\ MaxAccounts \in Nat
    /\ MaxTokens \in Nat /\ MaxSessions \in Nat
    /\ Operations \subseteq AllOperations
    /\ SendOldEmailNotice \in BOOLEAN

VARIABLES
    users,      \* the table users, by id
    sessions,   \* the table sessions, by token
    tokens,     \* the three token tables, by token
    req,        \* req[r] : request r and what it has read
    created,    \* history: accounts created so far
    retired     \* history: user ids that belonged to a deleted account

vars == <<users, sessions, tokens, req, created, retired>>

-----------------------------------------------------------------------------
None == "none"

\* The mark of a column without an address is no address.
ASSUME EmailAssumption == None \notin Emails

UserIds == 1..MaxUsers
Kinds == {"verify", "reset", "change"}

\* A user row.  account numbers the account across reuses of its id; held,
\* proven and told are history: the addresses the account has had, those from
\* which a mailed token came back for it, and those that were sent the notice
\* of a change.
UserRow ==
    [email : Emails \cup {None}, password : Passwords \cup {None},
     verified : BOOLEAN, account : 0..MaxAccounts,
     held : SUBSET Emails, proven : SUBSET Emails, told : SUBSET Emails]

NoUser == [email |-> None, password |-> None, verified |-> FALSE,
           account |-> 0, held |-> {}, proven |-> {}, told |-> {}]

\* What a request remembers of the user row it read.
Credential == [email : Emails \cup {None}, password : Passwords \cup {None},
               account : 0..MaxAccounts]
NoCredential == [email |-> None, password |-> None, account |-> 0]
CredentialOf(u) == [email |-> users[u].email, password |-> users[u].password,
                    account |-> users[u].account]

\* A session row; login and late are history: the credential its login checked,
\* and whether that was out of date when the row was inserted.
SessionRow == [user_id : UserIds \cup {0}, expired : BOOLEAN,
               login : Credential, late : BOOLEAN]
NoSession == [user_id |-> 0, expired |-> FALSE, login |-> NoCredential, late |-> FALSE]

\* A token row of any of the three tables; new_email is a column of the email
\* changes only, to is the mailbox the token went to, applied is history: the
\* change the token stands for was made.
TokenRow == [kind : Kinds \cup {None}, user_id : UserIds \cup {0},
             new_email : Emails \cup {None}, to : Emails \cup {None},
             consumed : BOOLEAN, expired : BOOLEAN, applied : BOOLEAN]
NoToken == [kind |-> None, user_id |-> 0, new_email |-> None, to |-> None,
            consumed |-> FALSE, expired |-> FALSE, applied |-> FALSE]

Request == [op : AllOperations \cup {None},
            pc : {"idle", "authenticated", "check_email", "write"},
            user_id : UserIds \cup {0}, read : Credential,
            email : Emails \cup {None}, password : Passwords \cup {None},
            session : 0..MaxSessions, token : 0..MaxTokens]
NoRequest == [op |-> None, pc |-> "idle", user_id |-> 0, read |-> NoCredential,
              email |-> None, password |-> None, session |-> 0, token |-> 0]

\* The shape of the state; a row without an address is no row.
TypeOK ==
    /\ users \in [UserIds -> UserRow]
    /\ \A u \in UserIds : users[u].email = None => users[u] = NoUser
    /\ sessions \in [1..MaxSessions -> SessionRow]
    /\ tokens \in [1..MaxTokens -> TokenRow]
    /\ req \in [Requests -> Request]
    /\ created \in 0..MaxAccounts
    /\ retired \subseteq UserIds

-----------------------------------------------------------------------------
(* Queries.                                                                *)

UserExists(u) == u \in UserIds /\ users[u].email # None

HasEmail(u, e) == users[u].email = e

\* GetUserByEmail
EmailTaken(e) == \E u \in UserIds : HasEmail(u, e)

\* The id of an inserted user: largest id in the table plus one.
NextUserId(u) ==
    /\ \A v \in UserIds : UserExists(v) => v < u
    /\ u > 1 => UserExists(u - 1)

\* A fresh random session or mailed token: one that no row and no request has.
FreshSession(s) ==
    /\ sessions[s] = NoSession
    /\ \A r \in Requests : req[r].session # s
FreshToken(t) ==
    /\ tokens[t] = NoToken
    /\ \A r \in Requests : req[r].token # t
NewSession == CHOOSE s \in 1..MaxSessions : FreshSession(s)
NewToken == CHOOSE t \in 1..MaxTokens : FreshToken(t)

\* token_hash = ? AND consumed_at IS NULL AND expires_at > ?
Usable(t, kind) ==
    /\ tokens[t].kind = kind
    /\ ~tokens[t].consumed
    /\ ~tokens[t].expired

\* INSERT into a token table; the foreign key asks for the user.
InsertToken(kind, u, e, to) ==
    /\ UserExists(u)
    /\ \E t \in 1..MaxTokens : FreshToken(t)
    /\ tokens' = [tokens EXCEPT ![NewToken] =
                    [kind |-> kind, user_id |-> u, new_email |-> e, to |-> to,
                     consumed |-> FALSE, expired |-> FALSE, applied |-> FALSE]]

\* Mutant: the user's sessions are kept.
SessionsKept(u) == sessions

\* DeleteSessionsByUserID, and what the foreign key does when the user is deleted
WithoutSessionsOf(u) ==
    [s \in DOMAIN sessions |-> IF sessions[s].user_id = u THEN NoSession ELSE sessions[s]]

Begin(r, op) == req[r] = NoRequest /\ op \in Operations
End(r) == req' = [req EXCEPT ![r] = NoRequest]

-----------------------------------------------------------------------------

Init ==
    /\ users = [u \in UserIds |-> NoUser]
    /\ sessions = [s \in 1..MaxSessions |-> NoSession]
    /\ tokens = [t \in 1..MaxTokens |-> NoToken]
    /\ req = [r \in Requests |-> NoRequest]
    /\ created = 0
    /\ retired = {}

(* Register: look the address up, hash, then one transaction inserts the   *)
(* user and its verification token and enqueues the mail.                  *)

RegisterCheck(r, e, p) ==
    /\ Begin(r, "register")
    /\ ~EmailTaken(e)
    /\ req' = [req EXCEPT ![r] = [NoRequest EXCEPT !.op = "register", !.pc = "write",
                                                   !.email = e, !.password = p]]
    /\ UNCHANGED <<users, sessions, tokens, created, retired>>

\* The unique constraint turns a lost race into a neutral success.
CreateUserWithEmailVerification(r) ==
    /\ req[r].op = "register" /\ req[r].pc = "write"
    /\ \/ /\ EmailTaken(req[r].email)
          /\ UNCHANGED <<users, tokens, created>>
       \/ /\ ~EmailTaken(req[r].email)
          /\ created < MaxAccounts
          /\ \E u \in UserIds :
                /\ NextUserId(u)
                /\ users' = [users EXCEPT ![u] =
                               [email |-> req[r].email, password |-> req[r].password,
                                verified |-> FALSE, account |-> created + 1,
                                held |-> {req[r].email}, proven |-> {}, told |-> {}]]
                /\ \E t \in 1..MaxTokens : FreshToken(t)
                /\ tokens' = [tokens EXCEPT ![NewToken] =
                                [kind |-> "verify", user_id |-> u, new_email |-> None,
                                 to |-> req[r].email, consumed |-> FALSE,
                                 expired |-> FALSE, applied |-> FALSE]]
          /\ created' = created + 1
    /\ End(r)
    /\ UNCHANGED <<sessions, retired>>

(* Login: read the user and verify the password, then insert the session.  *)

LoginVerify(r, e) ==
    /\ Begin(r, "login")
    /\ \E u \in UserIds :
          /\ HasEmail(u, e)
          /\ req' = [req EXCEPT ![r] = [NoRequest EXCEPT !.op = "login", !.pc = "write",
                                          !.user_id = u, !.read = CredentialOf(u)]]
    /\ UNCHANGED <<users, sessions, tokens, created, retired>>

CreateSession(r) ==
    /\ req[r].op = "login" /\ req[r].pc = "write"
    /\ UserExists(req[r].user_id)
    /\ \E s \in 1..MaxSessions : FreshSession(s)
    /\ sessions' = [sessions EXCEPT ![NewSession] =
                      [user_id |-> req[r].user_id, expired |-> FALSE,
                       login |-> req[r].read,
                       late |-> req[r].read # CredentialOf(req[r].user_id)]]
    /\ End(r)
    /\ UNCHANGED <<users, tokens, created, retired>>

Logout(s) ==
    /\ "logout" \in Operations
    /\ sessions[s] # NoSession
    /\ sessions' = [sessions EXCEPT ![s] = NoSession]
    /\ UNCHANGED <<users, tokens, req, created, retired>>

(* Authenticated requests: the session middleware resolves the session     *)
(* token to a user id first.                                               *)

AuthenticatedOperations ==
    {"revoke_others", "revoke_one", "change_password", "request_email_change",
     "resend", "delete_account"}

\* GetUserBySessionTokenHash finds the session.
ValidSession(s) == sessions[s] # NoSession /\ ~sessions[s].expired

\* requireAuth lets any user through, requireVerifiedAuth a verified one; only
\* the route for another verification mail is behind the former.
Admitted(u, op) == op = "resend" \/ users[u].verified

Authenticate(r, op, s) ==
    /\ op \in AuthenticatedOperations
    /\ Begin(r, op)
    /\ ValidSession(s)
    /\ Admitted(sessions[s].user_id, op)
    /\ req' = [req EXCEPT ![r] = [NoRequest EXCEPT !.op = op, !.pc = "authenticated",
                                    !.user_id = sessions[s].user_id, !.session = s]]
    /\ UNCHANGED <<users, sessions, tokens, created, retired>>

\* DELETE ... WHERE user_id = ? AND token_hash <> ?
RevokeOtherSessions(r) ==
    /\ req[r].op = "revoke_others" /\ req[r].pc = "authenticated"
    /\ sessions' = [s \in DOMAIN sessions |->
                      IF sessions[s].user_id = req[r].user_id /\ s # req[r].session
                      THEN NoSession ELSE sessions[s]]
    /\ End(r)
    /\ UNCHANGED <<users, tokens, created, retired>>

\* The same for one session the client names, of any user.
RevokeSessionByID(r, s) ==
    /\ req[r].op = "revoke_one" /\ req[r].pc = "authenticated"
    /\ sessions' = IF sessions[s].user_id = req[r].user_id /\ s # req[r].session
                   THEN [sessions EXCEPT ![s] = NoSession] ELSE sessions
    /\ End(r)
    /\ UNCHANGED <<users, tokens, created, retired>>

\* Each begins with GetUserByID and, but for a resend, the check of the current
\* password; what the request read of the user stays with it.
FoundUser(r, op) ==
    /\ req[r].op = op /\ req[r].pc = "authenticated"
    /\ UserExists(req[r].user_id)

Found(r, pc, e, p) ==
    req' = [req EXCEPT ![r] = [op |-> req[r].op, pc |-> pc, user_id |-> req[r].user_id,
                               read |-> CredentialOf(req[r].user_id), email |-> e,
                               password |-> p, session |-> req[r].session,
                               token |-> req[r].token]]

ChangePassword(r, p) ==
    /\ FoundUser(r, "change_password")
    /\ p # users[req[r].user_id].password
    /\ Found(r, "write", None, p)
    /\ UNCHANGED <<users, sessions, tokens, created, retired>>

RequestEmailChange(r, e) ==
    /\ FoundUser(r, "request_email_change")
    /\ e # users[req[r].user_id].email
    /\ Found(r, "check_email", e, None)
    /\ UNCHANGED <<users, sessions, tokens, created, retired>>

ResendVerificationEmail(r) ==
    /\ FoundUser(r, "resend")
    /\ ~users[req[r].user_id].verified
    /\ Found(r, "write", users[req[r].user_id].email, None)
    /\ UNCHANGED <<users, sessions, tokens, created, retired>>

CheckDeletePassword(r) ==
    /\ FoundUser(r, "delete_account")
    /\ Found(r, "write", None, None)
    /\ UNCHANGED <<users, sessions, tokens, created, retired>>

\* RequestEmailChange goes on only if the new address is free: GetUserByEmail is
\* a second statement.
CheckNewEmail(r) ==
    /\ req[r].pc = "check_email"
    /\ IF EmailTaken(req[r].email) THEN End(r)
       ELSE req' = [req EXCEPT ![r].pc = "write"]
    /\ UNCHANGED <<users, sessions, tokens, created, retired>>

(* Requests for mail that name an address.                                 *)

RequestPasswordReset(r, e) ==
    /\ Begin(r, "request_reset")
    /\ \E u \in UserIds :
          /\ HasEmail(u, e)
          /\ req' = [req EXCEPT ![r] = [NoRequest EXCEPT !.op = "request_reset",
                       !.pc = "write", !.user_id = u, !.read = CredentialOf(u), !.email = e]]
    /\ UNCHANGED <<users, sessions, tokens, created, retired>>

\* Finds the id by address; ResendVerificationEmail then reads the user again.
ResendVerificationEmailByAddress(r, e) ==
    /\ Begin(r, "resend_by_address")
    /\ \E u \in UserIds :
          /\ HasEmail(u, e) /\ ~users[u].verified
          /\ req' = [req EXCEPT ![r] = [NoRequest EXCEPT !.op = "resend",
                       !.pc = "authenticated", !.user_id = u]]
    /\ UNCHANGED <<users, sessions, tokens, created, retired>>

\* Mutant: the link that confirms a new address is a verification link.
TokenKindByMail(op) == IF op = "request_reset" THEN "reset" ELSE "verify"

\* The table of the token an operation mails.
TokenKind(op) ==
    CASE op = "request_reset" -> "reset"
      [] op = "resend" -> "verify"
      [] op = "request_email_change" -> "change"

\* The address a token row stores: that of a change; a link of the others
\* stands for the user alone.
NewEmail(r) == IF req[r].op = "request_email_change" THEN req[r].email ELSE None

\* Mutant: the mail goes to the user who was read.
RecipientAsRead(r) == req[r].read.email

\* The mailbox: the address asked for, or the user's.
Recipient(r) == req[r].email

\* The transaction that inserts the token and enqueues its mail.
InsertTokenAndEnqueue(r) ==
    /\ req[r].op \in {"request_reset", "resend", "request_email_change"}
    /\ req[r].pc = "write"
    /\ InsertToken(TokenKind(req[r].op), req[r].user_id, NewEmail(r), Recipient(r))
    /\ End(r)
    /\ UNCHANGED <<users, sessions, created, retired>>

(* Password reset: the token is consumed by a statement of its own; the    *)
(* password is hashed and written afterwards.                              *)

ConsumePasswordResetToken(r, t, p) ==
    /\ Begin(r, "reset_password")
    /\ Usable(t, "reset")
    /\ tokens' = [tokens EXCEPT ![t].consumed = TRUE]
    /\ req' = [req EXCEPT ![r] = [NoRequest EXCEPT !.op = "reset_password", !.pc = "write",
                                    !.user_id = tokens[t].user_id, !.password = p,
                                    !.token = t]]
    /\ UNCHANGED <<users, sessions, created, retired>>

\* Mutant: the row is written whether or not the user is still there.
UpsertUserPasswordHash(u, p) == [users EXCEPT ![u].password = p]

UpdateUserPasswordHash(u, p) ==
    IF UserExists(u) THEN [users EXCEPT ![u].password = p] ELSE users

\* One transaction for a password change and for a reset.
SetPasswordAndRevokeSessions(r) ==
    LET u == req[r].user_id IN
    /\ req[r].op \in {"change_password", "reset_password"} /\ req[r].pc = "write"
    /\ users' = UpdateUserPasswordHash(u, req[r].password)
    /\ sessions' = WithoutSessionsOf(u)
    /\ tokens' = IF req[r].op = "reset_password" /\ tokens[req[r].token].kind = "reset"
                 THEN [tokens EXCEPT ![req[r].token].applied = TRUE] ELSE tokens
    /\ End(r)
    /\ UNCHANGED <<created, retired>>

(* Links: one transaction each.                                            *)

VerifyEmailByTokenHash(t) ==
    LET u == tokens[t].user_id IN
    /\ "verify_email" \in Operations
    /\ Usable(t, "verify")
    /\ tokens' = [tokens EXCEPT ![t].consumed = TRUE, ![t].applied = TRUE]
    /\ users' = [users EXCEPT ![u].verified = TRUE, ![u].proven = @ \cup {tokens[t].to}]
    /\ UNCHANGED <<sessions, req, created, retired>>

\* Mutant: the lookup made when the change was requested is trusted.
AddressAssumedFree(u, e) == TRUE

\* The unique column: no other user has the address.
AddressFree(u, e) == \A v \in UserIds \ {u} : ~HasEmail(v, e)

\* Mutant: the user is read after the update.
NewEmailNotice(u, e) == IF SendOldEmailNotice THEN {e} ELSE {}

\* Who is told that user u's address becomes e.
OldEmailNotice(u, e) == IF SendOldEmailNotice THEN {users[u].email} ELSE {}

\* A taken address rolls the transaction back and leaves the token unconsumed.
ConfirmEmailChange(t) ==
    LET u == tokens[t].user_id
        e == tokens[t].new_email
    IN
    /\ "confirm_email_change" \in Operations
    /\ Usable(t, "change")
    /\ AddressFree(u, e)
    /\ tokens' = [tokens EXCEPT ![t].consumed = TRUE, ![t].applied = TRUE]
    /\ users' = [users EXCEPT ![u].email = e, ![u].verified = TRUE,
                              ![u].held = @ \cup {e}, ![u].proven = @ \cup {tokens[t].to},
                              ![u].told = @ \cup OldEmailNotice(u, e)]
    /\ sessions' = WithoutSessionsOf(u)
    /\ UNCHANGED <<req, created, retired>>

\* The foreign keys cascade the delete to sessions and tokens.
DeleteAccount(r) ==
    LET u == req[r].user_id IN
    /\ req[r].op = "delete_account" /\ req[r].pc = "write"
    /\ users' = [users EXCEPT ![u] = NoUser]
    /\ sessions' = WithoutSessionsOf(u)
    /\ tokens' = [t \in DOMAIN tokens |->
                    IF tokens[t].user_id = u THEN NoToken ELSE tokens[t]]
    /\ retired' = retired \cup {u}
    /\ End(r)
    /\ UNCHANGED created

(* The request ends early: an error, a disconnected client, a crash.       *)

Abort(r) ==
    /\ req[r] # NoRequest
    /\ End(r)
    /\ UNCHANGED <<users, sessions, tokens, created, retired>>

(* Time passes expires_at; the cleanup job deletes what is past use.       *)

Expire ==
    /\ \/ /\ \E s \in DOMAIN sessions :
                /\ ValidSession(s)
                /\ sessions' = [sessions EXCEPT ![s].expired = TRUE]
          /\ UNCHANGED tokens
       \/ /\ \E t \in DOMAIN tokens :
                /\ tokens[t] # NoToken /\ ~tokens[t].expired
                /\ tokens' = [tokens EXCEPT ![t].expired = TRUE]
          /\ UNCHANGED sessions
    /\ UNCHANGED <<users, req, created, retired>>

\* A delete that selects no row is no step.
DeleteExpiredSessions ==
    /\ "cleanup" \in Operations
    /\ \E s \in DOMAIN sessions : sessions[s].expired
    /\ sessions' = [s \in DOMAIN sessions |->
                      IF sessions[s].expired THEN NoSession ELSE sessions[s]]
    /\ UNCHANGED <<users, tokens, req, created, retired>>

\* One prune statement: the expired rows of a table, and the consumed ones that
\* are older than the retention.
PruneTokens(kind, old) ==
    LET gone == {t \in DOMAIN tokens : tokens[t].kind = kind /\ tokens[t].expired} \cup old
    IN
    /\ "cleanup" \in Operations
    /\ \A t \in old : tokens[t].kind = kind /\ tokens[t].consumed
    /\ gone # {}
    /\ tokens' = [t \in DOMAIN tokens |-> IF t \in gone THEN NoToken ELSE tokens[t]]
    /\ UNCHANGED <<users, sessions, req, created, retired>>

-----------------------------------------------------------------------------

Next ==
    \/ \E r \in Requests :
          \/ \E e \in Emails, p \in Passwords : RegisterCheck(r, e, p)
          \/ CreateUserWithEmailVerification(r)
          \/ \E e \in Emails : LoginVerify(r, e)
          \/ CreateSession(r)
          \/ \E op \in AuthenticatedOperations, s \in DOMAIN sessions : Authenticate(r, op, s)
          \/ RevokeOtherSessions(r)
          \/ \E s \in DOMAIN sessions : RevokeSessionByID(r, s)
          \/ \E p \in Passwords : ChangePassword(r, p)
          \/ \E e \in Emails : RequestEmailChange(r, e)
          \/ ResendVerificationEmail(r)
          \/ CheckDeletePassword(r)
          \/ CheckNewEmail(r)
          \/ \E e \in Emails : RequestPasswordReset(r, e)
          \/ \E e \in Emails : ResendVerificationEmailByAddress(r, e)
          \/ InsertTokenAndEnqueue(r)
          \/ \E t \in DOMAIN tokens, p \in Passwords : ConsumePasswordResetToken(r, t, p)
          \/ SetPasswordAndRevokeSessions(r)
          \/ DeleteAccount(r)
          \/ Abort(r)
    \/ \E s \in DOMAIN sessions : Logout(s)
    \/ \E t \in DOMAIN tokens : VerifyEmailByTokenHash(t) \/ ConfirmEmailChange(t)
    \/ Expire
    \/ DeleteExpiredSessions
    \/ \E kind \in Kinds, old \in SUBSET DOMAIN tokens : PruneTokens(kind, old)

Spec == Init /\ [][Next]_vars

-----------------------------------------------------------------------------
(* Correctness.                                                            *)

\* An address names at most one account, although registration and email change
\* look the address up long before they write it.
EmailsAreUnique ==
    \A u, v \in UserIds : UserExists(u) /\ users[u].email = users[v].email => u = v

\* A session rests on the account's present address and password, or it was
\* already out of date when its login, overtaken by a password or address
\* change, inserted it: whatever was a good session is revoked by the change.
StaleSessionsWereLate ==
    \A s \in DOMAIN sessions :
       sessions[s] # NoSession =>
          \/ sessions[s].login = CredentialOf(sessions[s].user_id)
          \/ sessions[s].late

\* A verified account has proved its present address: a token mailed there came
\* back for it.  (Ids that belonged to a deleted account are left out: a request
\* that read the deleted account may still mail a token for the reused id.)
VerifiedMeansProven ==
    \A u \in UserIds \ retired : users[u].verified => users[u].email \in users[u].proven

\* Verification and reset tokens are mailed only to an address the account has
\* or had, however requests and address changes interleave (same exception).
MailGoesToTheAccount ==
    \A t \in DOMAIN tokens :
       tokens[t].kind \in {"verify", "reset"} /\ tokens[t].user_id \notin retired =>
          tokens[t].to \in users[tokens[t].user_id].held

\* Every address the account has given up was sent the notice of the change,
\* although the old address is no longer in the table when the mail is enqueued.
FormerAddressesWereTold ==
    SendOldEmailNotice =>
       \A u \in UserIds : UserExists(u) => users[u].held \ {users[u].email} \subseteq users[u].told

\* Every session and every token belongs to a user of the table, whatever a
\* deletion overtakes: the cascade leaves none behind and the foreign key lets
\* no request that read the user earlier insert one.
RowsHaveOwners ==
    /\ \A s \in DOMAIN sessions : sessions[s] # NoSession => UserExists(sessions[s].user_id)
    /\ \A t \in DOMAIN tokens : tokens[t] # NoToken => UserExists(tokens[t].user_id)

\* A consumed reset token has set the password, or is about to.
ConsumedMeansReset ==
    \A t \in DOMAIN tokens :
       tokens[t].kind = "reset" /\ tokens[t].consumed =>
          tokens[t].applied \/ \E r \in Requests : req[r].token = t

\* A session belongs to the account whose login created it.
SessionsBelongToTheirAccount ==
    \A s \in DOMAIN sessions :
       sessions[s] # NoSession =>
          sessions[s].login.account = users[sessions[s].user_id].account

=============================================================================
