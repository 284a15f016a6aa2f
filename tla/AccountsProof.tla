--------------------------- MODULE AccountsProof ----------------------------
(***************************************************************************)
(* Proofs about Accounts, for any addresses, passwords and operations, any *)
(* number of requests in flight and any bounds on users, accounts, tokens  *)
(* and sessions.                                                           *)
(***************************************************************************)
EXTENDS Accounts, TLAPS

-----------------------------------------------------------------------------
(* Types.  TypeOK is not inductive: a statement writes what its request    *)
(* has read before, into the row of a user that must be there.             *)

\* The requests that are about to mail a token to the user's address.
Mailing(q) == q.op \in {"resend", "request_reset"} /\ q.pc = "write"

\* What a request has in hand at each point.
WellFormed(q) ==
    /\ q \in Request
    /\ q.op \notin {None, "register"} => q.user_id \in UserIds
    /\ q.op = "register" \/ Mailing(q) => q.email \in Emails
    /\ q.op = "request_email_change" /\ q.pc # "authenticated" => q.email \in Emails
    /\ q.op \in {"register", "reset_password"} => q.password \in Passwords
    /\ q.op = "change_password" /\ q.pc = "write" => q.password \in Passwords
    /\ q.op = "reset_password" => q.token \in 1..MaxTokens
    /\ q.pc = "check_email" => q.op = "request_email_change"

\* A token is addressed, and one that changes an address has the new one.
TokenShape(k) ==
    /\ k = NoToken <=> k.kind = None
    /\ k # NoToken => k.to \in Emails
    /\ k.kind = "change" => k.new_email \in Emails /\ k.to = k.new_email

TypeInv ==
    /\ TypeOK
    /\ RowsHaveOwners
    /\ \A r \in Requests : WellFormed(req[r])
    /\ \A t \in DOMAIN tokens : TokenShape(tokens[t])

\* The tables' domains and rows, as the steps below need them.
LEMMA TypeFacts ==
    ASSUME TypeInv
    PROVE  /\ DOMAIN users = UserIds /\ DOMAIN sessions = 1..MaxSessions
           /\ DOMAIN tokens = 1..MaxTokens /\ DOMAIN req = Requests
           /\ \A u \in UserIds : users[u] \in UserRow /\ CredentialOf(u) \in Credential
           /\ \A s \in 1..MaxSessions : sessions[s] \in SessionRow
           /\ \A t \in 1..MaxTokens : tokens[t] \in TokenRow /\ TokenShape(tokens[t])
           /\ \A r \in Requests : req[r] \in Request /\ WellFormed(req[r])
           /\ created \in 0..MaxAccounts /\ retired \subseteq UserIds
  <1>1. /\ DOMAIN users = UserIds /\ DOMAIN sessions = 1..MaxSessions
        /\ DOMAIN tokens = 1..MaxTokens /\ DOMAIN req = Requests
        /\ \A u \in UserIds : users[u] \in UserRow
        /\ \A s \in 1..MaxSessions : sessions[s] \in SessionRow
        /\ \A t \in 1..MaxTokens : tokens[t] \in TokenRow
        /\ \A r \in Requests : req[r] \in Request
        /\ created \in 0..MaxAccounts /\ retired \subseteq UserIds
    BY DEF TypeInv, TypeOK
  <1>2. \A u \in UserIds : CredentialOf(u) \in Credential
    BY <1>1 DEF CredentialOf, UserRow, Credential
  <1> QED
    BY <1>1, <1>2 DEF TypeInv

\* The rows that stand for no row have the types of the rows.
LEMMA EmptyRows ==
    /\ NoUser \in UserRow /\ NoCredential \in Credential
    /\ NoSession \in SessionRow /\ NoToken \in TokenRow /\ TokenShape(NoToken)
    /\ WellFormed(NoRequest)
  <1>1. 0 \in 0..MaxAccounts /\ 0 \in 0..MaxSessions /\ 0 \in 0..MaxTokens
    BY AccountsAssumption
  <1>2. NoUser \in UserRow /\ NoCredential \in Credential
    BY <1>1 DEF NoUser, UserRow, NoCredential, Credential
  <1>3. NoSession \in SessionRow /\ NoToken \in TokenRow
    BY <1>2 DEF NoSession, SessionRow, NoToken, TokenRow
  <1>4. TokenShape(NoToken)
    BY DEF TokenShape, NoToken, None
  <1>5. NoRequest \in Request
    BY <1>1, <1>2 DEF NoRequest, Request
  <1>6. WellFormed(NoRequest)
    BY <1>5 DEF WellFormed, NoRequest, None, Mailing
  <1> QED
    BY <1>2, <1>3, <1>4, <1>6

\* An empty database without requests.
LEMMA InitTypeInv == Init => TypeInv
  <1> SUFFICES ASSUME Init PROVE TypeInv
    OBVIOUS
  <1>1. TypeOK
    BY EmptyRows, AccountsAssumption DEF Init, TypeOK, WellFormed
  <1>2. RowsHaveOwners
    BY DEF Init, RowsHaveOwners
  <1> QED
    BY <1>1, <1>2, EmptyRows DEF Init, TypeInv

-----------------------------------------------------------------------------
(* The kinds of steps there are: those that only read, those that only     *)
(* drop sessions or tokens, and the writes, which stay as they are.        *)

\* A request goes on with what it has read, or ends.
ReadStep(r, q) ==
    /\ req' = [req EXCEPT ![r] = q]
    /\ WellFormed(q)
    /\ Mailing(q) => UserExists(q.user_id) /\ q.email = users[q.user_id].email
    /\ UNCHANGED <<users, sessions, tokens, created, retired>>

Ending == req' = req \/ \E r \in Requests : End(r)

\* Sessions end or expire.
FewerSessions ==
    /\ sessions' = [s \in DOMAIN sessions |-> sessions'[s]]
    /\ \A s \in DOMAIN sessions :
          \/ sessions'[s] \in {sessions[s], NoSession}
          \/ /\ sessions[s] # NoSession
             /\ sessions'[s] = [sessions[s] EXCEPT !.expired = TRUE]
    /\ Ending
    /\ UNCHANGED <<users, tokens, created, retired>>

\* Tokens are pruned or expire.
FewerTokens ==
    /\ tokens' = [t \in DOMAIN tokens |-> tokens'[t]]
    /\ \A t \in DOMAIN tokens :
          \/ tokens'[t] \in {tokens[t], NoToken}
          \/ /\ tokens[t] # NoToken
             /\ tokens'[t] = [tokens[t] EXCEPT !.expired = TRUE]
    /\ UNCHANGED <<users, sessions, req, created, retired>>

Write ==
    \/ \E r \in Requests :
          \/ CreateUserWithEmailVerification(r)
          \/ CreateSession(r)
          \/ InsertTokenAndEnqueue(r)
          \/ \E t \in DOMAIN tokens, p \in Passwords : ConsumePasswordResetToken(r, t, p)
          \/ SetPasswordAndRevokeSessions(r)
          \/ DeleteAccount(r)
    \/ \E t \in DOMAIN tokens : VerifyEmailByTokenHash(t) \/ ConfirmEmailChange(t)

\* Every step is of one of these kinds.
LEMMA StepKinds ==
    ASSUME TypeInv, [Next]_vars
    PROVE  \/ UNCHANGED vars
           \/ \E r \in Requests : \E q : ReadStep(r, q)
           \/ FewerSessions
           \/ FewerTokens
           \/ Write
  <1>a. /\ DOMAIN users = UserIds /\ DOMAIN sessions = 1..MaxSessions
        /\ DOMAIN tokens = 1..MaxTokens /\ DOMAIN req = Requests
        /\ \A u \in UserIds : users[u] \in UserRow /\ CredentialOf(u) \in Credential
        /\ \A s \in 1..MaxSessions : sessions[s] \in SessionRow
        /\ \A r \in Requests : req[r] \in Request /\ WellFormed(req[r])
    BY TypeFacts
  <1>b. 0 \in 0..MaxAccounts /\ 0 \in 0..MaxSessions /\ 0 \in 0..MaxTokens
    BY AccountsAssumption
  <1>c. WellFormed(NoRequest) /\ NoRequest \in Request /\ ~Mailing(NoRequest)
    BY EmptyRows DEF WellFormed, Mailing, NoRequest
  <1>1. ASSUME NEW r \in Requests, NEW e \in Emails, NEW p \in Passwords, RegisterCheck(r, e, p)
        PROVE  \E q : ReadStep(r, q)
    <2> DEFINE q == [NoRequest EXCEPT !.op = "register", !.pc = "write",
                                      !.email = e, !.password = p]
    <2>1. /\ q \in Request /\ q.op = "register" /\ q.pc = "write"
          /\ q.email = e /\ q.password = p
      BY <1>b, <1>c DEF NoRequest, Request, AllOperations
    <2>2. WellFormed(q) /\ ~Mailing(q)
      BY <2>1 DEF WellFormed, Mailing
    <2> QED
      BY <1>1, <2>2 DEF RegisterCheck, ReadStep
  <1>2. ASSUME NEW r \in Requests, NEW e \in Emails, LoginVerify(r, e)
        PROVE  \E q : ReadStep(r, q)
    <2>1. PICK u \in UserIds :
             req' = [req EXCEPT ![r] = [NoRequest EXCEPT !.op = "login", !.pc = "write",
                                          !.user_id = u, !.read = CredentialOf(u)]]
      BY <1>2 DEF LoginVerify
    <2> DEFINE q == [NoRequest EXCEPT !.op = "login", !.pc = "write",
                                      !.user_id = u, !.read = CredentialOf(u)]
    <2>2. q \in Request /\ q.op = "login" /\ q.pc = "write" /\ q.user_id = u
      BY <1>a, <1>c DEF NoRequest, Request, AllOperations
    <2>3. WellFormed(q) /\ ~Mailing(q)
      BY <2>2 DEF WellFormed, Mailing
    <2> QED
      BY <1>2, <2>1, <2>3 DEF LoginVerify, ReadStep
  <1>3. ASSUME NEW r \in Requests, NEW op \in AuthenticatedOperations,
               NEW s \in DOMAIN sessions, Authenticate(r, op, s)
        PROVE  \E q : ReadStep(r, q)
    <2> DEFINE q == [NoRequest EXCEPT !.op = op, !.pc = "authenticated",
                                      !.user_id = sessions[s].user_id, !.session = s]
    <2>1. sessions[s].user_id \in UserIds /\ op \in AllOperations /\ s \in 0..MaxSessions
      BY <1>3, <1>a DEF Authenticate, ValidSession, TypeInv, RowsHaveOwners, UserExists,
                        AuthenticatedOperations, AllOperations
    <2>2. /\ q \in Request /\ q.op = op /\ q.pc = "authenticated"
          /\ q.user_id \in UserIds
      BY <2>1, <1>c DEF NoRequest, Request
    <2>3. WellFormed(q) /\ ~Mailing(q)
      BY <2>2 DEF WellFormed, Mailing, AuthenticatedOperations
    <2> QED
      BY <1>3, <2>3 DEF Authenticate, ReadStep
  <1>4. ASSUME NEW r \in Requests, NEW pc \in {"check_email", "write"},
               NEW e \in Emails \cup {None}, NEW p \in Passwords \cup {None},
               NEW op, FoundUser(r, op), Found(r, pc, e, p),
               pc = "check_email" => op = "request_email_change",
               op = "request_email_change" => e \in Emails,
               op = "change_password" => p \in Passwords,
               op \notin {"register", "reset_password"},
               op \in {"resend", "request_reset"} => e = users[req[r].user_id].email,
               UNCHANGED <<users, sessions, tokens, created, retired>>
        PROVE  \E q : ReadStep(r, q)
    <2> DEFINE q == [op |-> req[r].op, pc |-> pc, user_id |-> req[r].user_id,
                     read |-> CredentialOf(req[r].user_id), email |-> e,
                     password |-> p, session |-> req[r].session, token |-> req[r].token]
    <2>1. UserExists(req[r].user_id) /\ req[r].op = op
      BY <1>4 DEF FoundUser
    <2>2. CredentialOf(req[r].user_id) \in Credential /\ req[r] \in Request
      BY <1>a, <2>1 DEF UserExists
    <2>3. /\ q \in Request /\ q.op = op /\ q.pc = pc /\ q.user_id = req[r].user_id
          /\ q.email = e /\ q.password = p
      BY <2>1, <2>2 DEF Request
    <2>4. op \in {"resend", "request_reset"} => e \in Emails
      BY <1>4, <1>a, <2>1 DEF UserExists, UserRow
    <2> HIDE DEF q
    <2>5. WellFormed(q)
      BY <1>4, <2>1, <2>3, <2>4 DEF WellFormed, Mailing, UserExists
    <2>6. Mailing(q) => UserExists(q.user_id) /\ q.email = users[q.user_id].email
      BY <1>4, <2>1, <2>3 DEF Mailing
    <2>7. req' = [req EXCEPT ![r] = q]
      BY <1>4 DEF Found, q
    <2> QED
      BY <1>4, <2>5, <2>6, <2>7 DEF ReadStep
  <1>5. ASSUME NEW r \in Requests,
               \/ \E p \in Passwords : ChangePassword(r, p)
               \/ \E e \in Emails : RequestEmailChange(r, e)
               \/ ResendVerificationEmail(r)
               \/ CheckDeletePassword(r)
        PROVE  \E q : ReadStep(r, q)
    <2>1. ASSUME NEW p \in Passwords, ChangePassword(r, p)
          PROVE  \E q : ReadStep(r, q)
      BY <2>1, <1>4 DEF ChangePassword
    <2>2. ASSUME NEW e \in Emails, RequestEmailChange(r, e)
          PROVE  \E q : ReadStep(r, q)
      BY <2>2, <1>4 DEF RequestEmailChange
    <2>3. CASE ResendVerificationEmail(r)
      <3>1. users[req[r].user_id].email \in Emails \cup {None}
        BY <2>3, <1>a DEF ResendVerificationEmail, FoundUser, UserExists, UserRow
      <3> QED
        BY <2>3, <3>1, <1>4 DEF ResendVerificationEmail
    <2>4. CASE CheckDeletePassword(r)
      BY <2>4, <1>4 DEF CheckDeletePassword
    <2> QED
      BY <1>5, <2>1, <2>2, <2>3, <2>4
  <1>6. ASSUME NEW r \in Requests, CheckNewEmail(r)
        PROVE  \E q : ReadStep(r, q)
    <2>1. CASE EmailTaken(req[r].email)
      BY <1>6, <2>1, <1>c DEF CheckNewEmail, End, ReadStep
    <2>2. CASE ~EmailTaken(req[r].email)
      <3> DEFINE q == [req[r] EXCEPT !.pc = "write"]
      <3>1. req' = [req EXCEPT ![r] = q]
        BY <1>6, <2>2, <1>a DEF CheckNewEmail
      <3>2. /\ q \in Request /\ q.op = "request_email_change" /\ q.email \in Emails
            /\ q.user_id \in UserIds
        BY <1>6, <1>a DEF CheckNewEmail, WellFormed, Request, None
      <3>3. WellFormed(q) /\ ~Mailing(q)
        BY <3>2 DEF WellFormed, Mailing
      <3> QED
        BY <1>6, <3>1, <3>3 DEF CheckNewEmail, ReadStep
    <2> QED
      BY <2>1, <2>2
  <1>7. ASSUME NEW r \in Requests, NEW e \in Emails, RequestPasswordReset(r, e)
        PROVE  \E q : ReadStep(r, q)
    <2>1. PICK u \in UserIds :
             /\ HasEmail(u, e)
             /\ req' = [req EXCEPT ![r] = [NoRequest EXCEPT !.op = "request_reset",
                          !.pc = "write", !.user_id = u, !.read = CredentialOf(u), !.email = e]]
      BY <1>7 DEF RequestPasswordReset
    <2> DEFINE q == [NoRequest EXCEPT !.op = "request_reset", !.pc = "write",
                          !.user_id = u, !.read = CredentialOf(u), !.email = e]
    <2>2. /\ q \in Request /\ q.op = "request_reset" /\ q.pc = "write" /\ q.user_id = u
          /\ q.email = e
      BY <1>a, <1>c DEF NoRequest, Request, AllOperations
    <2>3. WellFormed(q)
      BY <2>2 DEF WellFormed, Mailing
    <2>4. UserExists(u) /\ users[u].email = e
      BY <2>1, EmailAssumption DEF HasEmail, UserExists
    <2> QED
      BY <1>7, <2>1, <2>2, <2>3, <2>4 DEF RequestPasswordReset, ReadStep
  <1>8. ASSUME NEW r \in Requests, NEW e \in Emails, ResendVerificationEmailByAddress(r, e)
        PROVE  \E q : ReadStep(r, q)
    <2>1. PICK u \in UserIds :
             req' = [req EXCEPT ![r] = [NoRequest EXCEPT !.op = "resend",
                       !.pc = "authenticated", !.user_id = u]]
      BY <1>8 DEF ResendVerificationEmailByAddress
    <2> DEFINE q == [NoRequest EXCEPT !.op = "resend", !.pc = "authenticated", !.user_id = u]
    <2>2. q \in Request /\ q.op = "resend" /\ q.pc = "authenticated" /\ q.user_id = u
      BY <1>c DEF NoRequest, Request, AllOperations
    <2>3. WellFormed(q) /\ ~Mailing(q)
      BY <2>2 DEF WellFormed, Mailing
    <2> QED
      BY <1>8, <2>1, <2>3 DEF ResendVerificationEmailByAddress, ReadStep
  <1>9. ASSUME NEW r \in Requests, Abort(r)
        PROVE  \E q : ReadStep(r, q)
    BY <1>9, <1>c DEF Abort, End, ReadStep
  <1>10. ASSUME NEW r \in Requests,
                RevokeOtherSessions(r) \/ \E s \in DOMAIN sessions : RevokeSessionByID(r, s)
         PROVE  FewerSessions
    <2>1. sessions = [s \in DOMAIN sessions |-> sessions[s]]
      BY DEF TypeInv, TypeOK
    <2> QED
      BY <1>10, <2>1 DEF RevokeOtherSessions, RevokeSessionByID, FewerSessions, Ending
  <1>11. CASE (\E s \in DOMAIN sessions : Logout(s)) \/ DeleteExpiredSessions
    BY <1>11 DEF Logout, DeleteExpiredSessions, FewerSessions, Ending
  <1>12. CASE Expire
    <2>1. ASSUME NEW s \in DOMAIN sessions, ValidSession(s),
                 sessions' = [sessions EXCEPT ![s].expired = TRUE], UNCHANGED tokens
          PROVE  FewerSessions
      BY <1>12, <2>1 DEF Expire, ValidSession, FewerSessions, Ending
    <2>2. ASSUME NEW t \in DOMAIN tokens, tokens[t] # NoToken,
                 tokens' = [tokens EXCEPT ![t].expired = TRUE], UNCHANGED sessions
          PROVE  FewerTokens
      BY <1>12, <2>2 DEF Expire, FewerTokens
    <2> QED
      BY <1>12, <2>1, <2>2 DEF Expire
  <1>13. ASSUME NEW kind \in Kinds, NEW old \in SUBSET DOMAIN tokens, PruneTokens(kind, old)
         PROVE  FewerTokens
    BY <1>13 DEF PruneTokens, FewerTokens
  <1> QED
    BY <1>1, <1>2, <1>3, <1>5, <1>6, <1>7, <1>8, <1>9, <1>10, <1>11, <1>12, <1>13
       DEF Next, Write

-----------------------------------------------------------------------------
(* What the writes do to the rows.                                         *)

\* A request that ends leaves the others as they were.
LEMMA EndKeepsRequests ==
    ASSUME TypeInv, Ending
    PROVE  /\ req' \in [Requests -> Request]
           /\ \A r \in Requests : WellFormed(req'[r]) /\ req'[r] \in {req[r], NoRequest}
  <1>1. req \in [Requests -> Request] /\ \A r \in Requests : WellFormed(req[r])
    BY DEF TypeInv, TypeOK
  <1>2. WellFormed(NoRequest) /\ NoRequest \in Request
    BY EmptyRows DEF WellFormed
  <1> QED
    BY <1>1, <1>2 DEF Ending, End

\* The token an insert uses has no row.
LEMMA NewTokenIsFree ==
    ASSUME \E t \in 1..MaxTokens : FreshToken(t)
    PROVE  NewToken \in 1..MaxTokens /\ tokens[NewToken] = NoToken
  BY DEF NewToken, FreshToken

\* A session insert uses a token without a row, too.
LEMMA NewSessionIsFree ==
    ASSUME \E s \in 1..MaxSessions : FreshSession(s)
    PROVE  NewSession \in 1..MaxSessions /\ sessions[NewSession] = NoSession
  BY DEF NewSession, FreshSession

\* A registration that wins inserts a user under an id nobody has, and its token.
LEMMA CreatedUser ==
    ASSUME TypeInv, NEW r \in Requests, CreateUserWithEmailVerification(r)
    PROVE  \/ UNCHANGED <<users, tokens, created>>
           \/ \E u \in UserIds, t \in 1..MaxTokens :
                 /\ ~UserExists(u) /\ ~EmailTaken(req[r].email) /\ req[r].email \in Emails
                 /\ tokens[t] = NoToken
                 /\ users' = [users EXCEPT ![u] =
                               [email |-> req[r].email, password |-> req[r].password,
                                verified |-> FALSE, account |-> created + 1,
                                held |-> {req[r].email}, proven |-> {}, told |-> {}]]
                 /\ tokens' = [tokens EXCEPT ![t] =
                                [kind |-> "verify", user_id |-> u, new_email |-> None,
                                 to |-> req[r].email, consumed |-> FALSE,
                                 expired |-> FALSE, applied |-> FALSE]]
                 /\ created < MaxAccounts /\ created' = created + 1
  <1>1. CASE UNCHANGED <<users, tokens, created>>
    BY <1>1
  <1>2. CASE ~UNCHANGED <<users, tokens, created>>
    <2>1. PICK u \in UserIds :
             /\ ~EmailTaken(req[r].email) /\ created < MaxAccounts /\ created' = created + 1
             /\ NextUserId(u)
             /\ users' = [users EXCEPT ![u] =
                            [email |-> req[r].email, password |-> req[r].password,
                             verified |-> FALSE, account |-> created + 1,
                             held |-> {req[r].email}, proven |-> {}, told |-> {}]]
             /\ \E t \in 1..MaxTokens : FreshToken(t)
             /\ tokens' = [tokens EXCEPT ![NewToken] =
                             [kind |-> "verify", user_id |-> u, new_email |-> None,
                              to |-> req[r].email, consumed |-> FALSE,
                              expired |-> FALSE, applied |-> FALSE]]
      BY <1>2 DEF CreateUserWithEmailVerification
    <2>2. ~UserExists(u)
      BY <2>1 DEF NextUserId, UserIds
    <2>3. req[r].email \in Emails
      BY TypeFacts DEF CreateUserWithEmailVerification, WellFormed
    <2>4. NewToken \in 1..MaxTokens /\ tokens[NewToken] = NoToken
      BY <2>1, NewTokenIsFree
    <2> QED
      BY <2>1, <2>2, <2>3, <2>4
  <1> QED
    BY <1>1, <1>2

\* A verification link: its user is there, and only that user changes.
LEMMA VerifiedUser ==
    ASSUME TypeInv, NEW t \in DOMAIN tokens, VerifyEmailByTokenHash(t)
    PROVE  \E u \in UserIds :
              /\ u = tokens[t].user_id /\ UserExists(u) /\ tokens[t].kind = "verify"
              /\ users' \in [UserIds -> UserRow]
              /\ \A v \in UserIds \ {u} : users'[v] = users[v]
              /\ users'[u].email = users[u].email /\ users'[u].password = users[u].password
              /\ users'[u].account = users[u].account /\ users'[u].verified
              /\ users'[u].held = users[u].held /\ users'[u].told = users[u].told
              /\ users'[u].proven = users[u].proven \cup {tokens[t].to}
  <1>1. tokens[t].kind = "verify" /\ tokens[t] # NoToken
    BY DEF VerifyEmailByTokenHash, Usable, NoToken, None
  <1>2. PICK u \in UserIds : u = tokens[t].user_id /\ UserExists(u)
    BY <1>1 DEF TypeInv, RowsHaveOwners, UserExists
  <1>3. tokens[t].to \in Emails
    BY <1>1, TypeFacts DEF TokenShape
  <1>4. users' = [users EXCEPT ![u].verified = TRUE, ![u].proven = @ \cup {tokens[t].to}]
    BY <1>2 DEF VerifyEmailByTokenHash
  <1> DEFINE n == [users[u] EXCEPT !.verified = TRUE, !.proven = @ \cup {tokens[t].to}]
  <1>5. users[u] \in UserRow /\ DOMAIN users = UserIds
    BY TypeFacts
  <1>6. users' = [users EXCEPT ![u] = n]
    BY <1>4, <1>5
  <1>7. /\ n \in UserRow /\ n.email = users[u].email /\ n.password = users[u].password
        /\ n.account = users[u].account /\ n.verified
        /\ n.held = users[u].held /\ n.told = users[u].told
        /\ n.proven = users[u].proven \cup {tokens[t].to}
    BY <1>3, <1>5 DEF UserRow
  <1> HIDE DEF n
  <1>8. users' \in [UserIds -> UserRow]
    BY <1>6, <1>7 DEF TypeInv, TypeOK
  <1> QED
    BY <1>1, <1>2, <1>5, <1>6, <1>7, <1>8

\* A change link: its user is there, nobody else has the address, and only that user
\* changes.
LEMMA ChangedUser ==
    ASSUME TypeInv, NEW t \in DOMAIN tokens, ConfirmEmailChange(t)
    PROVE  \E u \in UserIds, e \in Emails :
              /\ u = tokens[t].user_id /\ e = tokens[t].new_email /\ e = tokens[t].to
              /\ UserExists(u) /\ tokens[t].kind = "change"
              /\ \A v \in UserIds \ {u} : users[v].email # e
              /\ users' \in [UserIds -> UserRow]
              /\ \A v \in UserIds \ {u} : users'[v] = users[v]
              /\ users'[u].email = e /\ users'[u].verified
              /\ users'[u].held = users[u].held \cup {e}
              /\ users'[u].proven = users[u].proven \cup {e}
              /\ users'[u].told = users[u].told \cup OldEmailNotice(u, e)
  <1>1. tokens[t].kind = "change" /\ tokens[t] # NoToken
    BY DEF ConfirmEmailChange, Usable, NoToken, None
  <1>2. PICK u \in UserIds : u = tokens[t].user_id /\ UserExists(u)
    BY <1>1 DEF TypeInv, RowsHaveOwners, UserExists
  <1>3. PICK e \in Emails : e = tokens[t].new_email /\ e = tokens[t].to
    BY <1>1, TypeFacts DEF TokenShape
  <1>4. users' = [users EXCEPT ![u].email = e, ![u].verified = TRUE,
                               ![u].held = @ \cup {e}, ![u].proven = @ \cup {e},
                               ![u].told = @ \cup OldEmailNotice(u, e)]
    BY <1>2, <1>3 DEF ConfirmEmailChange
  <1> DEFINE n == [users[u] EXCEPT !.email = e, !.verified = TRUE,
                               !.held = @ \cup {e}, !.proven = @ \cup {e},
                               !.told = @ \cup OldEmailNotice(u, e)]
  <1>5. users[u] \in UserRow /\ DOMAIN users = UserIds
    BY TypeFacts
  <1>6. users' = [users EXCEPT ![u] = n]
    BY <1>4, <1>5
  <1>7. OldEmailNotice(u, e) \subseteq Emails
    BY <1>2, <1>5 DEF OldEmailNotice, UserExists, UserRow
  <1>8. /\ n \in UserRow /\ n.email = e /\ n.verified
        /\ n.held = users[u].held \cup {e} /\ n.proven = users[u].proven \cup {e}
        /\ n.told = users[u].told \cup OldEmailNotice(u, e)
    BY <1>5, <1>7 DEF UserRow
  <1> HIDE DEF n
  <1>9. users' \in [UserIds -> UserRow]
    BY <1>6, <1>8 DEF TypeInv, TypeOK
  <1>10. \A v \in UserIds \ {u} : users[v].email # e
    BY <1>2, <1>3 DEF ConfirmEmailChange, AddressFree, HasEmail
  <1> QED
    BY <1>1, <1>2, <1>3, <1>5, <1>6, <1>8, <1>9, <1>10

\* A password is written into the row of a user who is there; every session of the
\* user ends.
LEMMA SetPassword ==
    ASSUME TypeInv, NEW r \in Requests, SetPasswordAndRevokeSessions(r)
    PROVE  \E u \in UserIds :
              /\ u = req[r].user_id
              /\ users' \in [UserIds -> UserRow]
              /\ \A v \in UserIds \ {u} : users'[v] = users[v]
              /\ ~UserExists(u) => users'[u] = users[u]
              /\ users'[u].email = users[u].email /\ users'[u].held = users[u].held
              /\ users'[u].verified = users[u].verified
              /\ users'[u].proven = users[u].proven /\ users'[u].told = users[u].told
              /\ sessions' = WithoutSessionsOf(u)
  <1>1. PICK u \in UserIds : u = req[r].user_id
    BY TypeFacts DEF SetPasswordAndRevokeSessions, WellFormed, None
  <1>2. req[r].password \in Passwords
    BY TypeFacts DEF SetPasswordAndRevokeSessions, WellFormed
  <1>3. users[u] \in UserRow /\ DOMAIN users = UserIds /\ users \in [UserIds -> UserRow]
    BY TypeFacts DEF TypeInv, TypeOK
  <1>4. sessions' = WithoutSessionsOf(u)
    BY <1>1 DEF SetPasswordAndRevokeSessions
  <1>5. CASE ~UserExists(u)
    <2>1. users' = users
      BY <1>1, <1>5 DEF SetPasswordAndRevokeSessions, UpdateUserPasswordHash
    <2> QED
      BY <2>1, <1>1, <1>3, <1>4
  <1>6. CASE UserExists(u)
    <2> DEFINE n == [users[u] EXCEPT !.password = req[r].password]
    <2>1. users' = [users EXCEPT ![u] = n]
      BY <1>1, <1>3, <1>6 DEF SetPasswordAndRevokeSessions, UpdateUserPasswordHash
    <2>2. /\ n \in UserRow /\ n.email = users[u].email /\ n.held = users[u].held
          /\ n.verified = users[u].verified
          /\ n.proven = users[u].proven /\ n.told = users[u].told
      BY <1>2, <1>3 DEF UserRow
    <2> HIDE DEF n
    <2> QED
      BY <2>1, <2>2, <1>1, <1>3, <1>4, <1>6
  <1> QED
    BY <1>5, <1>6

\* An account that is deleted takes its sessions and tokens with it.
LEMMA DeletedUser ==
    ASSUME TypeInv, NEW r \in Requests, DeleteAccount(r)
    PROVE  \E u \in UserIds :
              /\ users' = [users EXCEPT ![u] = NoUser]
              /\ sessions' = WithoutSessionsOf(u)
              /\ tokens' = [t \in DOMAIN tokens |->
                              IF tokens[t].user_id = u THEN NoToken ELSE tokens[t]]
              /\ retired' = retired \cup {u}
  <1>1. req[r].user_id \in UserIds
    BY TypeFacts DEF DeleteAccount, WellFormed, None
  <1> QED
    BY <1>1 DEF DeleteAccount

\* The transaction that inserts a token writes one row for a user who is there.
LEMMA InsertedToken ==
    ASSUME TypeInv, NEW r \in Requests, InsertTokenAndEnqueue(r)
    PROVE  \E t \in 1..MaxTokens, k \in TokenRow :
              /\ tokens[t] = NoToken /\ tokens' = [tokens EXCEPT ![t] = k]
              /\ TokenShape(k) /\ k # NoToken
              /\ k.user_id = req[r].user_id /\ UserExists(k.user_id)
              /\ k.to = req[r].email
              /\ k.kind \in {"verify", "reset"} => Mailing(req[r])
  <1> DEFINE k == [kind |-> TokenKind(req[r].op), user_id |-> req[r].user_id,
                   new_email |-> NewEmail(r), to |-> Recipient(r),
                   consumed |-> FALSE, expired |-> FALSE, applied |-> FALSE]
  <1>1. /\ UserExists(req[r].user_id) /\ tokens' = [tokens EXCEPT ![NewToken] = k]
        /\ \E t \in 1..MaxTokens : FreshToken(t)
    BY DEF InsertTokenAndEnqueue, InsertToken
  <1>2. NewToken \in 1..MaxTokens /\ tokens[NewToken] = NoToken
    BY <1>1, NewTokenIsFree
  <1>3. req[r].email \in Emails /\ req[r].user_id \in UserIds
    BY <1>1, TypeFacts DEF InsertTokenAndEnqueue, WellFormed, Mailing, UserExists
  <1>4. \/ req[r].op = "request_reset" /\ TokenKind(req[r].op) = "reset" /\ NewEmail(r) = None
        \/ req[r].op = "resend" /\ TokenKind(req[r].op) = "verify" /\ NewEmail(r) = None
        \/ /\ req[r].op = "request_email_change" /\ TokenKind(req[r].op) = "change"
           /\ NewEmail(r) = req[r].email
    BY DEF InsertTokenAndEnqueue, TokenKind, NewEmail
  <1>5. /\ k.kind = TokenKind(req[r].op) /\ k.user_id = req[r].user_id
        /\ k.new_email = NewEmail(r) /\ k.to = req[r].email
    BY DEF Recipient
  <1>6. k \in TokenRow
    BY <1>3, <1>4 DEF TokenRow, Kinds, Recipient
  <1>7. k.kind # None
    BY <1>4, <1>5 DEF None
  <1>8. k # NoToken
    BY <1>7 DEF NoToken
  <1> HIDE DEF k
  <1>9. TokenShape(k)
    BY <1>3, <1>4, <1>5, <1>7, <1>8 DEF TokenShape
  <1>10. k.kind \in {"verify", "reset"} => Mailing(req[r])
    BY <1>4, <1>5 DEF Mailing, InsertTokenAndEnqueue
  <1> QED
    BY <1>1, <1>2, <1>5, <1>6, <1>8, <1>9, <1>10

-----------------------------------------------------------------------------
\* Every step keeps the types, and every row its owner.
LEMMA NextTypeInv == TypeInv /\ [Next]_vars => TypeInv'
  <1> SUFFICES ASSUME TypeInv, [Next]_vars PROVE TypeInv'
    OBVIOUS
  <1>a. /\ users \in [UserIds -> UserRow] /\ sessions \in [1..MaxSessions -> SessionRow]
        /\ tokens \in [1..MaxTokens -> TokenRow] /\ req \in [Requests -> Request]
        /\ created \in 0..MaxAccounts /\ retired \subseteq UserIds
        /\ \A u \in UserIds : users[u].email = None => users[u] = NoUser
    BY DEF TypeInv, TypeOK
  <1>b. /\ \A s \in 1..MaxSessions : sessions[s] # NoSession => UserExists(sessions[s].user_id)
        /\ \A t \in 1..MaxTokens : /\ tokens[t] # NoToken => UserExists(tokens[t].user_id)
                                   /\ TokenShape(tokens[t])
        /\ \A r \in Requests : WellFormed(req[r])
    BY <1>a DEF TypeInv, RowsHaveOwners
  \* The invariant of the next state, piece by piece.
  <1> DEFINE Owner(u) == u \in UserIds /\ users'[u].email # None
  <1>c. ASSUME users' \in [UserIds -> UserRow],
               \A u \in UserIds : users'[u].email = None => users'[u] = NoUser,
               sessions' \in [1..MaxSessions -> SessionRow],
               tokens' \in [1..MaxTokens -> TokenRow],
               \A s \in 1..MaxSessions :
                  sessions'[s] # NoSession => Owner(sessions'[s].user_id),
               \A t \in 1..MaxTokens :
                  tokens'[t] # NoToken => Owner(tokens'[t].user_id),
               \A t \in 1..MaxTokens : TokenShape(tokens'[t]),
               req' \in [Requests -> Request], \A r \in Requests : WellFormed(req'[r]),
               created' \in 0..MaxAccounts, retired' \subseteq UserIds
        PROVE  TypeInv'
    <2>1. TypeOK'
      BY <1>c DEF TypeOK
    <2>2. RowsHaveOwners'
      BY <1>c DEF RowsHaveOwners, UserExists
    <2>3. \A r \in Requests : WellFormed(req[r])'
      BY <1>c DEF WellFormed, Mailing
    <2>4. \A t \in DOMAIN tokens' : TokenShape(tokens[t])'
      BY <1>c DEF TokenShape
    <2> QED
      BY <2>1, <2>2, <2>3, <2>4 DEF TypeInv
  <1>d. ASSUME NEW u \in UserIds, sessions' = WithoutSessionsOf(u)
        PROVE  /\ sessions' \in [1..MaxSessions -> SessionRow]
               /\ \A s \in 1..MaxSessions : sessions'[s] # NoSession =>
                     sessions'[s] = sessions[s] /\ sessions[s].user_id # u
    BY <1>a, <1>d, EmptyRows DEF WithoutSessionsOf
  \* A token row of which the histories of use change keeps its owner and its shape.
  <1>e. ASSUME NEW t \in 1..MaxTokens, tokens[t].kind # None, NEW c \in BOOLEAN,
               NEW x \in BOOLEAN, NEW a \in BOOLEAN,
               tokens' = [tokens EXCEPT ![t] = [tokens[t] EXCEPT !.consumed = c,
                                                   !.expired = x, !.applied = a]]
        PROVE  /\ tokens' \in [1..MaxTokens -> TokenRow]
               /\ \A k \in 1..MaxTokens : /\ tokens'[k].user_id = tokens[k].user_id
                                          /\ tokens'[k] # NoToken => tokens[k] # NoToken
                                          /\ TokenShape(tokens'[k])
    <2> DEFINE k == [tokens[t] EXCEPT !.consumed = c, !.expired = x, !.applied = a]
    <2>1. tokens[t] \in TokenRow /\ TokenShape(tokens[t])
      BY <1>a, <1>b
    <2>2. /\ k \in TokenRow /\ k.kind = tokens[t].kind /\ k.user_id = tokens[t].user_id
          /\ k.to = tokens[t].to /\ k.new_email = tokens[t].new_email
      BY <2>1 DEF TokenRow
    <2>3. k # NoToken /\ tokens[t] # NoToken
      <3>1. NoToken.kind = None
        BY DEF NoToken
      <3> QED
        BY <1>e, <2>2, <3>1
    <2> HIDE DEF k
    <2>4. TokenShape(k)
      BY <1>e, <2>1, <2>2, <2>3 DEF TokenShape
    <2>5. tokens' = [tokens EXCEPT ![t] = k]
      BY <1>e DEF k
    <2> QED
      BY <2>2, <2>3, <2>4, <2>5, <1>a, <1>b
  <1>1. CASE UNCHANGED vars
    BY <1>1, <1>a, <1>b, <1>c DEF vars, UserExists
  <1>2. ASSUME NEW r \in Requests, NEW q, ReadStep(r, q)
        PROVE  TypeInv'
    <2>1. q \in Request /\ WellFormed(q)
      BY <1>2 DEF ReadStep, WellFormed
    <2>2. req' \in [Requests -> Request] /\ \A p \in Requests : WellFormed(req'[p])
      BY <1>2, <2>1, <1>a, <1>b DEF ReadStep
    <2> QED
      BY <1>2, <2>2, <1>a, <1>b, <1>c DEF ReadStep, UserExists
  <1>3. CASE FewerSessions
    <2>1. ASSUME NEW s \in 1..MaxSessions
          PROVE  /\ sessions'[s] \in SessionRow
                 /\ sessions'[s] # NoSession => UserExists(sessions'[s].user_id)
      <3>1. sessions[s] \in SessionRow
        BY <1>a
      <3>2. CASE sessions'[s] \in {sessions[s], NoSession}
        BY <3>1, <3>2, <1>b, EmptyRows
      <3>3. CASE /\ sessions[s] # NoSession
                 /\ sessions'[s] = [sessions[s] EXCEPT !.expired = TRUE]
        <4>1. sessions'[s] \in SessionRow /\ sessions'[s].user_id = sessions[s].user_id
          BY <3>1, <3>3 DEF SessionRow
        <4> QED
          BY <3>3, <4>1, <1>b
      <3> QED
        BY <3>2, <3>3, <1>3, <1>a DEF FewerSessions
    <2>2. sessions' \in [1..MaxSessions -> SessionRow]
      BY <2>1, <1>3, <1>a DEF FewerSessions
    <2>3. UNCHANGED <<users, tokens, created, retired>> /\ Ending
      BY <1>3 DEF FewerSessions
    <2> QED
      BY <2>1, <2>2, <2>3, <1>a, <1>b, <1>c, EndKeepsRequests DEF UserExists
  <1>4. CASE FewerTokens
    <2>1. ASSUME NEW t \in 1..MaxTokens
          PROVE  /\ tokens'[t] \in TokenRow /\ TokenShape(tokens'[t])
                 /\ tokens'[t] # NoToken => UserExists(tokens'[t].user_id)
      <3>1. tokens[t] \in TokenRow /\ TokenShape(tokens[t])
        BY <1>a, <1>b
      <3>2. CASE tokens'[t] \in {tokens[t], NoToken}
        BY <3>1, <3>2, <1>b, EmptyRows
      <3>3. CASE /\ tokens[t] # NoToken
                 /\ tokens'[t] = [tokens[t] EXCEPT !.expired = TRUE]
        <4>1. /\ tokens'[t] \in TokenRow /\ tokens'[t].user_id = tokens[t].user_id
              /\ tokens'[t].kind = tokens[t].kind /\ tokens'[t].to = tokens[t].to
              /\ tokens'[t].new_email = tokens[t].new_email
          BY <3>1, <3>3 DEF TokenRow
        <4>2. tokens'[t] # NoToken
          BY <3>1, <3>3, <4>1 DEF TokenShape, NoToken
        <4> QED
          BY <3>1, <3>3, <4>1, <4>2, <1>b DEF TokenShape
      <3> QED
        BY <3>2, <3>3, <1>4, <1>a DEF FewerTokens
    <2>2. UNCHANGED <<users, sessions, req, created, retired>>
      BY <1>4 DEF FewerTokens
    <2>3. tokens' \in [1..MaxTokens -> TokenRow]
      BY <2>1, <1>4, <1>a DEF FewerTokens
    <2> QED
      BY <2>1, <2>2, <2>3, <1>a, <1>b, <1>c DEF UserExists
  <1>5. ASSUME NEW r \in Requests, CreateUserWithEmailVerification(r)
        PROVE  TypeInv'
    <2>1. Ending /\ UNCHANGED <<sessions, retired>>
      BY <1>5 DEF CreateUserWithEmailVerification, Ending
    <2>2. CASE UNCHANGED <<users, tokens, created>>
      BY <2>1, <2>2, <1>a, <1>b, <1>c, EndKeepsRequests DEF UserExists
    <2>3. ASSUME NEW u \in UserIds, NEW t \in 1..MaxTokens,
                 ~UserExists(u), req[r].email \in Emails, tokens[t] = NoToken,
                 users' = [users EXCEPT ![u] =
                               [email |-> req[r].email, password |-> req[r].password,
                                verified |-> FALSE, account |-> created + 1,
                                held |-> {req[r].email}, proven |-> {}, told |-> {}]],
                 tokens' = [tokens EXCEPT ![t] =
                                [kind |-> "verify", user_id |-> u, new_email |-> None,
                                 to |-> req[r].email, consumed |-> FALSE,
                                 expired |-> FALSE, applied |-> FALSE]],
                 created < MaxAccounts, created' = created + 1
          PROVE  TypeInv'
      <3> DEFINE n == [email |-> req[r].email, password |-> req[r].password,
                       verified |-> FALSE, account |-> created + 1,
                       held |-> {req[r].email}, proven |-> {}, told |-> {}]
                 k == [kind |-> "verify", user_id |-> u, new_email |-> None,
                       to |-> req[r].email, consumed |-> FALSE,
                       expired |-> FALSE, applied |-> FALSE]
      <3>1. created + 1 \in 0..MaxAccounts /\ req[r].password \in Passwords
        BY <1>5, <2>3, <1>a, <1>b, AccountsAssumption
           DEF WellFormed, CreateUserWithEmailVerification
      <3>2. n \in UserRow /\ n.email # None
        BY <2>3, <3>1, EmailAssumption DEF UserRow
      <3>3. k \in TokenRow /\ k.user_id = u /\ TokenShape(k)
        BY <2>3 DEF TokenRow, Kinds, TokenShape, NoToken, None
      <3>4. users' = [users EXCEPT ![u] = n] /\ tokens' = [tokens EXCEPT ![t] = k]
        BY <2>3
      <3> HIDE DEF n, k
      <3>5. /\ users' \in [UserIds -> UserRow] /\ tokens' \in [1..MaxTokens -> TokenRow]
            /\ users'[u] = n /\ \A v \in UserIds \ {u} : users'[v] = users[v]
            /\ tokens'[t] = k /\ \A j \in (1..MaxTokens) \ {t} : tokens'[j] = tokens[j]
        BY <3>2, <3>3, <3>4, <1>a
      <3>6. \A v \in UserIds : UserExists(v) => Owner(v)
        BY <3>2, <3>5 DEF UserExists
      <3>7. Owner(u)
        BY <3>2, <3>5
      <3> HIDE DEF Owner
      <3>8. \A j \in 1..MaxTokens : /\ tokens'[j] # NoToken => Owner(tokens'[j].user_id)
                                    /\ TokenShape(tokens'[j])
        BY <3>3, <3>5, <3>6, <3>7, <1>b DEF UserExists
      <3>9. \A s \in 1..MaxSessions : sessions'[s] # NoSession => Owner(sessions'[s].user_id)
        BY <2>1, <3>6, <1>b DEF UserExists
      <3> QED
        BY <2>1, <2>3, <3>1, <3>2, <3>5, <3>8, <3>9, <1>a, <1>c, EndKeepsRequests
    <2> QED
      BY <1>5, <2>2, <2>3, CreatedUser
  <1>6. ASSUME NEW r \in Requests, CreateSession(r)
        PROVE  TypeInv'
    <2> DEFINE k == [user_id |-> req[r].user_id, expired |-> FALSE, login |-> req[r].read,
                     late |-> req[r].read # CredentialOf(req[r].user_id)]
    <2>1. /\ Ending /\ UNCHANGED <<users, tokens, created, retired>>
          /\ sessions' = [sessions EXCEPT ![NewSession] = k] /\ UserExists(req[r].user_id)
      BY <1>6 DEF CreateSession, Ending
    <2>2. k \in SessionRow /\ k.user_id = req[r].user_id
      BY <2>1, <1>a DEF SessionRow, Request, UserExists
    <2>3. NewSession \in 1..MaxSessions
      BY <1>6, NewSessionIsFree DEF CreateSession
    <2> HIDE DEF k
    <2>4. /\ sessions' \in [1..MaxSessions -> SessionRow]
          /\ \A s \in 1..MaxSessions : sessions'[s] \in {sessions[s], k}
      BY <2>1, <2>2, <2>3, <1>a
    <2>5. \A s \in 1..MaxSessions : sessions'[s] # NoSession => Owner(sessions'[s].user_id)
      BY <2>1, <2>2, <2>4, <1>b DEF UserExists
    <2> QED
      BY <2>1, <2>4, <2>5, <1>a, <1>b, <1>c, EndKeepsRequests DEF UserExists
  <1>7. ASSUME NEW r \in Requests, InsertTokenAndEnqueue(r)
        PROVE  TypeInv'
    <2>1. PICK t \in 1..MaxTokens, k \in TokenRow :
             /\ tokens' = [tokens EXCEPT ![t] = k] /\ TokenShape(k) /\ UserExists(k.user_id)
      BY <1>7, InsertedToken
    <2>2. Ending /\ UNCHANGED <<users, sessions, created, retired>>
      BY <1>7 DEF InsertTokenAndEnqueue, Ending
    <2>3. /\ tokens' \in [1..MaxTokens -> TokenRow]
          /\ \A j \in 1..MaxTokens : tokens'[j] \in {tokens[j], k}
      BY <2>1, <1>a
    <2>4. \A j \in 1..MaxTokens : /\ tokens'[j] # NoToken => Owner(tokens'[j].user_id)
                                  /\ TokenShape(tokens'[j])
      BY <2>1, <2>2, <2>3, <1>b DEF UserExists
    <2> QED
      BY <2>2, <2>3, <2>4, <1>a, <1>b, <1>c, EndKeepsRequests DEF UserExists
  <1>8. ASSUME NEW r \in Requests, NEW t \in DOMAIN tokens, NEW p \in Passwords,
               ConsumePasswordResetToken(r, t, p)
        PROVE  TypeInv'
    <2> DEFINE q == [NoRequest EXCEPT !.op = "reset_password", !.pc = "write",
                                      !.user_id = tokens[t].user_id, !.password = p, !.token = t]
    <2>1. /\ req' = [req EXCEPT ![r] = q] /\ UNCHANGED <<users, sessions, created, retired>>
          /\ tokens' = [tokens EXCEPT ![t].consumed = TRUE]
          /\ tokens[t].kind = "reset" /\ t \in 1..MaxTokens
      BY <1>8, <1>a DEF ConsumePasswordResetToken, Usable
    <2>2. tokens[t] # NoToken /\ tokens[t].kind # None
      BY <2>1 DEF NoToken, None
    <2>3. tokens[t].user_id \in UserIds
      BY <2>1, <2>2, <1>b DEF UserExists
    <2>4. /\ q \in Request /\ q.op = "reset_password" /\ q.pc = "write" /\ q.user_id \in UserIds
          /\ q.password = p /\ q.token = t
      <3>1. NoRequest \in Request /\ t \in 0..MaxTokens
        BY <2>1, EmptyRows DEF WellFormed
      <3> QED
        BY <2>3, <3>1 DEF NoRequest, Request, AllOperations
    <2> HIDE DEF q
    <2>5. WellFormed(q)
      BY <2>1, <2>4 DEF WellFormed, Mailing
    <2>6. req' \in [Requests -> Request] /\ \A o \in Requests : WellFormed(req'[o])
      BY <2>1, <2>4, <2>5, <1>a, <1>b
    <2>7. /\ tokens' = [tokens EXCEPT ![t] = [tokens[t] EXCEPT !.consumed = TRUE,
                            !.expired = tokens[t].expired, !.applied = tokens[t].applied]]
          /\ tokens[t].expired \in BOOLEAN /\ tokens[t].applied \in BOOLEAN
      BY <2>1, <1>a DEF TokenRow
    <2>8. /\ tokens' \in [1..MaxTokens -> TokenRow]
          /\ \A k \in 1..MaxTokens : /\ tokens'[k].user_id = tokens[k].user_id
                                     /\ tokens'[k] # NoToken => tokens[k] # NoToken
                                     /\ TokenShape(tokens'[k])
      BY <2>1, <2>2, <2>7, <1>e
    <2> QED
      BY <2>1, <2>6, <2>8, <1>a, <1>b, <1>c DEF UserExists
  <1>9. ASSUME NEW r \in Requests, SetPasswordAndRevokeSessions(r)
        PROVE  TypeInv'
    <2>1. PICK u \in UserIds :
              /\ users' \in [UserIds -> UserRow]
              /\ \A v \in UserIds \ {u} : users'[v] = users[v]
              /\ ~UserExists(u) => users'[u] = users[u]
              /\ users'[u].email = users[u].email
              /\ sessions' = WithoutSessionsOf(u)
      BY <1>9, SetPassword
    <2>2. Ending /\ UNCHANGED <<created, retired>>
      BY <1>9 DEF SetPasswordAndRevokeSessions, Ending
    <2>3. /\ tokens' \in [1..MaxTokens -> TokenRow]
          /\ \A k \in 1..MaxTokens : /\ tokens'[k].user_id = tokens[k].user_id
                                     /\ tokens'[k] # NoToken => tokens[k] # NoToken
                                     /\ TokenShape(tokens'[k])
      <3>1. CASE tokens' = tokens
        BY <3>1, <1>a, <1>b
      <3>2. CASE tokens' # tokens
        <4>1. PICK t \in 1..MaxTokens : t = req[r].token
          BY <3>2, <1>9, <1>b DEF SetPasswordAndRevokeSessions, WellFormed
        <4>2. tokens[t].kind = "reset" /\ tokens' = [tokens EXCEPT ![t].applied = TRUE]
          BY <4>1, <3>2, <1>9 DEF SetPasswordAndRevokeSessions
        <4>3. /\ tokens' = [tokens EXCEPT ![t] = [tokens[t] EXCEPT !.consumed = tokens[t].consumed,
                                !.expired = tokens[t].expired, !.applied = TRUE]]
              /\ tokens[t].expired \in BOOLEAN /\ tokens[t].consumed \in BOOLEAN
          BY <4>2, <1>a DEF TokenRow
        <4>4. tokens[t].kind # None
          BY <4>2 DEF None
        <4> QED
          BY <4>3, <4>4, <1>e
      <3> QED
        BY <3>1, <3>2
    <2>4. \A v \in UserIds : /\ users'[v].email = None => users'[v] = NoUser
                             /\ UserExists(v) => Owner(v)
      BY <2>1, <1>a DEF UserExists
    <2> HIDE DEF Owner
    <2>5. /\ \A s \in 1..MaxSessions : sessions'[s] # NoSession => Owner(sessions'[s].user_id)
          /\ sessions' \in [1..MaxSessions -> SessionRow]
      BY <2>1, <2>4, <1>b, <1>d DEF UserExists
    <2>6. \A t \in 1..MaxTokens : tokens'[t] # NoToken => Owner(tokens'[t].user_id)
      BY <2>3, <2>4, <1>b DEF UserExists
    <2> QED
      BY <2>1, <2>2, <2>3, <2>4, <2>5, <2>6, <1>a, <1>b, <1>c, EndKeepsRequests
  <1>10. ASSUME NEW r \in Requests, DeleteAccount(r)
         PROVE  TypeInv'
    <2>1. PICK u \in UserIds :
              /\ users' = [users EXCEPT ![u] = NoUser]
              /\ sessions' = WithoutSessionsOf(u)
              /\ tokens' = [t \in DOMAIN tokens |->
                              IF tokens[t].user_id = u THEN NoToken ELSE tokens[t]]
              /\ retired' = retired \cup {u}
      BY <1>10, DeletedUser
    <2>2. Ending /\ UNCHANGED created
      BY <1>10 DEF DeleteAccount, Ending
    <2>3. users' \in [UserIds -> UserRow] /\ users'[u] = NoUser
          /\ \A v \in UserIds \ {u} : users'[v] = users[v]
      BY <2>1, <1>a, EmptyRows
    <2>4. \A v \in UserIds : /\ users'[v].email = None => users'[v] = NoUser
                             /\ v # u /\ UserExists(v) => Owner(v)
      BY <2>3, <1>a DEF UserExists
    <2> HIDE DEF Owner
    <2>5. /\ \A s \in 1..MaxSessions : sessions'[s] # NoSession => Owner(sessions'[s].user_id)
          /\ sessions' \in [1..MaxSessions -> SessionRow]
      BY <2>1, <2>4, <1>b, <1>d DEF UserExists
    <2>6. /\ \A t \in 1..MaxTokens : /\ tokens'[t] # NoToken => Owner(tokens'[t].user_id)
                                     /\ TokenShape(tokens'[t])
          /\ tokens' \in [1..MaxTokens -> TokenRow]
      BY <2>1, <2>4, <1>a, <1>b, EmptyRows DEF UserExists
    <2> QED
      BY <2>1, <2>2, <2>3, <2>4, <2>5, <2>6, <1>a, <1>b, <1>c, EndKeepsRequests
  <1>11. ASSUME NEW t \in DOMAIN tokens, VerifyEmailByTokenHash(t) \/ ConfirmEmailChange(t)
         PROVE  TypeInv'
    <2>1. PICK u \in UserIds :
             /\ users' \in [UserIds -> UserRow] /\ users'[u].email # None
             /\ \A v \in UserIds \ {u} : users'[v] = users[v]
             /\ tokens[t].kind \in {"verify", "change"}
             /\ sessions' \in {sessions, WithoutSessionsOf(u)}
      <3>1. CASE VerifyEmailByTokenHash(t)
        BY <3>1, VerifiedUser DEF VerifyEmailByTokenHash, UserExists
      <3>2. CASE ConfirmEmailChange(t)
        <4>1. PICK u \in UserIds, e \in Emails :
                 /\ u = tokens[t].user_id /\ tokens[t].kind = "change"
                 /\ users' \in [UserIds -> UserRow] /\ users'[u].email = e
                 /\ \A v \in UserIds \ {u} : users'[v] = users[v]
          BY <3>2, ChangedUser
        <4>2. sessions' = WithoutSessionsOf(u) /\ e # None
          BY <3>2, <4>1, EmailAssumption DEF ConfirmEmailChange
        <4> QED
          BY <4>1, <4>2
      <3> QED
        BY <1>11, <3>1, <3>2
    <2>2. /\ tokens' = [tokens EXCEPT ![t].consumed = TRUE, ![t].applied = TRUE]
          /\ UNCHANGED <<req, created, retired>>
      BY <1>11 DEF VerifyEmailByTokenHash, ConfirmEmailChange
    <2>3. /\ tokens' = [tokens EXCEPT ![t] = [tokens[t] EXCEPT !.consumed = TRUE,
                            !.expired = tokens[t].expired, !.applied = TRUE]]
          /\ tokens[t].expired \in BOOLEAN /\ t \in 1..MaxTokens
      BY <2>2, <1>a DEF TokenRow
    <2>4. tokens[t].kind # None
      BY <2>1 DEF None
    <2>5. /\ tokens' \in [1..MaxTokens -> TokenRow]
          /\ \A k \in 1..MaxTokens : /\ tokens'[k].user_id = tokens[k].user_id
                                     /\ tokens'[k] # NoToken => tokens[k] # NoToken
                                     /\ TokenShape(tokens'[k])
      BY <2>3, <2>4, <1>e
    <2>6. \A v \in UserIds : /\ users'[v].email = None => users'[v] = NoUser
                             /\ UserExists(v) => Owner(v)
      BY <2>1, <1>a DEF UserExists
    <2> HIDE DEF Owner
    <2>7. /\ \A s \in 1..MaxSessions : sessions'[s] # NoSession => Owner(sessions'[s].user_id)
          /\ sessions' \in [1..MaxSessions -> SessionRow]
      <3>1. CASE sessions' = sessions
        BY <3>1, <2>6, <1>a, <1>b DEF UserExists
      <3>2. CASE sessions' = WithoutSessionsOf(u)
        BY <3>2, <2>6, <1>b, <1>d DEF UserExists
      <3> QED
        BY <3>1, <3>2, <2>1
    <2>8. \A k \in 1..MaxTokens : tokens'[k] # NoToken => Owner(tokens'[k].user_id)
      BY <2>5, <2>6, <1>b DEF UserExists
    <2> QED
      BY <2>1, <2>2, <2>5, <2>6, <2>7, <2>8, <1>a, <1>b, <1>c
  <1> QED
    BY <1>1, <1>2, <1>3, <1>4, <1>5, <1>6, <1>7, <1>8, <1>9, <1>10, <1>11, StepKinds DEF Write

\* Every reachable state of the tables and of the requests in flight is well typed, and
\* a row without an address is no row.
THEOREM TypeCorrect == Spec => []TypeOK
  <1>1. TypeInv => TypeOK
    BY DEF TypeInv
  <1> QED
    BY InitTypeInv, NextTypeInv, <1>1, PTL DEF Spec

\* Every session and token belongs to a user of the table, whatever a deletion
\* overtakes.
THEOREM RowsAlwaysHaveOwners == Spec => []RowsHaveOwners
  <1>1. TypeInv => RowsHaveOwners
    BY DEF TypeInv
  <1> QED
    BY InitTypeInv, NextTypeInv, <1>1, PTL DEF Spec

-----------------------------------------------------------------------------
(* What the properties below need to know of a step of any kind: which     *)
(* users it changes.                                                       *)

\* Only these steps change a user: a registration, a password, a link, a deletion.
LEMMA UsersKept ==
    ASSUME TypeInv, [Next]_vars
    PROVE  \/ UNCHANGED <<users, retired>>
           \/ \E r \in Requests : \/ CreateUserWithEmailVerification(r)
                                  \/ SetPasswordAndRevokeSessions(r)
                                  \/ DeleteAccount(r)
           \/ \E t \in DOMAIN tokens : VerifyEmailByTokenHash(t) \/ ConfirmEmailChange(t)
  BY StepKinds DEF ReadStep, FewerSessions, FewerTokens, Write, CreateSession,
                   InsertTokenAndEnqueue, ConsumePasswordResetToken, vars

\* Every step keeps the addresses apart.
LEMMA NextEmails == TypeInv /\ EmailsAreUnique /\ [Next]_vars => EmailsAreUnique'
  <1> SUFFICES ASSUME TypeInv, EmailsAreUnique, [Next]_vars PROVE EmailsAreUnique'
    OBVIOUS
  <1>a. DOMAIN users = UserIds
    BY TypeFacts
  <1>1. CASE UNCHANGED <<users, retired>>
    BY <1>1 DEF EmailsAreUnique, UserExists
  <1>2. ASSUME NEW u \in UserIds, \A v \in UserIds \ {u} : users'[v] = users[v],
               \/ users'[u].email = None
               \/ \A v \in UserIds \ {u} : users[v].email # users'[u].email
        PROVE  EmailsAreUnique'
    BY <1>2 DEF EmailsAreUnique, UserExists
  <1>3. ASSUME NEW r \in Requests, CreateUserWithEmailVerification(r)
        PROVE  EmailsAreUnique'
    <2>1. CASE users' = users
      BY <2>1 DEF EmailsAreUnique, UserExists
    <2>2. CASE users' # users
      <3>1. PICK u \in UserIds :
               /\ ~EmailTaken(req[r].email)
               /\ users' = [users EXCEPT ![u] =
                               [email |-> req[r].email, password |-> req[r].password,
                                verified |-> FALSE, account |-> created + 1,
                                held |-> {req[r].email}, proven |-> {}, told |-> {}]]
        BY <1>3, <2>2, CreatedUser
      <3>2. users'[u].email = req[r].email /\ \A v \in UserIds \ {u} : users'[v] = users[v]
        BY <3>1, <1>a
      <3> QED
        BY <3>1, <3>2, <1>2 DEF EmailTaken, HasEmail
    <2> QED
      BY <2>1, <2>2
  <1>4. ASSUME NEW r \in Requests, SetPasswordAndRevokeSessions(r)
        PROVE  EmailsAreUnique'
    <2>1. \A v \in UserIds : users'[v].email = users[v].email
      BY <1>4, SetPassword
    <2> QED
      BY <2>1 DEF EmailsAreUnique, UserExists
  <1>5. ASSUME NEW r \in Requests, DeleteAccount(r)
        PROVE  EmailsAreUnique'
    <2>1. PICK u \in UserIds : users' = [users EXCEPT ![u] = NoUser]
      BY <1>5, DeletedUser
    <2>2. users'[u].email = None /\ \A v \in UserIds \ {u} : users'[v] = users[v]
      BY <2>1, <1>a DEF NoUser
    <2> QED
      BY <2>2, <1>2
  <1>6. ASSUME NEW t \in DOMAIN tokens, VerifyEmailByTokenHash(t)
        PROVE  EmailsAreUnique'
    <2>1. \A v \in UserIds : users'[v].email = users[v].email
      BY <1>6, VerifiedUser
    <2> QED
      BY <2>1 DEF EmailsAreUnique, UserExists
  <1>7. ASSUME NEW t \in DOMAIN tokens, ConfirmEmailChange(t)
        PROVE  EmailsAreUnique'
    <2>1. PICK u \in UserIds, e \in Emails :
             /\ users'[u].email = e /\ \A v \in UserIds \ {u} : users[v].email # e
             /\ \A v \in UserIds \ {u} : users'[v] = users[v]
      BY <1>7, ChangedUser
    <2> QED
      BY <2>1, <1>2
  <1> QED
    BY <1>1, <1>3, <1>4, <1>5, <1>6, <1>7, UsersKept

\* An address names one account: the unique constraint decides every race between
\* registrations and address changes that had found it free.
THEOREM EmailsStayUnique == Spec => []EmailsAreUnique
  <1>1. Init => EmailsAreUnique
    BY DEF Init, EmailsAreUnique, UserExists, NoUser
  <1> QED
    BY InitTypeInv, NextTypeInv, NextEmails, <1>1, PTL DEF Spec

-----------------------------------------------------------------------------
(* Sessions.  A step that changes what a login checks (the address, the    *)
(* password, the account) ends the user's sessions in the same             *)
(* transaction; a new user finds no session of its id.                     *)

\* Every step leaves a session that rests on the present credential, or none, or one
\* that was late.
LEMMA NextStale ==
    TypeInv /\ StaleSessionsWereLate /\ [Next]_vars => StaleSessionsWereLate'
  <1> SUFFICES ASSUME TypeInv, StaleSessionsWereLate, [Next]_vars
               PROVE  StaleSessionsWereLate'
    OBVIOUS
  <1>a. /\ DOMAIN users = UserIds /\ DOMAIN sessions = 1..MaxSessions
        /\ DOMAIN tokens = 1..MaxTokens
        /\ \A s \in 1..MaxSessions : sessions[s] \in SessionRow
    BY TypeFacts
  <1>b. \A s \in DOMAIN sessions : sessions[s] # NoSession =>
           /\ sessions[s].user_id \in UserIds /\ UserExists(sessions[s].user_id)
           /\ sessions[s].login = CredentialOf(sessions[s].user_id) \/ sessions[s].late
    BY DEF TypeInv, RowsHaveOwners, UserExists, StaleSessionsWereLate
  <1>c. ASSUME NEW u \in UserIds, sessions' = WithoutSessionsOf(u),
               \A v \in UserIds \ {u} : users'[v] = users[v]
        PROVE  StaleSessionsWereLate'
    <2>1. /\ DOMAIN sessions' = DOMAIN sessions
          /\ \A s \in DOMAIN sessions : sessions'[s] # NoSession =>
                sessions'[s] = sessions[s] /\ sessions[s].user_id # u
      BY <1>c DEF WithoutSessionsOf
    <2>2. \A v \in UserIds \ {u} : CredentialOf(v)' = CredentialOf(v)
      BY <1>c DEF CredentialOf
    <2>3. ASSUME NEW s \in DOMAIN sessions, sessions'[s] # NoSession
          PROVE  \/ sessions'[s].login = CredentialOf(sessions[s].user_id)'
                 \/ sessions'[s].late
      <3>1. PICK v \in UserIds \ {u} : v = sessions[s].user_id
        BY <2>1, <2>3, <1>b
      <3>2. sessions'[s] = sessions[s] /\ (sessions[s].login = CredentialOf(v) \/ sessions[s].late)
        BY <2>1, <2>3, <3>1, <1>b
      <3>3. CredentialOf(sessions[s].user_id)' = CredentialOf(v)'
        BY <3>1, <3>2 DEF CredentialOf
      <3> QED
        BY <3>2, <3>3, <2>2
    <2> QED
      BY <2>1, <2>3 DEF StaleSessionsWereLate
  <1>d. ASSUME UNCHANGED <<users, sessions>>
        PROVE  StaleSessionsWereLate'
    BY <1>d DEF StaleSessionsWereLate, CredentialOf
  <1>1. CASE FewerSessions
    <2>1. users' = users /\ DOMAIN sessions' = DOMAIN sessions
      BY <1>1 DEF FewerSessions
    <2>2. ASSUME NEW s \in DOMAIN sessions, sessions'[s] # NoSession
          PROVE  /\ sessions[s] # NoSession
                 /\ sessions'[s].login = sessions[s].login /\ sessions'[s].late = sessions[s].late
                 /\ sessions'[s].user_id = sessions[s].user_id
      <3>1. CASE sessions'[s] = sessions[s]
        BY <2>2, <3>1
      <3>2. CASE sessions[s] # NoSession /\ sessions'[s] = [sessions[s] EXCEPT !.expired = TRUE]
        BY <3>2, <1>a DEF SessionRow
      <3> QED
        BY <1>1, <2>2, <3>1, <3>2 DEF FewerSessions
    <2> QED
      BY <2>1, <2>2, <1>b DEF StaleSessionsWereLate, CredentialOf
  <1>2. ASSUME NEW r \in Requests, CreateUserWithEmailVerification(r)
        PROVE  StaleSessionsWereLate'
    <2>1. sessions' = sessions
      BY <1>2 DEF CreateUserWithEmailVerification
    <2>2. CASE users' = users
      BY <2>1, <2>2, <1>d
    <2>3. CASE users' # users
      <3>1. PICK u \in UserIds : ~UserExists(u) /\ \A v \in UserIds \ {u} : users'[v] = users[v]
        BY <1>2, <2>3, <1>a, CreatedUser
      <3>2. \A v \in UserIds \ {u} : CredentialOf(v)' = CredentialOf(v)
        BY <3>1 DEF CredentialOf
      <3> QED
        BY <2>1, <3>1, <3>2, <1>b DEF StaleSessionsWereLate, CredentialOf
    <2> QED
      BY <2>2, <2>3
  <1>3. ASSUME NEW r \in Requests, CreateSession(r)
        PROVE  StaleSessionsWereLate'
    <2> DEFINE k == [user_id |-> req[r].user_id, expired |-> FALSE, login |-> req[r].read,
                     late |-> req[r].read # CredentialOf(req[r].user_id)]
    <2>1. users' = users /\ sessions' = [sessions EXCEPT ![NewSession] = k]
      BY <1>3 DEF CreateSession
    <2>2. k.login = CredentialOf(k.user_id) \/ k.late
      OBVIOUS
    <2> HIDE DEF k
    <2>3. /\ DOMAIN sessions' = DOMAIN sessions
          /\ \A s \in DOMAIN sessions : sessions'[s] \in {sessions[s], k}
      BY <2>1
    <2> QED
      BY <2>1, <2>2, <2>3, <1>b DEF StaleSessionsWereLate, CredentialOf
  <1>4. ASSUME NEW r \in Requests, SetPasswordAndRevokeSessions(r)
        PROVE  StaleSessionsWereLate'
    BY <1>4, <1>c, SetPassword
  <1>5. ASSUME NEW r \in Requests, DeleteAccount(r)
        PROVE  StaleSessionsWereLate'
    <2>1. PICK u \in UserIds : users' = [users EXCEPT ![u] = NoUser]
                               /\ sessions' = WithoutSessionsOf(u)
      BY <1>5, DeletedUser
    <2> QED
      BY <2>1, <1>a, <1>c
  <1>6. ASSUME NEW t \in DOMAIN tokens, VerifyEmailByTokenHash(t)
        PROVE  StaleSessionsWereLate'
    <2>1. \A v \in UserIds : /\ users'[v].email = users[v].email
                             /\ users'[v].password = users[v].password
                             /\ users'[v].account = users[v].account
      BY <1>6, VerifiedUser
    <2>2. \A v \in UserIds : CredentialOf(v)' = CredentialOf(v)
      BY <2>1 DEF CredentialOf
    <2>3. sessions' = sessions
      BY <1>6 DEF VerifyEmailByTokenHash
    <2> QED
      BY <2>2, <2>3, <1>b DEF StaleSessionsWereLate, CredentialOf
  <1>7. ASSUME NEW t \in DOMAIN tokens, ConfirmEmailChange(t)
        PROVE  StaleSessionsWereLate'
    <2>1. PICK u \in UserIds : /\ u = tokens[t].user_id
                               /\ \A v \in UserIds \ {u} : users'[v] = users[v]
      BY <1>7, ChangedUser
    <2>2. sessions' = WithoutSessionsOf(u)
      BY <1>7, <2>1 DEF ConfirmEmailChange
    <2> QED
      BY <2>1, <2>2, <1>c
  <1> QED
    BY <1>d, <1>1, <1>2, <1>3, <1>4, <1>5, <1>6, <1>7, StepKinds
       DEF ReadStep, FewerTokens, Write, InsertTokenAndEnqueue, ConsumePasswordResetToken, vars

\* A session rests on the account's present address and password, or its login had been
\* overtaken when it inserted the session: every change revokes the good sessions.
THEOREM StaleSessionsAreLate == Spec => []StaleSessionsWereLate
  <1>1. Init => StaleSessionsWereLate
    BY DEF Init, StaleSessionsWereLate
  <1> QED
    BY InitTypeInv, NextTypeInv, NextStale, <1>1, PTL DEF Spec

-----------------------------------------------------------------------------
(* Addresses.  That a verified account proved its address rests on where   *)
(* the mail went: a verification token goes to an address of the account,  *)
(* and an account that never changed its address has only one.  A request  *)
(* carries the address from the lookup to the transaction.  Ids of deleted *)
(* accounts are left out throughout.                                       *)

RequestsHaveTheAddress ==
    \A r \in Requests :
       Mailing(req[r]) /\ req[r].user_id \notin retired =>
          req[r].email \in users[req[r].user_id].held

AddressIsHeld == \A u \in UserIds : UserExists(u) => users[u].email \in users[u].held

OneAddressOrProven ==
    \A u \in UserIds \ retired :
       UserExists(u) => users[u].email \in users[u].proven \/ users[u].held = {users[u].email}

MailInv ==
    /\ MailGoesToTheAccount
    /\ VerifiedMeansProven
    /\ RequestsHaveTheAddress
    /\ AddressIsHeld
    /\ OneAddressOrProven

\* Every step keeps mail and proofs to the account's own addresses.
LEMMA NextMail == TypeInv /\ MailInv /\ [Next]_vars => MailInv'
  <1> SUFFICES ASSUME TypeInv, MailInv, [Next]_vars PROVE MailInv'
    OBVIOUS
  <1>a. /\ DOMAIN users = UserIds /\ DOMAIN tokens = 1..MaxTokens /\ DOMAIN req = Requests
        /\ \A t \in 1..MaxTokens : tokens[t] \in TokenRow /\ TokenShape(tokens[t])
        /\ \A r \in Requests : req[r] \in Request /\ WellFormed(req[r])
    BY TypeFacts
  <1>b. /\ \A u \in UserIds : ~UserExists(u) => users[u] = NoUser
        /\ \A t \in 1..MaxTokens : tokens[t] # NoToken =>
              tokens[t].user_id \in UserIds /\ UserExists(tokens[t].user_id)
        /\ \A r \in Requests : Mailing(req[r]) => req[r].user_id \in UserIds
        /\ ~Mailing(NoRequest) /\ NoToken.kind = None
        /\ \A t \in 1..MaxTokens : tokens[t].kind \in {"verify", "reset"} => tokens[t] # NoToken
    BY <1>a DEF TypeInv, TypeOK, RowsHaveOwners, UserExists, WellFormed, Mailing, NoRequest,
                NoToken, None
  \* Users that keep their addresses and proofs.
  <1>c. ASSUME UNCHANGED retired,
               \A u \in UserIds : /\ users'[u].email = users[u].email
                                  /\ users'[u].held = users[u].held
                                  /\ users'[u].verified = users[u].verified
                                  /\ users'[u].proven = users[u].proven
        PROVE  VerifiedMeansProven' /\ AddressIsHeld' /\ OneAddressOrProven'
    BY <1>c DEF MailInv, VerifiedMeansProven, AddressIsHeld, OneAddressOrProven, UserExists
  \* Requests that end, and addresses that are not given up.
  <1>d. ASSUME Ending, retired \subseteq retired',
               \A u \in UserIds \ retired' : users[u].held \subseteq users'[u].held
        PROVE  RequestsHaveTheAddress'
    <2>1. \A r \in Requests : req'[r] \in {req[r], NoRequest}
      BY <1>d, EndKeepsRequests
    <2> SUFFICES ASSUME NEW r \in Requests, Mailing(req'[r]), req'[r].user_id \notin retired'
                 PROVE  req'[r].email \in users'[req'[r].user_id].held
      BY DEF RequestsHaveTheAddress, Mailing
    <2>2. req'[r] = req[r]
      BY <2>1, <1>b
    <2>3. req[r].user_id \in UserIds \ retired'
      BY <2>2, <1>b
    <2> QED
      BY <2>2, <2>3, <1>d DEF MailInv, RequestsHaveTheAddress
  \* Token rows that are gone, or keep their kind, user and mailbox, or are new and right.
  <1>e. ASSUME DOMAIN tokens' = DOMAIN tokens, retired \subseteq retired',
               \A u \in UserIds \ retired' : users[u].held \subseteq users'[u].held,
               \A t \in 1..MaxTokens :
                  \/ tokens'[t].kind \notin {"verify", "reset"}
                  \/ /\ tokens'[t].kind = tokens[t].kind /\ tokens'[t].to = tokens[t].to
                     /\ tokens'[t].user_id = tokens[t].user_id
                  \/ tokens'[t].user_id \in retired'
                  \/ tokens'[t].to \in users'[tokens'[t].user_id].held
        PROVE  MailGoesToTheAccount'
    <2> SUFFICES ASSUME NEW t \in 1..MaxTokens, tokens'[t].kind \in {"verify", "reset"},
                        tokens'[t].user_id \notin retired'
                 PROVE  tokens'[t].to \in users'[tokens'[t].user_id].held
      BY <1>e, <1>a DEF MailGoesToTheAccount
    <2>1. CASE tokens'[t].to \in users'[tokens'[t].user_id].held
      BY <2>1
    <2>2. CASE /\ tokens'[t].kind = tokens[t].kind /\ tokens'[t].to = tokens[t].to
               /\ tokens'[t].user_id = tokens[t].user_id
      <3>1. tokens[t].user_id \in UserIds \ retired'
        BY <2>2, <1>b
      <3>2. tokens[t].to \in users[tokens[t].user_id].held
        BY <2>2, <3>1, <1>a, <1>e DEF MailInv, MailGoesToTheAccount
      <3> QED
        BY <2>2, <3>1, <3>2, <1>e
    <2> QED
      BY <1>e, <2>1, <2>2
  <1>1. CASE UNCHANGED vars
    BY <1>1, <1>c, <1>d, <1>e DEF vars, Ending, MailInv
  <1>2. ASSUME NEW r \in Requests, NEW q, ReadStep(r, q)
        PROVE  MailInv'
    <2>1. UNCHANGED <<users, tokens, retired>>
      BY <1>2 DEF ReadStep
    <2>2. ASSUME NEW o \in Requests, Mailing(req'[o]), req'[o].user_id \notin retired
          PROVE  req'[o].email \in users[req'[o].user_id].held
      <3>1. CASE o = r
        <4>1. req'[o] = q
          BY <3>1, <1>2, <1>a DEF ReadStep
        <4> QED
          BY <4>1, <2>2, <1>2 DEF ReadStep, MailInv, AddressIsHeld, UserExists
      <3>2. CASE o # r
        <4>1. req'[o] = req[o]
          BY <3>2, <1>2, <1>a DEF ReadStep
        <4> QED
          BY <4>1, <2>2 DEF MailInv, RequestsHaveTheAddress
      <3> QED
        BY <3>1, <3>2
    <2>3. RequestsHaveTheAddress'
      BY <2>1, <2>2 DEF RequestsHaveTheAddress, Mailing
    <2> QED
      BY <2>1, <2>3, <1>c, <1>e DEF MailInv
  <1>3. CASE FewerSessions
    BY <1>3, <1>c, <1>d, <1>e DEF FewerSessions, MailInv
  <1>4. CASE FewerTokens
    <2>1. DOMAIN tokens' = DOMAIN tokens
      BY <1>4 DEF FewerTokens
    <2>2. ASSUME NEW t \in 1..MaxTokens
          PROVE  \/ tokens'[t].kind \notin {"verify", "reset"}
                 \/ /\ tokens'[t].kind = tokens[t].kind /\ tokens'[t].to = tokens[t].to
                    /\ tokens'[t].user_id = tokens[t].user_id
      <3>1. CASE tokens'[t] = [tokens[t] EXCEPT !.expired = TRUE]
        BY <3>1, <1>a DEF TokenRow
      <3>2. CASE tokens'[t] \in {tokens[t], NoToken}
        BY <3>2, <1>b DEF None
      <3> QED
        BY <3>1, <3>2, <1>4, <1>a DEF FewerTokens
    <2>3. UNCHANGED <<users, req, retired>>
      BY <1>4 DEF FewerTokens
    <2>4. MailGoesToTheAccount'
      BY <2>1, <2>2, <2>3, <1>e
    <2> QED
      BY <2>3, <2>4, <1>c, <1>d DEF Ending, MailInv
  <1>5. ASSUME NEW r \in Requests, CreateUserWithEmailVerification(r)
        PROVE  MailInv'
    <2>1. Ending /\ UNCHANGED retired
      BY <1>5 DEF CreateUserWithEmailVerification, Ending
    <2>2. CASE UNCHANGED <<users, tokens>>
      BY <2>1, <2>2, <1>c, <1>d, <1>e DEF MailInv
    <2>3. ASSUME NEW u \in UserIds, NEW t \in 1..MaxTokens, ~UserExists(u),
                 users' = [users EXCEPT ![u] =
                               [email |-> req[r].email, password |-> req[r].password,
                                verified |-> FALSE, account |-> created + 1,
                                held |-> {req[r].email}, proven |-> {}, told |-> {}]],
                 tokens' = [tokens EXCEPT ![t] =
                                [kind |-> "verify", user_id |-> u, new_email |-> None,
                                 to |-> req[r].email, consumed |-> FALSE,
                                 expired |-> FALSE, applied |-> FALSE]]
          PROVE  MailInv'
      <3>1. /\ users'[u].email = req[r].email /\ users'[u].held = {req[r].email}
            /\ users'[u].verified = FALSE
            /\ \A v \in UserIds \ {u} : users'[v] = users[v]
        BY <2>3, <1>a
      <3>2. users[u].held = {}
        BY <2>3, <1>b DEF NoUser
      <3>3. \A v \in UserIds : users[v].held \subseteq users'[v].held
        BY <3>1, <3>2
      <3>4. /\ DOMAIN tokens' = DOMAIN tokens
            /\ \A k \in (1..MaxTokens) \ {t} : tokens'[k] = tokens[k]
            /\ tokens'[t].user_id = u /\ tokens'[t].to = req[r].email
        BY <2>3, <1>a
      <3>5. MailGoesToTheAccount'
        BY <2>1, <3>1, <3>3, <3>4, <1>e
      <3>6. VerifiedMeansProven' /\ AddressIsHeld' /\ OneAddressOrProven'
        BY <2>1, <3>1 DEF MailInv, VerifiedMeansProven, AddressIsHeld, OneAddressOrProven,
                          UserExists
      <3> QED
        BY <2>1, <3>3, <3>5, <3>6, <1>d DEF MailInv
    <2> QED
      BY <1>5, <2>2, <2>3, CreatedUser
  <1>6. ASSUME NEW r \in Requests, CreateSession(r)
        PROVE  MailInv'
    BY <1>6, <1>c, <1>d, <1>e DEF CreateSession, Ending, MailInv
  <1>7. ASSUME NEW r \in Requests, InsertTokenAndEnqueue(r)
        PROVE  MailInv'
    <2>1. PICK t \in 1..MaxTokens, k \in TokenRow :
             /\ tokens' = [tokens EXCEPT ![t] = k] /\ k.user_id = req[r].user_id
             /\ k.to = req[r].email
             /\ k.kind \in {"verify", "reset"} => Mailing(req[r])
      BY <1>7, InsertedToken
    <2>2. Ending /\ UNCHANGED <<users, retired>>
      BY <1>7 DEF InsertTokenAndEnqueue, Ending
    <2>3. \/ k.kind \notin {"verify", "reset"} \/ k.user_id \in retired
          \/ k.to \in users[k.user_id].held
      BY <2>1 DEF MailInv, RequestsHaveTheAddress
    <2>4. /\ DOMAIN tokens' = DOMAIN tokens /\ tokens'[t] = k
          /\ \A j \in (1..MaxTokens) \ {t} : tokens'[j] = tokens[j]
      BY <2>1, <1>a
    <2>5. MailGoesToTheAccount'
      BY <2>2, <2>3, <2>4, <1>e
    <2> QED
      BY <2>2, <2>5, <1>c, <1>d DEF MailInv
  \* A token row of which the histories of use change is as good as before.
  <1>f. ASSUME NEW t \in 1..MaxTokens, retired' = retired,
               \/ tokens' = tokens
               \/ tokens' = [tokens EXCEPT ![t].consumed = TRUE]
               \/ tokens' = [tokens EXCEPT ![t].applied = TRUE]
               \/ tokens' = [tokens EXCEPT ![t].consumed = TRUE, ![t].applied = TRUE],
               \A u \in UserIds \ retired : users[u].held \subseteq users'[u].held
        PROVE  MailGoesToTheAccount'
    <2>1. tokens[t] \in TokenRow
      BY <1>a
    <2>2. /\ DOMAIN tokens' = DOMAIN tokens
          /\ \A k \in 1..MaxTokens :
                /\ tokens'[k].kind = tokens[k].kind /\ tokens'[k].to = tokens[k].to
                /\ tokens'[k].user_id = tokens[k].user_id
      <3>1. CASE tokens' = tokens
        BY <3>1
      <3>2. CASE tokens' = [tokens EXCEPT ![t].consumed = TRUE]
        BY <3>2, <2>1, <1>a DEF TokenRow
      <3>3. CASE tokens' = [tokens EXCEPT ![t].applied = TRUE]
        BY <3>3, <2>1, <1>a DEF TokenRow
      <3>4. CASE tokens' = [tokens EXCEPT ![t].consumed = TRUE, ![t].applied = TRUE]
        BY <3>4, <2>1, <1>a DEF TokenRow
      <3> QED
        BY <1>f, <3>1, <3>2, <3>3, <3>4
    <2> QED
      BY <2>2, <1>e, <1>f
  <1>8. ASSUME NEW r \in Requests, NEW t \in DOMAIN tokens, NEW p \in Passwords,
               ConsumePasswordResetToken(r, t, p)
        PROVE  MailInv'
    <2>1. /\ UNCHANGED <<users, retired>>
          /\ tokens' = [tokens EXCEPT ![t].consumed = TRUE] /\ t \in 1..MaxTokens
      BY <1>8, <1>a DEF ConsumePasswordResetToken
    <2>2. req'[r].op = "reset_password" /\ \A o \in Requests \ {r} : req'[o] = req[o]
      BY <1>8, <1>a DEF ConsumePasswordResetToken, NoRequest
    <2>3. RequestsHaveTheAddress'
      BY <2>1, <2>2 DEF MailInv, RequestsHaveTheAddress, Mailing
    <2> QED
      BY <2>1, <2>3, <1>c, <1>f DEF MailInv
  <1>9. ASSUME NEW r \in Requests, SetPasswordAndRevokeSessions(r)
        PROVE  MailInv'
    <2>1. \A u \in UserIds : /\ users'[u].email = users[u].email
                             /\ users'[u].held = users[u].held
                             /\ users'[u].verified = users[u].verified
                             /\ users'[u].proven = users[u].proven
      BY <1>9, SetPassword
    <2>2. Ending /\ UNCHANGED retired
      BY <1>9 DEF SetPasswordAndRevokeSessions, Ending
    <2>3. MailGoesToTheAccount'
      <3>1. CASE tokens' = tokens
        BY <3>1, <2>1, <2>2, <1>e
      <3>2. CASE tokens' # tokens
        <4>1. /\ req[r].token \in 1..MaxTokens
              /\ tokens' = [tokens EXCEPT ![req[r].token].applied = TRUE]
          BY <3>2, <1>9, <1>a DEF SetPasswordAndRevokeSessions, WellFormed
        <4> QED
          BY <4>1, <2>1, <2>2, <1>f
      <3> QED
        BY <3>1, <3>2
    <2> QED
      BY <2>1, <2>2, <2>3, <1>c, <1>d DEF MailInv
  <1>10. ASSUME NEW r \in Requests, DeleteAccount(r)
         PROVE  MailInv'
    <2>1. PICK u \in UserIds :
              /\ users' = [users EXCEPT ![u] = NoUser]
              /\ tokens' = [t \in DOMAIN tokens |->
                              IF tokens[t].user_id = u THEN NoToken ELSE tokens[t]]
              /\ retired' = retired \cup {u}
      BY <1>10, DeletedUser
    <2>2. Ending
      BY <1>10 DEF DeleteAccount, Ending
    <2>3. users'[u] = NoUser /\ \A v \in UserIds \ {u} : users'[v] = users[v]
      BY <2>1, <1>a
    <2>4. MailGoesToTheAccount'
      BY <2>1, <2>3, <1>a, <1>b, <1>e DEF None
    <2>5. RequestsHaveTheAddress'
      BY <2>1, <2>2, <2>3, <1>d
    <2>6. VerifiedMeansProven' /\ AddressIsHeld' /\ OneAddressOrProven'
      BY <2>1, <2>3 DEF MailInv, VerifiedMeansProven, AddressIsHeld, OneAddressOrProven,
                        UserExists, NoUser
    <2> QED
      BY <2>4, <2>5, <2>6 DEF MailInv
  <1>11. ASSUME NEW t \in DOMAIN tokens, VerifyEmailByTokenHash(t)
         PROVE  MailInv'
    <2>1. PICK u \in UserIds :
              /\ u = tokens[t].user_id /\ UserExists(u) /\ tokens[t].kind = "verify"
              /\ \A v \in UserIds \ {u} : users'[v] = users[v]
              /\ users'[u].email = users[u].email /\ users'[u].held = users[u].held
              /\ users'[u].proven = users[u].proven \cup {tokens[t].to}
      BY <1>11, VerifiedUser
    <2>2. /\ UNCHANGED <<req, retired>>
          /\ tokens' = [tokens EXCEPT ![t].consumed = TRUE, ![t].applied = TRUE]
      BY <1>11 DEF VerifyEmailByTokenHash
    <2>3. MailGoesToTheAccount' /\ RequestsHaveTheAddress'
      BY <2>1, <2>2, <1>a, <1>d, <1>f DEF Ending
    <2>4. u \notin retired => users[u].email \in users'[u].proven
      <3>1. ASSUME u \notin retired
            PROVE  tokens[t].to \in users[u].held
        BY <2>1, <3>1 DEF MailInv, MailGoesToTheAccount
      <3> QED
        BY <2>1, <3>1 DEF MailInv, OneAddressOrProven
    <2>5. VerifiedMeansProven' /\ AddressIsHeld' /\ OneAddressOrProven'
      BY <2>1, <2>2, <2>4 DEF MailInv, VerifiedMeansProven, AddressIsHeld, OneAddressOrProven,
                              UserExists
    <2> QED
      BY <2>3, <2>5 DEF MailInv
  <1>12. ASSUME NEW t \in DOMAIN tokens, ConfirmEmailChange(t)
         PROVE  MailInv'
    <2>1. PICK u \in UserIds, e \in Emails :
              /\ \A v \in UserIds \ {u} : users'[v] = users[v]
              /\ users'[u].email = e
              /\ users'[u].held = users[u].held \cup {e}
              /\ users'[u].proven = users[u].proven \cup {e}
      BY <1>12, ChangedUser
    <2>2. /\ UNCHANGED <<req, retired>>
          /\ tokens' = [tokens EXCEPT ![t].consumed = TRUE, ![t].applied = TRUE]
      BY <1>12 DEF ConfirmEmailChange
    <2>3. MailGoesToTheAccount' /\ RequestsHaveTheAddress'
      BY <2>1, <2>2, <1>a, <1>d, <1>f DEF Ending
    <2>4. VerifiedMeansProven' /\ AddressIsHeld' /\ OneAddressOrProven'
      BY <2>1, <2>2 DEF MailInv, VerifiedMeansProven, AddressIsHeld, OneAddressOrProven,
                        UserExists
    <2> QED
      BY <2>3, <2>4 DEF MailInv
  <1> QED
    BY <1>1, <1>2, <1>3, <1>4, <1>5, <1>6, <1>7, <1>8, <1>9, <1>10, <1>11, <1>12, StepKinds
       DEF Write

\* No mailbox: an empty table mails nothing and proves nothing.
LEMMA InitMail == Init => MailInv
  BY DEF Init, MailInv, MailGoesToTheAccount, VerifiedMeansProven, RequestsHaveTheAddress,
         AddressIsHeld, OneAddressOrProven, Mailing, NoRequest, NoUser, NoToken, UserExists, None

\* Verification and reset tokens are mailed only to an address the account has or had.
THEOREM MailGoesHome == Spec => []MailGoesToTheAccount
  <1>1. MailInv => MailGoesToTheAccount
    BY DEF MailInv
  <1> QED
    BY InitTypeInv, NextTypeInv, InitMail, NextMail, <1>1, PTL DEF Spec

\* A verified account has proved its present address, although an old verification link
\* may be used after the address was changed.
THEOREM VerifiedIsProven == Spec => []VerifiedMeansProven
  <1>1. MailInv => VerifiedMeansProven
    BY DEF MailInv
  <1> QED
    BY InitTypeInv, NextTypeInv, InitMail, NextMail, <1>1, PTL DEF Spec

-----------------------------------------------------------------------------
\* Every step that takes an address from an account tells it.
LEMMA NextTold ==
    TypeInv /\ FormerAddressesWereTold /\ [Next]_vars => FormerAddressesWereTold'
  <1> SUFFICES ASSUME TypeInv, FormerAddressesWereTold, [Next]_vars, SendOldEmailNotice
               PROVE  \A u \in UserIds : users'[u].email # None =>
                         users'[u].held \ {users'[u].email} \subseteq users'[u].told
    BY DEF FormerAddressesWereTold, UserExists
  <1>a. /\ DOMAIN users = UserIds
        /\ \A u \in UserIds : UserExists(u) =>
              users[u].held \ {users[u].email} \subseteq users[u].told
    BY TypeFacts DEF FormerAddressesWereTold
  <1> DEFINE Told(u) == users'[u].held \ {users'[u].email} \subseteq users'[u].told
  <1>b. ASSUME NEW u \in UserIds, users'[u].email = users[u].email,
               users'[u].held = users[u].held, users'[u].told = users[u].told
        PROVE  users'[u].email # None => Told(u)
    BY <1>a, <1>b DEF UserExists
  <1>1. CASE UNCHANGED <<users, retired>>
    BY <1>1, <1>b
  <1>2. ASSUME NEW r \in Requests, CreateUserWithEmailVerification(r), NEW v \in UserIds
        PROVE  users'[v].email # None => Told(v)
    <2>1. CASE users' = users
      BY <2>1, <1>b
    <2>2. CASE users' # users
      <3>1. PICK u \in UserIds :
               users' = [users EXCEPT ![u] =
                               [email |-> req[r].email, password |-> req[r].password,
                                verified |-> FALSE, account |-> created + 1,
                                held |-> {req[r].email}, proven |-> {}, told |-> {}]]
        BY <1>2, <2>2, CreatedUser
      <3>2. CASE v = u
        <4>1. users'[u].held = {req[r].email} /\ users'[u].email = req[r].email
          BY <3>1, <1>a
        <4> QED
          BY <3>2, <4>1
      <3>3. CASE v # u
        <4>1. users'[v] = users[v]
          BY <3>1, <3>3, <1>a
        <4> QED
          BY <4>1, <1>b
      <3> QED
        BY <3>2, <3>3
    <2> QED
      BY <2>1, <2>2
  <1>3. ASSUME NEW r \in Requests, SetPasswordAndRevokeSessions(r), NEW v \in UserIds
        PROVE  users'[v].email # None => Told(v)
    BY <1>3, <1>b, SetPassword
  <1>4. ASSUME NEW r \in Requests, DeleteAccount(r), NEW v \in UserIds
        PROVE  users'[v].email # None => Told(v)
    <2>1. users'[v] = NoUser \/ users'[v] = users[v]
      BY <1>4, <1>a, DeletedUser
    <2> QED
      BY <2>1, <1>b DEF NoUser
  <1>5. ASSUME NEW t \in DOMAIN tokens, VerifyEmailByTokenHash(t), NEW v \in UserIds
        PROVE  users'[v].email # None => Told(v)
    BY <1>5, <1>b, VerifiedUser
  <1>6. ASSUME NEW t \in DOMAIN tokens, ConfirmEmailChange(t), NEW v \in UserIds
        PROVE  users'[v].email # None => Told(v)
    <2>1. PICK u \in UserIds, e \in Emails :
              /\ UserExists(u) /\ \A w \in UserIds \ {u} : users'[w] = users[w]
              /\ users'[u].email = e
              /\ users'[u].held = users[u].held \cup {e}
              /\ users'[u].told = users[u].told \cup OldEmailNotice(u, e)
      BY <1>6, ChangedUser
    <2>2. CASE v = u
      BY <2>1, <2>2, <1>a DEF OldEmailNotice
    <2>3. CASE v # u
      BY <2>1, <2>3, <1>b
    <2> QED
      BY <2>2, <2>3
  <1> QED
    BY <1>1, <1>2, <1>3, <1>4, <1>5, <1>6, UsersKept

\* Every address an account has given up was sent the notice of the change.
THEOREM FormerAddressesAreTold == Spec => []FormerAddressesWereTold
  <1>1. Init => FormerAddressesWereTold
    BY DEF Init, FormerAddressesWereTold, UserExists, NoUser
  <1> QED
    BY InitTypeInv, NextTypeInv, NextTold, <1>1, PTL DEF Spec

=============================================================================
