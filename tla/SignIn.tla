------------------------------- MODULE SignIn -------------------------------
(***************************************************************************)
(* The ways to sign in (internal/server, internal/auth): a password, a     *)
(* password and then a code on the strength of a signed pending cookie, a  *)
(* passkey.  The tabs of a browser share its cookies between the requests  *)
(* of different users; what else happens to the accounts (a new password,  *)
(* 2FA turned on or off, a passkey removed) comes at any time.  The server *)
(* keeps no record of a half-finished sign-in: it is in the cookies.       *)
(*                                                                         *)
(* The users are verified.  Accounts are not deleted here (module Accounts) *)
(* and that a code is good once is in module TOTP.                         *)
(***************************************************************************)
EXTENDS Integers

CONSTANTS
    Users,            \* accounts; a user's WebAuthn handle is the user
    Sites,            \* sites to check: are passkeys configured, which users make
                      \* use of 2FA, which browser is a tab of
    Browsers,
    Tabs,             \* tabs of the browsers, each with one request at a time
    Passkeys,         \* credentials of the authenticators
    PendingTTL,       \* totpPendingCookieTTL, in ticks
    MaxSessions,      \* bound: rows in the table sessions
    MaxCount          \* bound: signatures of an authenticator

ASSUME SignInAssumption ==
    /\ PendingTTL \in Nat /\ MaxSessions \in Nat /\ MaxCount \in Nat
    /\ Sites \subseteq [passkeys : BOOLEAN, totp : SUBSET Users,
                    browser : [Tabs -> Browsers]]

VARIABLES
    site,         \* the site; it does not change
    totp,         \* totp[u] : user u has an enabled row in user_totp
    credentials,  \* the table webauthn_credentials, by credential id
    sessions,     \* the table sessions, by token
    jar,          \* jar[b] : the cookies of browser b
    keys,         \* the authenticators
    tab           \* tab[r] : the tab, its request and what it has read

vars == <<site, totp, credentials, sessions, jar, keys, tab>>

-----------------------------------------------------------------------------
None == "none"

ASSUME NoneAssumption == None \notin Users \cup Passkeys \cup Tabs

\* Times are ages, up to one tick more than any guard or property asks for.
Ages == 0..(PendingTTL + 1)
Older(age) == IF age <= PendingTTL THEN age + 1 ELSE age

\* A credential row; no user, no row.
Credential == [user_id : Users \cup {None}, sign_count : 0..MaxCount]
NoCredential == [user_id |-> None, sign_count |-> 0]

\* How a session is signed in.  The rest is history of the sign-in: on, 2FA was on
\* from its beginning to its end so far; replaced, the password it checked is no
\* longer the user's; late, it already was not when the password was answered;
\* since, how long ago it was replaced (for a challenge: when the code was asked for).
Ways == {"password", "challenge", "passkey"}
SignInFacts == [via : Ways \cup {None}, on : BOOLEAN, replaced : BOOLEAN,
                late : BOOLEAN, since : Ages]
NoFacts == [via |-> None, on |-> FALSE, replaced |-> FALSE, late |-> FALSE, since |-> 0]

Session == [user_id : Users \cup {None}, facts : SignInFacts]
NoSession == [user_id |-> None, facts |-> NoFacts]

\* totp_pending names the user and tells its age; facts are history.  The
\* ceremony cookies carry a random challenge and, for a registration, the user;
\* the challenge is that of the last ceremony of its kind begun by a tab.
Pending == [user_id : Users \cup {None}, age : Ages, facts : SignInFacts]
NoPending == [user_id |-> None, age |-> 0, facts |-> NoFacts]
Ceremony == [user_id : Users \cup {None}, challenge : Tabs \cup {None}]
NoCeremony == [user_id |-> None, challenge |-> None]
Jar == [session : 0..MaxSessions, totp_pending : Pending,
        passkey_register : Ceremony, passkey_login : Ceremony]
NoCookies == [session |-> 0, totp_pending |-> NoPending,
              passkey_register |-> NoCeremony, passkey_login |-> NoCeremony]

\* An authenticator's credential: the handle it was made for, and its counter.
Key == [handle : Users \cup {None}, count : 0..MaxCount]

Tab == [pc : {"idle", "totp", "verify", "session", "create", "insert", "assert",
              "signed", "update"},
        user_id : Users \cup {None}, facts : SignInFacts,
        key : Passkeys \cup {None}, count : 0..MaxCount, stored : 0..MaxCount]
NoTab == [pc |-> "idle", user_id |-> None, facts |-> NoFacts,
          key |-> None, count |-> 0, stored |-> 0]

\* The shape of the state; a credential without a user is no row.
TypeOK ==
    /\ site \in Sites
    /\ totp \in [Users -> BOOLEAN]
    /\ credentials \in [Passkeys -> Credential]
    /\ \A c \in Passkeys : credentials[c].user_id = None => credentials[c] = NoCredential
    /\ sessions \in [1..MaxSessions -> Session]
    /\ jar \in [Browsers -> Jar]
    /\ keys \in [Passkeys -> Key]
    /\ tab \in [Tabs -> Tab]

-----------------------------------------------------------------------------

Init ==
    /\ site \in Sites
    /\ totp = [u \in Users |-> FALSE]
    /\ credentials = [c \in Passkeys |-> NoCredential]
    /\ sessions = [s \in 1..MaxSessions |-> NoSession]
    /\ jar = [b \in Browsers |-> NoCookies]
    /\ keys = [c \in Passkeys |-> [handle |-> None, count |-> 0]]
    /\ tab = [r \in Tabs |-> NoTab]

(* The session middleware.  A cookie that names no row is cleared and as      *)
(* good as none.                                                           *)

\* The cookies a request of tab r comes with, and those its answer leaves.
Cookies(r) == jar[site.browser[r]]
SetCookies(r, cookies) == jar' = [jar EXCEPT ![site.browser[r]] = cookies]

SignedIn(cookies) == cookies.session # 0 /\ sessions[cookies.session] # NoSession
CurrentUser(r) == sessions[Cookies(r).session].user_id
requireAnonymous(r) == ~SignedIn(Cookies(r))

PasskeysEnabled == site.passkeys

End(r) == tab' = [tab EXCEPT ![r] = NoTab]

(* A password.                                                             *)

Login(r, u) ==
    /\ tab[r] = NoTab
    /\ requireAnonymous(r)
    /\ tab' = [tab EXCEPT ![r] =
                 [NoTab EXCEPT !.pc = "totp", !.user_id = u,
                    !.facts = [NoFacts EXCEPT !.via = "password", !.on = totp[u]]]]
    /\ UNCHANGED <<site, totp, credentials, sessions, jar, keys>>

\* Mutant: a failed lookup counts as no second factor.
NoTOTP(u) == FALSE

\* GetEnabledTOTPByUserID finds a row.
EnabledTOTP(u) == totp[u]

setTOTPPendingCookie(r) ==
    SetCookies(r, [Cookies(r) EXCEPT !.totp_pending =
                     [user_id |-> tab[r].user_id, age |-> 0,
                      facts |-> [NoFacts EXCEPT !.replaced = tab[r].facts.replaced,
                                                !.late = tab[r].facts.replaced]]])

\* With 2FA on the answer is the pending cookie; otherwise Login goes on to the
\* session.
CheckTOTP(r) ==
    /\ tab[r].pc = "totp"
    /\ \/ /\ EnabledTOTP(tab[r].user_id)
          /\ setTOTPPendingCookie(r)
          /\ End(r)
       \/ /\ ~EnabledTOTP(tab[r].user_id)
          /\ tab' = [tab EXCEPT ![r].pc = "session"]
          /\ UNCHANGED jar
    /\ UNCHANGED <<site, totp, credentials, sessions, keys>>

(* The challenge page.                                                     *)

\* Mutant: the browser is trusted to drop the cookie.
PendingPresent(r) == Cookies(r).totp_pending # NoPending

\* The cookie is there, signed, and not too old.
totpPendingLoginFromCookie(r) ==
    /\ Cookies(r).totp_pending # NoPending
    /\ Cookies(r).totp_pending.age <= PendingTTL

\* VerifyTOTPLogin reads the row; without one the request ends in an error.
Challenge(r) ==
    LET p == Cookies(r).totp_pending IN
    /\ tab[r] = NoTab
    /\ requireAnonymous(r)
    /\ totpPendingLoginFromCookie(r)
    /\ EnabledTOTP(p.user_id)
    /\ tab' = [tab EXCEPT ![r] =
                 [NoTab EXCEPT !.pc = "verify", !.user_id = p.user_id,
                    !.facts = [p.facts EXCEPT !.via = "challenge", !.on = TRUE]]]
    /\ UNCHANGED <<site, totp, credentials, sessions, jar, keys>>

\* The counter is claimed or the backup code consumed.  ClaimTOTPCounter needs a row,
\* enabled or not, and totp does not tell a deleted row from that of a setup begun
\* since.  Any other answer ends the request.
VerifyCode(r) ==
    /\ tab[r].pc = "verify"
    /\ tab' = [tab EXCEPT ![r].pc = "session"]
    /\ UNCHANGED <<site, totp, credentials, sessions, jar, keys>>

\* A random token: one that no row and no cookie has.
FreshSession(s) ==
    /\ sessions[s] = NoSession
    /\ \A b \in Browsers : jar[b].session # s
NewSession == CHOOSE s \in 1..MaxSessions : FreshSession(s)

\* The cookies of the answer that completes a sign-in.
SessionCookies(r, s) ==
    [Cookies(r) EXCEPT
       !.session = s,
       !.totp_pending = IF tab[r].facts.via = "challenge" THEN NoPending ELSE @,
       !.passkey_login = IF tab[r].facts.via = "passkey" THEN NoCeremony ELSE @]

\* createSessionForUser, and the answer, which may be lost.
CreateSession(r) ==
    /\ tab[r].pc = "session"
    /\ \E s \in 1..MaxSessions : FreshSession(s)
    /\ sessions' = [sessions EXCEPT ![NewSession] =
                      [user_id |-> tab[r].user_id, facts |-> tab[r].facts]]
    /\ \E c \in {Cookies(r), SessionCookies(r, NewSession)} : SetCookies(r, c)
    /\ End(r)
    /\ UNCHANGED <<site, totp, credentials, keys>>

\* logout deletes the row and clears the cookie.
Logout(b) ==
    /\ SignedIn(jar[b])
    /\ sessions' = [sessions EXCEPT ![jar[b].session] = NoSession]
    /\ jar' = [jar EXCEPT ![b].session = 0]
    /\ UNCHANGED <<site, totp, credentials, keys, tab>>

(* Passkeys: a ceremony begins in a tab and is finished by a later request of  *)
(* the same tab; the cookie in between belongs to the browser.             *)

passkeyRegisterBegin(r) ==
    /\ tab[r] = NoTab
    /\ PasskeysEnabled
    /\ SignedIn(Cookies(r))
    /\ SetCookies(r, [Cookies(r) EXCEPT !.passkey_register =
                        [user_id |-> CurrentUser(r), challenge |-> r]])
    /\ tab' = [tab EXCEPT ![r] = [NoTab EXCEPT !.pc = "create", !.user_id = CurrentUser(r)]]
    /\ UNCHANGED <<site, totp, credentials, sessions, keys>>

\* navigator.credentials.create: the authenticator makes a credential for the
\* user of the options the tab got.
MakeCredential(r, c) ==
    /\ tab[r].pc = "create" /\ tab[r].key = None
    /\ keys[c].handle = None
    /\ keys' = [keys EXCEPT ![c].handle = tab[r].user_id]
    /\ tab' = [tab EXCEPT ![r].key = c]
    /\ UNCHANGED <<site, totp, credentials, sessions, jar>>

\* Mutant: only the challenge is compared.
ChallengeMatches(r) == Cookies(r).passkey_register.challenge = r

\* CreateCredential: the cookie's ceremony is the one the response was made in,
\* and it is of the user who is signed in now.
CreateCredential(r) ==
    /\ Cookies(r).passkey_register.challenge = r
    /\ Cookies(r).passkey_register.user_id = CurrentUser(r)

\* The answer clears the cookie, whatever comes of the response.
passkeyRegisterFinish(r) ==
    /\ tab[r].pc = "create" /\ tab[r].key # None
    /\ SignedIn(Cookies(r))
    /\ Cookies(r).passkey_register # NoCeremony
    /\ IF CreateCredential(r)
       THEN /\ tab' = [tab EXCEPT ![r].pc = "insert", ![r].user_id = CurrentUser(r)]
            /\ UNCHANGED jar
       ELSE /\ SetCookies(r, [Cookies(r) EXCEPT !.passkey_register = NoCeremony])
            /\ End(r)
    /\ UNCHANGED <<site, totp, credentials, sessions, keys>>

\* The unique credential id; a credential just made has signed nothing.
CreateWebAuthnCredential(r) ==
    /\ tab[r].pc = "insert"
    /\ credentials[tab[r].key] = NoCredential
    /\ credentials' = [credentials EXCEPT ![tab[r].key] =
                         [user_id |-> tab[r].user_id, sign_count |-> 0]]
    /\ SetCookies(r, [Cookies(r) EXCEPT !.passkey_register = NoCeremony])
    /\ End(r)
    /\ UNCHANGED <<site, totp, sessions, keys>>

passkeyLoginBegin(r) ==
    /\ tab[r] = NoTab
    /\ PasskeysEnabled
    /\ requireAnonymous(r)
    /\ SetCookies(r, [Cookies(r) EXCEPT !.passkey_login =
                        [user_id |-> None, challenge |-> r]])
    /\ tab' = [tab EXCEPT ![r] = [NoTab EXCEPT !.pc = "assert"]]
    /\ UNCHANGED <<site, totp, credentials, sessions, keys>>

\* navigator.credentials.get: the authenticator signs and counts.
Sign(r, c) ==
    /\ tab[r].pc = "assert"
    /\ keys[c].handle # None
    /\ keys[c].count < MaxCount
    /\ keys' = [keys EXCEPT ![c].count = @ + 1]
    /\ tab' = [tab EXCEPT ![r].pc = "signed", ![r].key = c, ![r].count = keys[c].count + 1]
    /\ UNCHANGED <<site, totp, credentials, sessions, jar>>

\* ValidatePasskeyLogin: the cookie's challenge was signed, the handle names a
\* user, and that user has the credential.
ValidatePasskeyLogin(r) ==
    /\ Cookies(r).passkey_login.challenge = r
    /\ credentials[tab[r].key].user_id = keys[tab[r].key].handle

passkeyLoginFinish(r) ==
    LET u == keys[tab[r].key].handle IN
    /\ tab[r].pc = "signed"
    /\ requireAnonymous(r)
    /\ Cookies(r).passkey_login # NoCeremony
    /\ IF ValidatePasskeyLogin(r)
       THEN /\ tab' = [tab EXCEPT ![r] =
                         [NoTab EXCEPT !.pc = "update", !.user_id = u, !.key = tab[r].key,
                            !.count = tab[r].count,
                            !.stored = credentials[tab[r].key].sign_count,
                            !.facts = [NoFacts EXCEPT !.via = "passkey", !.on = totp[u]]]]
            /\ UNCHANGED jar
       ELSE /\ SetCookies(r, [Cookies(r) EXCEPT !.passkey_login = NoCeremony])
            /\ End(r)
    /\ UNCHANGED <<site, totp, credentials, sessions, keys>>

\* Mutant: the counter of the response is stored as it is.
ReportedCount(stored, reported) == reported

\* The library keeps the counter it was given when the reported one is not larger
\* (and raises a warning that nothing here reads).
SignCount(stored, reported) == IF reported > stored THEN reported ELSE stored

\* Mutant: the row is written whether or not it is still there.
UpsertCount(c, n) == [credentials EXCEPT ![c].sign_count = n]

\* By credential id alone: without a row it changes nothing and the login goes on.
StoreCount(c, n) ==
    IF credentials[c] = NoCredential THEN credentials
    ELSE [credentials EXCEPT ![c].sign_count = n]

UpdateWebAuthnCredentialOnLogin(r) ==
    /\ tab[r].pc = "update"
    /\ credentials' = StoreCount(tab[r].key, SignCount(tab[r].stored, tab[r].count))
    /\ tab' = [tab EXCEPT ![r].pc = "session", ![r].key = None, ![r].count = 0,
                          ![r].stored = 0]
    /\ UNCHANGED <<site, totp, sessions, jar, keys>>

DeletePasskey(c) ==
    /\ credentials[c] # NoCredential
    /\ credentials' = [credentials EXCEPT ![c] = NoCredential]
    /\ UNCHANGED <<site, totp, sessions, jar, keys, tab>>

(* What other requests do to the accounts.                                 *)

\* SetPasswordAndRevokeSessions, by a change or a reset: no word of it reaches the
\* cookies or the requests on their way, but for their history.
SetPassword(u) ==
    /\ sessions' = [s \in DOMAIN sessions |->
                      IF sessions[s].user_id = u THEN NoSession ELSE sessions[s]]
    /\ tab' = [r \in Tabs |-> IF tab[r].user_id = u /\ tab[r].pc = "totp"
                              THEN [tab[r] EXCEPT !.facts.replaced = TRUE] ELSE tab[r]]
    /\ jar' = [b \in Browsers |->
                 IF jar[b].totp_pending.user_id = u
                 THEN [jar[b] EXCEPT !.totp_pending.facts.replaced = TRUE] ELSE jar[b]]
    /\ UNCHANGED <<site, totp, credentials, keys>>

EnableTOTP(u) ==
    /\ ~totp[u]
    /\ totp' = [totp EXCEPT ![u] = TRUE]
    /\ UNCHANGED <<site, credentials, sessions, jar, keys, tab>>

\* The history of sign-ins in progress is brought up to date.
DisableTOTP(u) ==
    /\ totp[u]
    /\ totp' = [totp EXCEPT ![u] = FALSE]
    /\ tab' = [r \in Tabs |->
                 IF tab[r].user_id = u THEN [tab[r] EXCEPT !.facts.on = FALSE] ELSE tab[r]]
    /\ UNCHANGED <<site, credentials, sessions, jar, keys>>

\* The cookies of an answer that reports an error: a ceremony that was accepted
\* for its finish is over.
ErrorCookies(r) ==
    CASE tab[r].pc = "insert" -> [Cookies(r) EXCEPT !.passkey_register = NoCeremony]
      [] tab[r].facts.via = "passkey" -> [Cookies(r) EXCEPT !.passkey_login = NoCeremony]
      [] OTHER -> Cookies(r)

\* A request fails, is refused, or its tab is closed; a ceremony that takes longer
\* than passkeyCeremonyTimeout ends like that too, its cookie being worth nothing.
Abort(r) ==
    /\ tab[r] # NoTab
    /\ \E c \in {Cookies(r), ErrorCookies(r)} : SetCookies(r, c)
    /\ End(r)
    /\ UNCHANGED <<site, totp, credentials, sessions, keys>>

\* The pending cookies grow older, and so do the changes of their passwords.
AfterTick(p) ==
    IF p = NoPending THEN p
    ELSE [p EXCEPT !.age = Older(@),
                   !.facts.since = IF p.facts.replaced THEN Older(@) ELSE 0]

Tick ==
    /\ jar' = [b \in Browsers |-> [jar[b] EXCEPT !.totp_pending = AfterTick(@)]]
    /\ UNCHANGED <<site, totp, credentials, sessions, keys, tab>>

-----------------------------------------------------------------------------

Next ==
    \/ \E r \in Tabs :
          \/ \E u \in Users : Login(r, u)
          \/ CheckTOTP(r)
          \/ Challenge(r)
          \/ VerifyCode(r)
          \/ CreateSession(r)
          \/ passkeyRegisterBegin(r)
          \/ \E c \in Passkeys : MakeCredential(r, c)
          \/ passkeyRegisterFinish(r)
          \/ CreateWebAuthnCredential(r)
          \/ passkeyLoginBegin(r)
          \/ \E c \in Passkeys : Sign(r, c)
          \/ passkeyLoginFinish(r)
          \/ UpdateWebAuthnCredentialOnLogin(r)
          \/ Abort(r)
    \/ \E b \in Browsers : Logout(b)
    \/ \E c \in Passkeys : DeletePasskey(c)
    \/ \E u \in Users : SetPassword(u)
    \/ \E u \in site.totp : EnableTOTP(u) \/ DisableTOTP(u)
    \/ Tick

Spec == Init /\ [][Next]_vars

-----------------------------------------------------------------------------
(* Correctness.                                                            *)

\* A user whose 2FA was on from the beginning of a sign-in to its end gets a
\* session only with a code or a passkey.
SecondFactorAsked ==
    \A s \in DOMAIN sessions :
       sessions[s].facts.on => sessions[s].facts.via \in {"challenge", "passkey"}

\* A replaced password opens no session by way of the pending cookie once the
\* cookie's time to live has passed since the change, unless the login was
\* answered only after the change: the server cannot revoke the cookie, but it
\* does not outlive the change by more than that.
OldPasswordsRunOut ==
    \A s \in DOMAIN sessions :
       LET f == sessions[s].facts IN
       f.via = "challenge" /\ f.replaced => f.late \/ f.since <= PendingTTL

\* A stored passkey belongs to the user whose handle the authenticator keeps for
\* it, although another user may have signed in between the two halves of the
\* registration; otherwise it could never be used to sign in.
PasskeysMatchTheirUsers ==
    \A c \in Passkeys :
       credentials[c] # NoCredential => credentials[c].user_id = keys[c].handle

\* The stored counter of a passkey falls only when two sign-ins with it overlap
\* and the one that read it earlier writes it later.
CountersFallOnlyInOverlap ==
    [][\A c \in Passkeys :
          /\ credentials[c] # NoCredential /\ credentials'[c] # NoCredential
          /\ credentials'[c].sign_count < credentials[c].sign_count
          => \E r \in Tabs : /\ tab[r].pc = "update" /\ tab[r].key = c
                             /\ tab[r].stored < credentials[c].sign_count]_vars

=============================================================================
