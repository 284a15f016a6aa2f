------------------------------- MODULE Pages --------------------------------
(***************************************************************************)
(* Requests and answers (internal/server): the routes, the middleware that *)
(* loads the session and keeps visitors out of pages, the handlers as what *)
(* they answer - a page, a redirect, a plain text - with the cookies they  *)
(* set, and a browser whose tabs share the cookies and follow redirects.   *)
(*                                                                         *)
(* An answer travels: between a handler and the arrival of its cookies the *)
(* other tab, other browsers and mailed links go on.  The statements of    *)
(* one handler are one step here; they are taken apart in Accounts, TOTP   *)
(* and SignIn.  The browser is modelled from what its cookies are for.     *)
(***************************************************************************)
EXTENDS Integers, FiniteSets

CONSTANTS
    Users,          \* accounts, by address
    Tokens,         \* bound: session tokens, each issued once
    Tabs,           \* tabs of the browser, each with one request at a time
    Visits,         \* visits to check: which requests are begun in which tab, and
                    \* bounds: accounts at a time, sessions ever
    Nexts,          \* what the parameter next may say
    MaxRedirects    \* redirects of one navigation

VARIABLES
    visit,      \* the visit; it does not change
    users,      \* users[u] : is there an account, is its address verified
    sessions,   \* sessions[k] : the user of session k
    jar,        \* the browser's cookies
    tab,        \* tab[t] : the request of tab t and where it is
    hops,       \* history: redirects tab t followed since anyone else did anything
    owed        \* history: the navigation of t carries a message to show

vars == <<visit, users, sessions, jar, tab, hops, owed>>

-----------------------------------------------------------------------------
(* The routes.                                                             *)

None == "none"

\* The gate of a path is that of its GET and of its POST.
AnonymousPaths == {"Register", "Login", "ForgotPassword", "ResetPassword",
    "ResetPassword?token", "ResendVerification", "AccountTwoFactorChallenge",
    "LoginPasskeyBegin", "LoginPasskeyFinish"}
AuthPaths == {"Logout", "VerifyEmail", "VerifyEmailResend"}
VerifiedAuthPaths == {"Account", "ChangePassword", "ChangeEmail", "AccountDelete",
    "AccountSessionsRevoke", "AccountSessionsRevokeOthers",
    "AccountTwoFactor", "AccountTwoFactorSetup", "AccountTwoFactorConfirm",
    "AccountTwoFactorDisable", "AccountTwoFactorRegenerateCodes",
    "AccountPasskeys", "AccountPasskeysRegisterBegin", "AccountPasskeysRegisterFinish",
    "AccountPasskeysRename", "AccountPasskeysDelete", "Projects", "ProjectsDelete"}
OpenPaths == {"Home", "ConfirmEmail", "ConfirmEmailChange", "NotFound"}
Paths == AnonymousPaths \cup AuthPaths \cup VerifiedAuthPaths \cup OpenPaths

PostOnlyPaths == {"Logout", "VerifyEmailResend", "AccountSessionsRevoke",
    "AccountSessionsRevokeOthers", "AccountTwoFactorSetup", "AccountTwoFactorConfirm",
    "AccountTwoFactorDisable", "AccountTwoFactorRegenerateCodes",
    "AccountPasskeysRegisterBegin", "AccountPasskeysRegisterFinish",
    "AccountPasskeysRename", "AccountPasskeysDelete", "LoginPasskeyBegin",
    "LoginPasskeyFinish", "ProjectsDelete"}
GetOnlyPaths == OpenPaths \cup {"ResetPassword?token", "VerifyEmail", "Account",
    "AccountTwoFactor", "AccountPasskeys"}

GET(path) == [method |-> "GET", path |-> path]
POST(path) == [method |-> "POST", path |-> path]
Routes == {GET(p) : p \in Paths} \cup {POST(p) : p \in Paths \ GetOnlyPaths}

ASSUME PagesAssumption ==
    /\ Visits \subseteq [begins : [Tabs -> SUBSET Routes], accounts : Nat, sessions : Nat]
    /\ Nexts \subseteq Paths \cup {"", "elsewhere"}
    /\ MaxRedirects \in Nat
    /\ {None, "unused", "ended", "keep", "clear"} \cap (Users \cup Tokens) = {}

\* A path of this site is kept; anything else is dropped.
safeRedirectPath(value) == IF value \in Paths THEN value ELSE ""

-----------------------------------------------------------------------------
(* The state.                                                              *)

\* Cookies; reset stands for a reset token, pending for a half-finished sign-in,
\* flash for a message.  Paths of cookies: reset and pending go to their pages only.
Cookies == [session : Tokens \cup {None}, flash : BOOLEAN, reset : BOOLEAN,
            pending : Users \cup {None}]
NoCookies == [session |-> None, flash |-> FALSE, reset |-> FALSE, pending |-> None]

CookiesFor(path, cookies) ==
    [cookies EXCEPT !.reset = @ /\ path \in {"ResetPassword", "ResetPassword?token"},
                !.pending = IF path = "AccountTwoFactorChallenge" THEN @ ELSE None]

\* An answer: where it leads, and what its Set-Cookie headers do.
Answer == [to : Paths \cup {"page", "text"}, session : Tokens \cup {"keep", "clear"},
           flash : {"keep", "set", "pop"}, reset : {"keep", "set", "clear"},
           pending : Users \cup {"keep", "clear"}]
NoAnswer == [to |-> "text", session |-> "keep", flash |-> "keep", reset |-> "keep",
             pending |-> "keep"]

\* user and verified: what loadSession found.
Tab == [at : {"idle", "sent", "handler", "answered"}, route : Routes,
        cookies : Cookies, user : Users \cup {None}, verified : BOOLEAN, answer : Answer]
Idle == [at |-> "idle", route |-> GET("Home"), cookies |-> NoCookies, user |-> None,
         verified |-> FALSE, answer |-> NoAnswer]

Exists(u) == users[u] # "absent"
Room == Cardinality({u \in Users : Exists(u)}) < visit.accounts
RoomForSession == Cardinality({k \in Tokens : sessions[k] # "unused"}) < visit.sessions
Live(k) == k # None /\ sessions[k] \in Users

\* Mutant: no cascade.
SessionsStay(u, kept) == sessions

\* Sessions are deleted with their account and by a change of its password or address.
WithoutSessionsOf(u, kept) ==
    [k \in Tokens |-> IF sessions[k] = u /\ k \notin kept THEN "ended" ELSE sessions[k]]

\* The shape of the state; a session has an account.
TypeOK ==
    /\ visit \in Visits
    /\ users \in [Users -> {"absent", "unverified", "verified"}]
    /\ sessions \in [Tokens -> Users \cup {"unused", "ended"}]
    /\ \A k \in Tokens : Live(k) => Exists(sessions[k])
    /\ jar \in Cookies
    /\ tab \in [Tabs -> Tab]
    /\ hops \in [Tabs -> 0..(MaxRedirects + 1)]
    /\ owed \in [Tabs -> BOOLEAN]

Init ==
    /\ visit \in Visits
    /\ users = [u \in Users |-> "absent"]
    /\ sessions = [k \in Tokens |-> "unused"]
    /\ jar = NoCookies
    /\ tab = [t \in Tabs |-> Idle]
    /\ hops = [t \in Tabs |-> 0]
    /\ owed = [t \in Tabs |-> FALSE]

\* What someone other than tab t changed ends what is said of a navigation.
Disturb(others) ==
    /\ hops' = [t \in Tabs |-> IF t \in others THEN 0 ELSE hops[t]]
    /\ owed' = [t \in Tabs |-> owed[t] /\ t \notin others]

-----------------------------------------------------------------------------
(* A request on its way to the handler.                                    *)

\* The user follows a link, opens a bookmark or a mail, or sends a form.
Send(t, route) ==
    /\ tab[t] = Idle
    /\ tab' = [tab EXCEPT ![t].at = "sent", ![t].route = route,
                          ![t].cookies = CookiesFor(route.path, jar)]
    /\ UNCHANGED <<visit, users, sessions, jar, hops, owed>>

\* What the middleware has put in the answer: an invalid session cookie is cleared.
Headers(t, user) ==
    [NoAnswer EXCEPT !.session =
       IF tab[t].cookies.session # None /\ user = None THEN "clear" ELSE "keep"]

Redirect(answer, path) == [answer EXCEPT !.to = path]

requireAnonymous(verified) == IF verified THEN "Account" ELSE "VerifyEmail"
requireAuth(method) == IF method = "GET" THEN "Login" ELSE "text"
requireVerifiedAuth(method, user) ==
    CASE method = "POST" -> "text"
      [] user = None -> "Login"
      [] OTHER -> "VerifyEmail"

\* The answer to tab t.  Of the request only what is asked for later is kept.
Answered(t, answer) ==
    [Idle EXCEPT !.at = "answered", !.answer = answer,
       !.route = IF tab[t].route.path \in {"ConfirmEmailChange", "VerifyEmailResend"}
                 THEN tab[t].route ELSE Idle.route,
       !.cookies = [NoCookies EXCEPT !.session = tab[t].cookies.session,
                                     !.flash = tab[t].cookies.flash]]
Respond(t, answer) == tab' = [tab EXCEPT ![t] = Answered(t, answer)]

\* Where the gate of a route sends this user; None lets the request through.
Gate(route, user, verified) ==
    CASE route.method = "GET" /\ route.path \in PostOnlyPaths -> "text"
      [] route.path \in AnonymousPaths /\ user # None -> requireAnonymous(verified)
      [] route.path \in AuthPaths /\ user = None -> requireAuth(route.method)
      [] route.path \in VerifiedAuthPaths /\ ~verified ->
            requireVerifiedAuth(route.method, user)
      [] OTHER -> None

loadSession(t) ==
    LET k == tab[t].cookies.session
        user == IF Live(k) THEN sessions[k] ELSE None
        verified == user # None /\ users[user] = "verified"
        refusal == Gate(tab[t].route, user, verified)
    IN
    /\ tab[t].at = "sent"
    /\ IF refusal # None THEN Respond(t, Redirect(Headers(t, user), refusal))
       ELSE tab' = [tab EXCEPT ![t].at = "handler", ![t].user = user,
                      ![t].verified = verified, ![t].answer = Headers(t, user)]
    /\ UNCHANGED <<visit, users, sessions, jar, hops, owed>>

-----------------------------------------------------------------------------
(* Handlers.  newTemplateData takes the message of the request out of the  *)
(* cookies, whether the handler then renders a page or redirects.          *)

Handling(t, route) == tab[t].at = "handler" /\ tab[t].route = route

\* A handler's answer, and the tables as they were.
Answers(t, answer) ==
    /\ Respond(t, answer)
    /\ UNCHANGED <<visit, users, sessions, jar, hops, owed>>

\* A handler's answer after it changed the tables.
Writes(t, answer, newUsers, newSessions) ==
    /\ Respond(t, answer)
    /\ users' = newUsers /\ sessions' = newSessions
    /\ Disturb(Tabs \ {t})
    /\ UNCHANGED <<visit, jar>>

popFlash(t, answer) ==
    [answer EXCEPT !.flash = IF tab[t].cookies.flash THEN "pop" ELSE "keep"]
setFlash(answer) == [answer EXCEPT !.flash = "set"]
clearSessionCookie(answer) == [answer EXCEPT !.session = "clear"]
setSessionCookie(answer, k) == [answer EXCEPT !.session = k]
clearResetCookie(answer) == [answer EXCEPT !.reset = "clear"]

Base(t) == tab[t].answer
Page(t) == [popFlash(t, Base(t)) EXCEPT !.to = "page"]
To(t, path) == Redirect(Base(t), path)
Tells(t, path) == setFlash(To(t, path))

\* GET handlers that only render.
FormPaths == {"Register", "Login", "ForgotPassword", "ResendVerification", "Home",
    "NotFound", "Account", "ChangePassword", "ChangeEmail", "AccountDelete",
    "AccountTwoFactor", "AccountPasskeys", "Projects"}
Render(t) ==
    /\ tab[t].at = "handler" /\ tab[t].route \in {GET(p) : p \in FormPaths}
    /\ Answers(t, Page(t))

\* Forms that a handler shows again with an error, or a mailed token it refuses.
FormError(t) ==
    /\ tab[t].at = "handler"
    /\ tab[t].route \in {POST(p) : p \in {"Register", "Login", "ForgotPassword",
          "ResendVerification", "ChangePassword", "ChangeEmail", "AccountDelete",
          "AccountSessionsRevoke", "AccountTwoFactorConfirm", "AccountTwoFactorDisable",
          "AccountTwoFactorRegenerateCodes", "Projects"}}
       \cup {GET("ConfirmEmail"), GET("ConfirmEmailChange")}
    /\ Answers(t, Page(t))

\* A database error, in the middleware or in the handler.
internalServerError(t) ==
    \/ /\ tab[t].at = "sent"
       /\ tab[t].cookies.session # None
       /\ Answers(t, Page(t))
    \/ /\ tab[t].at = "handler"
       /\ Answers(t, Page(t))

\* A form that cannot be parsed, or one too many for the rate limiter; a passkey
\* ceremony's failure, told as JSON.
Refused(t) ==
    /\ tab[t].at = "handler" /\ tab[t].route.method = "POST"
    /\ Answers(t, To(t, "text"))

\* The account is new, or the address has one and nothing changes.
register(t, u) ==
    /\ Handling(t, POST("Register"))
    /\ Exists(u) \/ Room
    /\ Writes(t, Tells(t, "Login"),
              [users EXCEPT ![u] = IF Exists(u) THEN @ ELSE "unverified"], sessions)

\* The two that answer with a message and come back to their form.
forgotPassword(t) ==
    /\ Handling(t, POST("ForgotPassword"))
    /\ Answers(t, Tells(t, "ForgotPassword"))
resendVerificationPublic(t) ==
    /\ Handling(t, POST("ResendVerification"))
    /\ Answers(t, Tells(t, "ResendVerification"))

\* Where a sign-in leads.
AfterLogin(verified, next) ==
    CASE ~verified -> "VerifyEmail"
      [] safeRedirectPath(next) = "" -> "Account"
      [] OTHER -> safeRedirectPath(next)

SignsIn(t, u, k, answer, path) ==
    /\ Exists(u) /\ sessions[k] = "unused" /\ RoomForSession
    /\ Writes(t, setSessionCookie(Redirect(answer, path), k), users,
              [sessions EXCEPT ![k] = u])

login(t, u, k, next) ==
    /\ Handling(t, POST("Login"))
    /\ SignsIn(t, u, k, Base(t), AfterLogin(users[u] = "verified", next))

loginTOTPRequired(t, u) ==
    /\ Handling(t, POST("Login")) /\ Exists(u)
    /\ Answers(t, [To(t, "AccountTwoFactorChallenge") EXCEPT !.pending = u])

\* The client's script goes where the JSON says.
passkeyLoginFinish(t, u, k, next) ==
    /\ Handling(t, POST("LoginPasskeyFinish"))
    /\ SignsIn(t, u, k, Base(t), AfterLogin(users[u] = "verified", next))
passkeyLoginBegin(t) ==
    /\ Handling(t, POST("LoginPasskeyBegin"))
    /\ Answers(t, To(t, "text"))

twoFactorChallengeForm(t) ==
    /\ Handling(t, GET("AccountTwoFactorChallenge"))
    /\ Answers(t, IF tab[t].cookies.pending = None THEN To(t, "Login") ELSE Page(t))

\* Unlike the other two, a code leads on whether or not the address is verified.
twoFactorChallenge(t, k, next) ==
    /\ Handling(t, POST("AccountTwoFactorChallenge"))
    /\ IF tab[t].cookies.pending = None THEN Answers(t, To(t, "Login"))
       ELSE \/ Answers(t, Page(t))
            \/ SignsIn(t, tab[t].cookies.pending, k, [Base(t) EXCEPT !.pending = "clear"],
                       AfterLogin(TRUE, next))

logout(t) ==
    /\ Handling(t, POST("Logout"))
    /\ Writes(t, clearSessionCookie(To(t, "Home")), users,
              [sessions EXCEPT ![tab[t].cookies.session] = "ended"])

\* Deletes a session of the user that is not the request's.
revokeSession(t, k) ==
    /\ Handling(t, POST("AccountSessionsRevoke"))
    /\ k # tab[t].cookies.session /\ sessions[k] = tab[t].user
    /\ Writes(t, Tells(t, "Account"), users, [sessions EXCEPT ![k] = "ended"])

revokeOtherSessions(t) ==
    /\ Handling(t, POST("AccountSessionsRevokeOthers"))
    /\ Writes(t, Tells(t, "Account"), users,
              WithoutSessionsOf(tab[t].user, {tab[t].cookies.session}))

\* Mutant: the page for the unverified sends everyone to the account.
VerifyEmailForNobody(t) ==
    /\ Handling(t, GET("VerifyEmail"))
    /\ Answers(t, Redirect(Page(t), "Account"))

\* The message is taken out first.
verifyEmail(t) ==
    /\ Handling(t, GET("VerifyEmail"))
    /\ Answers(t, IF tab[t].verified THEN Redirect(Page(t), "Account") ELSE Page(t))

resendVerification(t) ==
    /\ Handling(t, POST("VerifyEmailResend"))
    /\ Answers(t, Tells(t, "VerifyEmail"))

\* Mutant: the cookie is cleared before the new password is accepted.
ClearsFirst(t) ==
    /\ Handling(t, POST("ChangePassword"))
    /\ \/ Answers(t, clearSessionCookie(Page(t)))
       \/ /\ Exists(tab[t].user)
          /\ Writes(t, clearSessionCookie(Tells(t, "Login")), users,
                    WithoutSessionsOf(tab[t].user, {}))

changePassword(t) ==
    /\ Handling(t, POST("ChangePassword"))
    /\ Exists(tab[t].user)
    /\ Writes(t, clearSessionCookie(Tells(t, "Login")), users,
              WithoutSessionsOf(tab[t].user, {}))

changeEmail(t) ==
    /\ Handling(t, POST("ChangeEmail"))
    /\ Answers(t, Tells(t, "Account"))

\* No account, no password to check.
deleteAccount(t) ==
    /\ Handling(t, POST("AccountDelete"))
    /\ Exists(tab[t].user)
    /\ Writes(t, clearSessionCookie(To(t, "Home")),
              [users EXCEPT ![tab[t].user] = "absent"],
              WithoutSessionsOf(tab[t].user, {}))

\* A good token moves from the link to the cookie; the message is taken out first.
resetPasswordForm(t) ==
    \/ /\ Handling(t, GET("ResetPassword?token"))
       /\ \/ Answers(t, clearResetCookie(Page(t)))
          \/ Answers(t, [Redirect(Page(t), "ResetPassword") EXCEPT !.reset = "set"])
    \/ /\ Handling(t, GET("ResetPassword"))
       /\ \/ Answers(t, clearResetCookie(Page(t)))
          \/ tab[t].cookies.reset /\ Answers(t, Page(t))

resetPassword(t, u) ==
    /\ Handling(t, POST("ResetPassword"))
    /\ \/ Answers(t, Page(t))
       \/ Answers(t, clearResetCookie(Page(t)))
       \/ /\ tab[t].cookies.reset /\ Exists(u)
          /\ Writes(t, clearResetCookie(Tells(t, "Login")), users,
                    WithoutSessionsOf(u, {}))

confirmEmail(t, u) ==
    /\ Handling(t, GET("ConfirmEmail"))
    /\ Exists(u)
    /\ Writes(t, Page(t), [users EXCEPT ![u] = "verified"], sessions)

\* Whoever's session the browser has, its cookie goes.
confirmEmailChange(t, u) ==
    /\ Handling(t, GET("ConfirmEmailChange"))
    /\ Exists(u)
    /\ Writes(t, clearSessionCookie(Page(t)), [users EXCEPT ![u] = "verified"],
              WithoutSessionsOf(u, {}))

\* 2FA: what its state was is in module TOTP.
twoFactorSetup(t) ==
    /\ Handling(t, POST("AccountTwoFactorSetup"))
    /\ Answers(t, To(t, "AccountTwoFactor"))
twoFactorConfirm(t) ==
    /\ Handling(t, POST("AccountTwoFactorConfirm"))
    /\ \/ Answers(t, Page(t))
       \/ Answers(t, Redirect(Page(t), "AccountTwoFactor"))
twoFactorDisable(t) ==
    /\ Handling(t, POST("AccountTwoFactorDisable"))
    /\ \/ Answers(t, Tells(t, "AccountTwoFactor"))
       \/ Answers(t, Redirect(Page(t), "AccountTwoFactor"))
twoFactorRegenerateCodes(t) ==
    /\ Handling(t, POST("AccountTwoFactorRegenerateCodes"))
    /\ \/ Answers(t, Page(t))
       \/ Answers(t, Redirect(Page(t), "AccountTwoFactor"))

passkeyRegisterBegin(t) ==
    /\ Handling(t, POST("AccountPasskeysRegisterBegin"))
    /\ Answers(t, To(t, "text"))
passkeyRegisterFinish(t) ==
    /\ Handling(t, POST("AccountPasskeysRegisterFinish"))
    /\ Answers(t, Tells(t, "AccountPasskeys"))
passkeyRename(t) ==
    /\ Handling(t, POST("AccountPasskeysRename"))
    /\ Answers(t, Tells(t, "AccountPasskeys"))
passkeyDelete(t) ==
    /\ Handling(t, POST("AccountPasskeysDelete"))
    /\ Answers(t, Tells(t, "AccountPasskeys"))

createProject(t) ==
    /\ Handling(t, POST("Projects"))
    /\ Answers(t, Tells(t, "Projects"))

\* Mutant: the path of the form, which has no GET.
BackToTheForm(t) ==
    /\ Handling(t, POST("ProjectsDelete"))
    /\ Answers(t, Tells(t, "ProjectsDelete"))

deleteProject(t) ==
    /\ Handling(t, POST("ProjectsDelete"))
    /\ Answers(t, Tells(t, "Projects"))

-----------------------------------------------------------------------------
(* The browser and the world.                                              *)

\* The cookies after the Set-Cookie headers of an answer.
Applied(answer) ==
    [session |-> CASE answer.session = "keep" -> jar.session
                   [] answer.session = "clear" -> None
                   [] OTHER -> answer.session,
     flash |-> CASE answer.flash = "keep" -> jar.flash
                 [] OTHER -> answer.flash = "set",
     reset |-> CASE answer.reset = "keep" -> jar.reset
                 [] OTHER -> answer.reset = "set",
     pending |-> CASE answer.pending = "keep" -> jar.pending
                   [] answer.pending = "clear" -> None
                   [] OTHER -> answer.pending]

\* An answer carries a message that somebody waits for.  "We sent a new verification
\* email" is lost on a user who is verified, lately or all along: resendVerification
\* sets it for anybody signed in, and verifyEmail takes it and redirects.
Owes(t, cookies) ==
    /\ tab[t].answer.flash = "set"
    /\ tab[t].route.path = "VerifyEmailResend" =>
          ~(Live(cookies.session) /\ users[sessions[cookies.session]] = "verified")

Shows(t) == tab[t].answer.to = "page" /\ tab[t].cookies.flash
Redirects(t) == tab[t].answer.to \in Paths

\* The answer arrives; a redirect is followed at once with the new cookies.
Receive(t) ==
    LET new == Applied(tab[t].answer)
        others == IF new = jar THEN {} ELSE Tabs \ {t}
        path == tab[t].answer.to
    IN
    /\ tab[t].at = "answered"
    /\ jar' = new
    /\ tab' = [tab EXCEPT ![t] =
         IF ~Redirects(t) THEN Idle
         ELSE [Idle EXCEPT !.at = "sent", !.route = GET(path),
                 !.cookies = CookiesFor(path, new)]]
    /\ hops' = [x \in Tabs |->
         IF x = t THEN IF ~Redirects(t) THEN 0
                       ELSE IF hops[t] <= MaxRedirects THEN hops[t] + 1 ELSE hops[t]
         ELSE IF x \in others THEN 0 ELSE hops[x]]
    /\ owed' = [x \in Tabs |->
         IF x = t THEN (owed[t] \/ Owes(t, new)) /\ ~Shows(t) ELSE owed[x] /\ x \notin others]
    /\ UNCHANGED <<visit, users, sessions>>

\* The answer is lost, or nobody waits for it.
Lose(t) ==
    /\ tab[t].at \in {"sent", "answered"}
    /\ tab' = [tab EXCEPT ![t] = Idle]
    /\ hops' = [hops EXCEPT ![t] = 0]
    /\ owed' = [owed EXCEPT ![t] = FALSE]
    /\ UNCHANGED <<visit, users, sessions, jar>>

\* Other browsers, mailed links opened elsewhere, and time.
Elsewhere ==
    /\ \/ \E u \in Users :
            \/ /\ ~Exists(u) /\ Room
               /\ users' = [users EXCEPT ![u] = "unverified"]
               /\ UNCHANGED sessions
            \/ /\ users[u] = "unverified"
               /\ users' = [users EXCEPT ![u] = "verified"]
               /\ UNCHANGED sessions
            \/ /\ Exists(u)
               /\ users' = [users EXCEPT ![u] = "absent"]
               /\ sessions' = WithoutSessionsOf(u, {})
       \/ \E k \in Tokens :
            /\ Live(k)
            /\ sessions' = [sessions EXCEPT ![k] = "ended"]
            /\ UNCHANGED users
    /\ Disturb(Tabs)
    /\ UNCHANGED <<visit, jar, tab>>

Handle(t) ==
    \/ Render(t) \/ FormError(t) \/ internalServerError(t) \/ Refused(t)
    \/ forgotPassword(t) \/ resendVerificationPublic(t)
    \/ passkeyLoginBegin(t) \/ twoFactorChallengeForm(t) \/ logout(t)
    \/ revokeOtherSessions(t) \/ verifyEmail(t) \/ resendVerification(t)
    \/ changePassword(t) \/ changeEmail(t) \/ deleteAccount(t) \/ resetPasswordForm(t)
    \/ twoFactorSetup(t) \/ twoFactorConfirm(t) \/ twoFactorDisable(t)
    \/ twoFactorRegenerateCodes(t) \/ passkeyRegisterBegin(t) \/ passkeyRegisterFinish(t)
    \/ passkeyRename(t) \/ passkeyDelete(t) \/ createProject(t) \/ deleteProject(t)
    \/ \E u \in Users : \/ register(t, u) \/ loginTOTPRequired(t, u) \/ resetPassword(t, u)
                         \/ confirmEmail(t, u) \/ confirmEmailChange(t, u)
    \/ \E k \in Tokens :
          \/ revokeSession(t, k)
          \/ \E next \in Nexts :
                \/ twoFactorChallenge(t, k, next)
                \/ \E u \in Users : login(t, u, k, next) \/ passkeyLoginFinish(t, u, k, next)

Next ==
    \/ \E t \in Tabs :
          \/ \E route \in visit.begins[t] : Send(t, route)
          \/ loadSession(t) \/ Handle(t) \/ Receive(t) \/ Lose(t)
    \/ Elsewhere

Spec == Init /\ [][Next]_vars

-----------------------------------------------------------------------------
(* Correctness.                                                            *)

\* The gates of the pages, the page for the unverified and the targets of the
\* handlers agree: unless somebody else changes the account, the session or the
\* cookies meanwhile, a navigation comes to a page after MaxRedirects redirects.
RedirectsEnd == \A t \in Tabs : hops[t] <= MaxRedirects

\* The message a handler sets is shown on the page where its redirects end, however
\* many gates they pass, unless somebody else interferes on the way: no redirect
\* takes the message out of the cookie without showing it, and none ends at a path
\* without a page.
MessagesAreShown == \A t \in Tabs : tab[t] = Idle => ~owed[t]

\* No answer takes a live session's cookie away from a browser that sent it: a
\* cookie goes with its session, or it is a late answer to a request that was sent
\* with another one, or it is the link of an email change that was opened.
SessionCookieKept ==
    [][LET k == jar.session IN
       Live(k) /\ jar'.session # k =>
          \E t \in Tabs :
             /\ tab[t].at = "answered" /\ tab'[t] # tab[t]
             /\ \/ tab[t].cookies.session # k
                \/ tab[t].route = GET("ConfirmEmailChange")]_vars

=============================================================================
