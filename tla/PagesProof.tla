----------------------------- MODULE PagesProof -----------------------------
(***************************************************************************)
(* Proofs about Pages, for any number of users, session tokens and tabs,   *)
(* any parameter next and whatever a visit begins.                         *)
(***************************************************************************)
EXTENDS Pages, TLAPS

-----------------------------------------------------------------------------
(* The invariants.                                                         *)

\* Types, with what a tab has at each point of its request: a handler runs for a
\* user its gate lets through, over the headers of the middleware.
TabShape(t) ==
    /\ tab[t].at = "idle" => tab[t] = Idle
    /\ tab[t].at = "sent" => tab[t].answer = NoAnswer
    /\ tab[t].at = "handler" =>
          /\ Gate(tab[t].route, tab[t].user, tab[t].verified) = None
          /\ tab[t].answer = Headers(t, tab[t].user)
          /\ tab[t].verified => tab[t].user # None

TypeInv == TypeOK /\ \A t \in Tabs : TabShape(t)

\* Session tokens.  A token in a cookie or an answer was issued, so that it never
\* becomes live once it is not; a handler's user is that of the token it was sent,
\* unless that has ended; an answer that changes the cookie answers a token that is
\* not live, or is that of the link of an email change.
Issued(k) == k \in Tokens => sessions[k] # "unused"

TabSession(t) ==
    LET k == tab[t].cookies.session IN
    /\ Issued(k)
    /\ Issued(tab[t].answer.session)
    /\ tab[t].at = "handler" =>
          IF tab[t].user = None THEN ~Live(k)
          ELSE k \in Tokens /\ sessions[k] \in {tab[t].user, "ended"}
    /\ tab[t].at = "answered" /\ tab[t].answer.session # "keep" =>
          ~Live(k) \/ tab[t].route = GET("ConfirmEmailChange")

SessionInv == Issued(jar.session) /\ \A t \in Tabs : TabSession(t)

\* Navigations.  Whose page it is, by the session cookie.
UserOf(k) == IF Live(k) THEN sessions[k] ELSE None
VerifiedBy(k) == Live(k) /\ users[sessions[k]] = "verified"

\* The pages that redirect no further, for whom they do not.
Settles(path, k) ==
    \/ path \in {"Login", "ResetPassword"} /\ ~Live(k)
    \/ path = "Account" /\ VerifiedBy(k)
    \/ path = "VerifyEmail" /\ Live(k) /\ ~VerifiedBy(k)

\* A tab that has followed a redirect, with nobody else in between, asks for a page
\* with the browser's cookies; after a second redirect that page is settled.
TabHops(t) ==
    LET q == tab[t] IN
    /\ q.at = "idle" => hops[t] = 0
    /\ hops[t] <= 2
    /\ hops[t] >= 1 /\ q.at \in {"sent", "handler"} =>
          q.route.method = "GET" /\ q.cookies.session = jar.session
    /\ hops[t] >= 1 /\ q.at = "handler" =>
          q.user = UserOf(jar.session) /\ q.verified = VerifiedBy(jar.session)
    /\ hops[t] = 1 /\ q.at = "answered" /\ q.answer.to \in Paths =>
          Settles(q.answer.to, Applied(q.answer).session)
    /\ hops[t] = 2 /\ q.at \in {"sent", "handler"} => Settles(q.route.path, jar.session)
    /\ hops[t] = 2 /\ q.at = "answered" => q.answer.to \notin Paths

\* Messages.  Where handlers send them, and where gates send a message on.
MessagePaths == {"Login", "ForgotPassword", "ResendVerification", "Account", "VerifyEmail",
                 "AccountTwoFactor", "AccountPasskeys", "Projects"}

\* The page for the unverified shows no message to the verified.
Lost(path, k) == path = "VerifyEmail" /\ VerifiedBy(k)

\* The message of a navigation is in the cookies until a page is answered with it.
TabOwed(t) ==
    LET q == tab[t] IN
    /\ q.at = "answered" /\ q.answer.flash = "set" =>
          /\ q.answer.to \in MessagePaths
          /\ q.answer.to = "VerifyEmail" => q.route.path = "VerifyEmailResend"
    /\ owed[t] => hops[t] >= 1
    /\ owed[t] /\ q.at \in {"sent", "handler"} =>
          /\ jar.flash /\ q.cookies.flash
          /\ q.route.path \in MessagePaths /\ ~Lost(q.route.path, jar.session)
    /\ owed[t] /\ q.at = "answered" =>
          \/ q.answer.to = "page" /\ q.cookies.flash
          \/ /\ q.answer.to \in {"Login", "Account", "VerifyEmail"}
             /\ q.answer.flash = "keep" /\ jar.flash
             /\ ~Lost(q.answer.to, Applied(q.answer).session)

NavInv(t) == TabHops(t) /\ TabOwed(t)

-----------------------------------------------------------------------------
(* Routes, gates and answers.                                              *)

\* Paths that handlers and gates name.
LEMMA PathFacts ==
    /\ MessagePaths \cup {"Home", "ResetPassword", "AccountTwoFactorChallenge"} \subseteq Paths
    /\ "page" \notin Paths /\ "text" \notin Paths
    /\ MessagePaths \cap PostOnlyPaths = {}
  BY DEF MessagePaths, Paths, AnonymousPaths, AuthPaths, VerifiedAuthPaths, OpenPaths,
         PostOnlyPaths

\* A route is a method and a path; every path has a GET.
LEMMA RouteFacts ==
    /\ \A p \in Paths : GET(p) \in Routes
    /\ \A x \in Routes : /\ x.method \in {"GET", "POST"} /\ x.path \in Paths
                         /\ x.method = "POST" => x.path \notin GetOnlyPaths
                         /\ x.method = "GET" => x = GET(x.path)
  BY DEF Routes, GET, POST

\* What a gate says of the user.
LEMMA GateFacts ==
    ASSUME NEW x \in Routes, NEW u, NEW v \in BOOLEAN
    PROVE  /\ Gate(x, u, v) \in {None, "text", "Account", "VerifyEmail", "Login"}
           /\ Gate(x, u, v) = "Account" => u # None /\ v
           /\ Gate(x, u, v) = "VerifyEmail" => u # None /\ ~v
           /\ Gate(x, u, v) = "Login" => u = None
           /\ Gate(x, u, v) = "text" => x.method = "POST" \/ x.path \in PostOnlyPaths
  BY RouteFacts
  DEF Gate, None, requireAnonymous, requireAuth, requireVerifiedAuth

\* Whom a gate lets through.
LEMMA LetThrough ==
    ASSUME NEW x \in Routes, NEW u, NEW v \in BOOLEAN, Gate(x, u, v) = None
    PROVE  /\ x.path \in AnonymousPaths => u = None
           /\ x.path \in AuthPaths => u # None
           /\ x.path \in VerifiedAuthPaths => v
  BY RouteFacts
  DEF Gate, None, requireAnonymous, requireAuth, requireVerifiedAuth

\* The headers of an answer, one at a time.
LEMMA AnswerFacts ==
    ASSUME NEW a \in Answer, NEW p \in Paths \cup {"page", "text"},
           NEW k \in Tokens \cup {"keep", "clear"}, NEW f \in {"keep", "set", "pop"},
           NEW u \in Users \cup {"keep", "clear"}, NEW x \in {"keep", "set", "clear"}
    PROVE  /\ Redirect(a, p) = [a EXCEPT !.to = p]
           /\ [a EXCEPT !.to = p] \in Answer
           /\ [a EXCEPT !.to = p].to = p
           /\ [a EXCEPT !.to = p].session = a.session
           /\ [a EXCEPT !.to = p].flash = a.flash
           /\ [a EXCEPT !.session = k] \in Answer
           /\ [a EXCEPT !.session = k].to = a.to
           /\ [a EXCEPT !.session = k].session = k
           /\ [a EXCEPT !.session = k].flash = a.flash
           /\ [a EXCEPT !.flash = f] \in Answer
           /\ [a EXCEPT !.flash = f].to = a.to
           /\ [a EXCEPT !.flash = f].session = a.session
           /\ [a EXCEPT !.flash = f].flash = f
           /\ [a EXCEPT !.pending = u] \in Answer
           /\ [a EXCEPT !.pending = u].to = a.to
           /\ [a EXCEPT !.pending = u].session = a.session
           /\ [a EXCEPT !.pending = u].flash = a.flash
           /\ [a EXCEPT !.reset = x] \in Answer
           /\ [a EXCEPT !.reset = x].to = a.to
           /\ [a EXCEPT !.reset = x].session = a.session
           /\ [a EXCEPT !.reset = x].flash = a.flash
  BY DEF Redirect, Answer

\* The middleware's headers.
LEMMA HeadersFacts ==
    ASSUME NEW t \in Tabs, NEW u
    PROVE  /\ NoAnswer \in Answer
           /\ Headers(t, u) \in Answer /\ Headers(t, u).flash = "keep"
           /\ Headers(t, u).session =
                 IF tab[t].cookies.session # None /\ u = None THEN "clear" ELSE "keep"
  <1>1. NoAnswer \in Answer /\ NoAnswer.flash = "keep"
    BY DEF NoAnswer, Answer
  <1>2. "text" \in Paths \cup {"page", "text"}
    OBVIOUS
  <1> QED
    BY <1>1, <1>2 DEF Headers, Answer

\* What a handler builds on.
LEMMA BaseFacts ==
    ASSUME TypeInv, NEW t \in Tabs, tab[t].at \in {"sent", "handler"}
    PROVE  /\ Base(t) \in Answer /\ Base(t).flash = "keep"
           /\ Base(t).session \in {"keep", "clear"}
           /\ tab[t].at = "sent" => Base(t).session = "keep"
           /\ tab[t].at = "handler" =>
                 Base(t).session = IF tab[t].cookies.session # None /\ tab[t].user = None
                                   THEN "clear" ELSE "keep"
  <1>1. NoAnswer.session = "keep" /\ NoAnswer.flash = "keep"
    BY DEF NoAnswer
  <1> QED
    BY <1>1, HeadersFacts DEF TypeInv, TabShape, Base

\* The answers of handlers: a page, a redirect, a redirect with a message, and a
\* redirect after newTemplateData.
LEMMA ReplyFacts ==
    ASSUME TypeInv, NEW t \in Tabs, tab[t].at \in {"sent", "handler"},
           NEW p \in Paths \cup {"text"}
    PROVE  /\ Page(t) \in Answer /\ Page(t).to = "page"
           /\ Page(t).session = Base(t).session /\ Page(t).flash # "set"
           /\ To(t, p) \in Answer /\ To(t, p).to = p
           /\ To(t, p).session = Base(t).session /\ To(t, p).flash = "keep"
           /\ Tells(t, p) \in Answer /\ Tells(t, p).to = p
           /\ Tells(t, p).session = Base(t).session
           /\ Redirect(Page(t), p) \in Answer /\ Redirect(Page(t), p).to = p
           /\ Redirect(Page(t), p).session = Base(t).session
           /\ Redirect(Page(t), p).flash # "set"
  <1>1. Base(t) \in Answer /\ Base(t).flash = "keep"
    BY BaseFacts
  <1>2. /\ popFlash(t, Base(t)) \in Answer /\ popFlash(t, Base(t)).flash # "set"
        /\ popFlash(t, Base(t)).session = Base(t).session
    BY <1>1 DEF popFlash, Answer
  <1>3. /\ Page(t) \in Answer /\ Page(t).to = "page"
        /\ Page(t).session = Base(t).session /\ Page(t).flash # "set"
    BY <1>2 DEF Page, Answer
  <1>4. /\ To(t, p) \in Answer /\ To(t, p).to = p
        /\ To(t, p).session = Base(t).session /\ To(t, p).flash = "keep"
    BY <1>1 DEF To, Redirect, Answer
  <1>5. /\ Tells(t, p) \in Answer /\ Tells(t, p).to = p
        /\ Tells(t, p).session = Base(t).session
    BY <1>4 DEF Tells, setFlash, Answer
  <1>6. /\ Redirect(Page(t), p) \in Answer /\ Redirect(Page(t), p).to = p
        /\ Redirect(Page(t), p).session = Base(t).session
        /\ Redirect(Page(t), p).flash # "set"
    BY <1>3 DEF Redirect, Answer
  <1> QED
    BY <1>3, <1>4, <1>5, <1>6

-----------------------------------------------------------------------------
(* The handlers, in one form.                                              *)

\* A GET is answered with a page, but for three redirects.
GetReply(t, a) ==
    \/ a.to = "page"
    \/ /\ tab[t].route.path = "VerifyEmail" /\ tab[t].verified /\ tab[t].at = "handler"
       /\ a.to = "Account" /\ a.session = Base(t).session
    \/ /\ tab[t].route.path = "AccountTwoFactorChallenge" /\ tab[t].at = "handler"
       /\ a.to = "Login" /\ a.session = Base(t).session
    \/ /\ tab[t].route.path = "ResetPassword?token" /\ tab[t].at = "handler"
       /\ a.to = "ResetPassword" /\ a.session = Base(t).session

\* Messages go to pages that show them.
Reply(t, a) ==
    /\ a \in Answer
    /\ tab[t].route.method = "GET" => GetReply(t, a)
    /\ a.flash = "set" =>
          /\ a.to \in MessagePaths
          /\ a.to = "VerifyEmail" => tab[t].route.path = "VerifyEmailResend"

\* An answer and nothing else.
Reads(t, a) ==
    /\ Answers(t, a) /\ tab[t].at \in {"sent", "handler"}
    /\ Reply(t, a) /\ a.session = Base(t).session

\* An answer with a change of the tables: accounts come, are verified and go with
\* their sessions, sessions end, and a new one is that of the answer.
WritesTables(t, a) ==
    /\ tab[t].at = "handler" /\ Respond(t, a) /\ Reply(t, a)
    /\ tab[t].route.method = "GET" => a.to = "page"
    /\ visit' = visit /\ jar' = jar /\ Disturb(Tabs \ {t})
    /\ users' \in [Users -> {"absent", "unverified", "verified"}]
    /\ sessions' \in [Tokens -> Users \cup {"unused", "ended"}]
    /\ \A k \in Tokens :
          /\ \/ sessions'[k] = sessions[k]
             \/ sessions[k] # "unused" /\ sessions'[k] = "ended"
             \/ sessions[k] = "unused" /\ a.session = k
          /\ sessions'[k] \in Users => users'[sessions'[k]] # "absent"
          /\ k = a.session => sessions'[k] # "unused"
          /\ k = tab[t].cookies.session /\ a.session # "keep" =>
                sessions'[k] \notin Users \/ tab[t].route = GET("ConfirmEmailChange")

\* A handler that only renders, or says no.
LEMMA PageReply ==
    ASSUME TypeInv, NEW t \in Tabs, tab[t].at \in {"sent", "handler"}, Answers(t, Page(t))
    PROVE  Reads(t, Page(t))
  <1>1. "text" \in Paths \cup {"text"}
    OBVIOUS
  <1> QED
    BY <1>1, ReplyFacts DEF Reads, Reply, GetReply

\* A form that leads on.
LEMMA PostReply ==
    ASSUME TypeInv, NEW t \in Tabs, tab[t].at = "handler", tab[t].route.method = "POST",
           NEW p \in Paths \cup {"text"}
    PROVE  /\ Answers(t, To(t, p)) => Reads(t, To(t, p))
           /\ Answers(t, Redirect(Page(t), p)) => Reads(t, Redirect(Page(t), p))
           /\ p \in MessagePaths /\ (p = "VerifyEmail" => tab[t].route.path = "VerifyEmailResend")
              /\ Answers(t, Tells(t, p)) => Reads(t, Tells(t, p))
  BY ReplyFacts DEF Reads, Reply

\* The handlers that change no table.
LEMMA ReadingHandlers ==
    ASSUME TypeInv, NEW t \in Tabs,
           \/ Render(t) \/ FormError(t) \/ internalServerError(t) \/ Refused(t)
           \/ forgotPassword(t) \/ resendVerificationPublic(t)
           \/ passkeyLoginBegin(t) \/ twoFactorChallengeForm(t)
           \/ verifyEmail(t) \/ resendVerification(t)
           \/ changeEmail(t) \/ resetPasswordForm(t)
           \/ twoFactorSetup(t) \/ twoFactorConfirm(t) \/ twoFactorDisable(t)
           \/ twoFactorRegenerateCodes(t) \/ passkeyRegisterBegin(t)
           \/ passkeyRegisterFinish(t) \/ passkeyRename(t) \/ passkeyDelete(t)
           \/ createProject(t) \/ deleteProject(t)
    PROVE  \E a : Reads(t, a)
  <1> USE DEF Handling
  <1>a. /\ {"Login", "ForgotPassword", "ResendVerification", "Account", "VerifyEmail",
            "AccountTwoFactor", "AccountPasskeys", "Projects", "ResetPassword"}
             \subseteq Paths \cup {"text"}
        /\ "text" \in Paths \cup {"text"}
    BY PathFacts DEF MessagePaths
  <1>b. \A p : POST(p).method = "POST" /\ POST(p).path = p /\ GET(p).method = "GET" /\ GET(p).path = p
    BY DEF POST, GET
  <1>1. CASE Render(t) \/ FormError(t) \/ internalServerError(t)
    <2>1. tab[t].at \in {"sent", "handler"} /\ Answers(t, Page(t))
      BY <1>1 DEF Render, FormError, internalServerError
    <2> QED
      BY <2>1, PageReply
  <1>2. CASE Refused(t) \/ passkeyLoginBegin(t) \/ passkeyRegisterBegin(t)
    BY <1>2, <1>a, <1>b, PostReply DEF Refused, passkeyLoginBegin, passkeyRegisterBegin
  <1>3. CASE forgotPassword(t) \/ resendVerificationPublic(t) \/ changeEmail(t)
    BY <1>3, <1>a, <1>b, PostReply
    DEF forgotPassword, resendVerificationPublic, changeEmail, MessagePaths
  <1>4. CASE resendVerification(t)
    BY <1>4, <1>a, <1>b, PostReply DEF resendVerification, MessagePaths
  <1>5. CASE twoFactorSetup(t)
    BY <1>5, <1>a, <1>b, PostReply DEF twoFactorSetup
  <1>6. CASE twoFactorConfirm(t) \/ twoFactorRegenerateCodes(t)
    BY <1>6, <1>a, <1>b, PostReply, PageReply DEF twoFactorConfirm, twoFactorRegenerateCodes
  <1>7. CASE twoFactorDisable(t)
    BY <1>7, <1>a, <1>b, PostReply DEF twoFactorDisable, MessagePaths
  <1>8. CASE passkeyRegisterFinish(t) \/ passkeyRename(t) \/ passkeyDelete(t)
    BY <1>8, <1>a, <1>b, PostReply
    DEF passkeyRegisterFinish, passkeyRename, passkeyDelete, MessagePaths
  <1>9. CASE createProject(t) \/ deleteProject(t)
    BY <1>9, <1>a, <1>b, PostReply DEF createProject, deleteProject, MessagePaths
  <1>10. CASE twoFactorChallengeForm(t)
    <2>1. /\ tab[t].at = "handler" /\ tab[t].route.path = "AccountTwoFactorChallenge"
          /\ Answers(t, To(t, "Login")) \/ Answers(t, Page(t))
      BY <1>10, <1>b DEF twoFactorChallengeForm
    <2>2. CASE Answers(t, Page(t))
      BY <2>1, <2>2, PageReply
    <2>3. CASE Answers(t, To(t, "Login"))
      <3>1. Reads(t, To(t, "Login"))
        BY <1>a, <2>1, <2>3, ReplyFacts DEF Reads, Reply, GetReply
      <3> QED
        BY <3>1
    <2> QED
      BY <2>1, <2>2, <2>3
  <1>11. CASE verifyEmail(t)
    <2>1. /\ tab[t].at = "handler" /\ tab[t].route.path = "VerifyEmail"
          /\ \/ tab[t].verified /\ Answers(t, Redirect(Page(t), "Account"))
             \/ Answers(t, Page(t))
      BY <1>11, <1>b DEF verifyEmail
    <2>2. CASE Answers(t, Page(t))
      BY <2>1, <2>2, PageReply
    <2>3. CASE tab[t].verified /\ Answers(t, Redirect(Page(t), "Account"))
      <3>1. Reads(t, Redirect(Page(t), "Account"))
        BY <1>a, <2>1, <2>3, ReplyFacts DEF Reads, Reply, GetReply
      <3> QED
        BY <3>1
    <2> QED
      BY <2>1, <2>2, <2>3
  <1>12. CASE resetPasswordForm(t)
    <2> DEFINE c == clearResetCookie(Page(t))
               s == [Redirect(Page(t), "ResetPassword") EXCEPT !.reset = "set"]
    <2>1. /\ tab[t].at = "handler"
          /\ \/ Answers(t, Page(t)) \/ Answers(t, c)
             \/ tab[t].route.path = "ResetPassword?token" /\ Answers(t, s)
      BY <1>12, <1>b DEF resetPasswordForm
    <2>2. /\ c \in Answer /\ c.to = "page" /\ c.session = Base(t).session /\ c.flash # "set"
      BY <1>a, <2>1, ReplyFacts DEF clearResetCookie, Answer
    <2>3. /\ s \in Answer /\ s.to = "ResetPassword" /\ s.session = Base(t).session
          /\ s.flash # "set"
      BY <1>a, <2>1, ReplyFacts DEF Answer
    <2> HIDE DEF c, s
    <2>4. CASE Answers(t, Page(t))
      BY <2>1, <2>4, PageReply
    <2>5. CASE Answers(t, c)
      <3>1. Reads(t, c)
        BY <2>1, <2>2, <2>5 DEF Reads, Reply, GetReply
      <3> QED
        BY <3>1
    <2>6. CASE tab[t].route.path = "ResetPassword?token" /\ Answers(t, s)
      <3>1. Reads(t, s)
        BY <2>1, <2>3, <2>6 DEF Reads, Reply, GetReply
      <3> QED
        BY <3>1
    <2> QED
      BY <2>1, <2>4, <2>5, <2>6
  <1> QED
    BY <1>1, <1>2, <1>3, <1>4, <1>5, <1>6, <1>7, <1>8, <1>9, <1>10, <1>11, <1>12

\* The sessions that are left when those of a user end.
LEMMA CascadeFacts ==
    ASSUME TypeInv, NEW u \in Users, NEW kept
    PROVE  /\ WithoutSessionsOf(u, kept) \in [Tokens -> Users \cup {"unused", "ended"}]
           /\ \A k \in Tokens :
                 /\ \/ WithoutSessionsOf(u, kept)[k] = sessions[k]
                    \/ sessions[k] # "unused" /\ WithoutSessionsOf(u, kept)[k] = "ended"
                 /\ WithoutSessionsOf(u, kept)[k] = u => k \in kept
  BY PagesAssumption DEF WithoutSessionsOf, TypeInv, TypeOK

\* A handler runs over what loadSession found.
LEMMA HandlerFacts ==
    ASSUME TypeInv, SessionInv, NEW t \in Tabs, tab[t].at = "handler"
    PROVE  LET k == tab[t].cookies.session IN
           /\ tab[t].route \in Routes /\ tab[t].user \in Users \cup {None}
           /\ k \in Tokens \cup {None} /\ tab[t].cookies.pending \in Users \cup {None}
           /\ tab[t].user # None =>
                 /\ tab[t].user \in Users /\ Base(t).session = "keep"
                 /\ k \in Tokens /\ sessions[k] \in {tab[t].user, "ended"}
           /\ tab[t].user = None /\ k \in Tokens => sessions[k] \notin Users \cup {"unused"}
           /\ tab[t].route.path \in AnonymousPaths => tab[t].user = None
           /\ tab[t].route.path \in AuthPaths \cup VerifiedAuthPaths => tab[t].user # None
  <1> DEFINE k == tab[t].cookies.session
  <1>1. tab[t] \in Tab /\ TabShape(t) /\ TabSession(t)
    BY DEF TypeInv, TypeOK, SessionInv
  <1>2. /\ tab[t].route \in Routes /\ tab[t].user \in Users \cup {None}
        /\ tab[t].verified \in BOOLEAN /\ k \in Tokens \cup {None}
        /\ tab[t].cookies.pending \in Users \cup {None}
    BY <1>1 DEF Tab, Cookies
  <1>3. /\ tab[t].user = None => ~Live(k)
        /\ tab[t].user # None => k \in Tokens /\ sessions[k] \in {tab[t].user, "ended"}
        /\ Issued(k)
    BY <1>1 DEF TabSession
  <1>4. tab[t].user = None /\ k \in Tokens => sessions[k] \notin Users \cup {"unused"}
    BY <1>3, PagesAssumption DEF Live, Issued
  <1>5. tab[t].user # None => Base(t).session = "keep"
    BY BaseFacts
  <1>6. /\ tab[t].route.path \in AnonymousPaths => tab[t].user = None
        /\ tab[t].route.path \in AuthPaths \cup VerifiedAuthPaths => tab[t].user # None
    BY <1>1, <1>2, LetThrough DEF TabShape
  <1> QED
    BY <1>2, <1>3, <1>4, <1>5, <1>6

\* A sign-in.
LEMMA SignInWrites ==
    ASSUME TypeInv, SessionInv, NEW t \in Tabs, tab[t].at = "handler",
           tab[t].route.method = "POST", tab[t].route.path \in AnonymousPaths,
           NEW u \in Users, NEW k \in Tokens, NEW b \in Answer, b.flash = "keep",
           NEW p \in Paths, SignsIn(t, u, k, b, p)
    PROVE  \E a : WritesTables(t, a)
  <1> DEFINE a == setSessionCookie(Redirect(b, p), k)
             new == [sessions EXCEPT ![k] = u]
  <1>1. /\ a \in Answer /\ a.session = k /\ a.flash = "keep"
    BY DEF setSessionCookie, Redirect, Answer
  <1>2. /\ Exists(u) /\ sessions[k] = "unused"
        /\ Respond(t, a) /\ users' = users /\ sessions' = new
        /\ Disturb(Tabs \ {t}) /\ visit' = visit /\ jar' = jar
    BY DEF SignsIn, Writes
  <1>3. /\ users \in [Users -> {"absent", "unverified", "verified"}]
        /\ sessions \in [Tokens -> Users \cup {"unused", "ended"}]
        /\ \A x \in Tokens : sessions[x] \in Users => users[sessions[x]] # "absent"
    BY PagesAssumption DEF TypeInv, TypeOK, Live, Exists
  <1>4. /\ new \in [Tokens -> Users \cup {"unused", "ended"}]
        /\ \A x \in Tokens : new[x] = IF x = k THEN u ELSE sessions[x]
    BY <1>3
  <1> HIDE DEF a, new
  <1>5. /\ tab[t].user = None
        /\ tab[t].cookies.session \in Tokens =>
              sessions[tab[t].cookies.session] \notin Users \cup {"unused"}
    BY HandlerFacts
  <1>6. u # "unused" /\ users[u] # "absent"
    BY <1>2, PagesAssumption DEF Exists
  <1>7. Reply(t, a)
    BY <1>1 DEF Reply
  <1>8. \A x \in Tokens :
          /\ \/ new[x] = sessions[x]
             \/ sessions[x] = "unused" /\ a.session = x
          /\ new[x] \in Users => users[new[x]] # "absent"
          /\ x = a.session => new[x] # "unused"
          /\ x = tab[t].cookies.session => new[x] \notin Users
    BY <1>1, <1>2, <1>3, <1>4, <1>5, <1>6
  <1>9. WritesTables(t, a)
    BY <1>2, <1>3, <1>4, <1>7, <1>8 DEF WritesTables
  <1> QED
    BY <1>9

\* A handler that opens no session.
LEMMA EndingWrites ==
    ASSUME TypeInv, SessionInv, NEW t \in Tabs, tab[t].at = "handler",
           NEW a, Reply(t, a), a.session \in {"keep", "clear"},
           tab[t].route.method = "GET" => a.to = "page",
           NEW nu \in [Users -> {"absent", "unverified", "verified"}],
           NEW ns \in [Tokens -> Users \cup {"unused", "ended"}],
           Writes(t, a, nu, ns),
           \A k \in Tokens :
              /\ ns[k] = sessions[k] \/ (sessions[k] # "unused" /\ ns[k] = "ended")
              /\ ns[k] \in Users => nu[ns[k]] # "absent",
           LET k == tab[t].cookies.session IN
              a.session = "clear" /\ k \in Tokens =>
                 ns[k] \notin Users \/ tab[t].route = GET("ConfirmEmailChange")
    PROVE  WritesTables(t, a)
  <1>1. \A k \in Tokens : k # a.session
    BY PagesAssumption
  <1>2. /\ Respond(t, a) /\ users' = nu /\ sessions' = ns
        /\ Disturb(Tabs \ {t}) /\ visit' = visit /\ jar' = jar
    BY DEF Writes
  <1> QED
    BY <1>1, <1>2 DEF WritesTables

\* The tables as a handler finds them.
LEMMA TableFacts ==
    ASSUME TypeInv
    PROVE  /\ users \in [Users -> {"absent", "unverified", "verified"}]
           /\ sessions \in [Tokens -> Users \cup {"unused", "ended"}]
           /\ \A k \in Tokens : sessions[k] \in Users => users[sessions[k]] # "absent"
           /\ "ended" \notin Users /\ "unused" \notin Users
  BY PagesAssumption DEF TypeInv, TypeOK, Live, Exists

\* Forms that end sessions of the user.
LEMMA UserWrites ==
    ASSUME TypeInv, SessionInv, NEW t \in Tabs,
           \/ logout(t) \/ revokeOtherSessions(t) \/ changePassword(t) \/ deleteAccount(t)
           \/ \E k \in Tokens : revokeSession(t, k)
    PROVE  \E a : WritesTables(t, a)
  <1> DEFINE u == tab[t].user
             c == tab[t].cookies.session
  <1> USE DEF Handling
  <1>a. \A p : POST(p).method = "POST" /\ POST(p).path = p
    BY DEF POST
  <1>b. {"Logout", "AccountSessionsRevoke", "AccountSessionsRevokeOthers", "ChangePassword",
         "AccountDelete"} \subseteq AuthPaths \cup VerifiedAuthPaths
    BY DEF AuthPaths, VerifiedAuthPaths
  <1>c. {"Login", "Home", "Account"} \subseteq Paths \cup {"text"}
    BY PathFacts DEF MessagePaths
  <1>d. /\ tab[t].at = "handler" /\ tab[t].route.method = "POST"
        /\ tab[t].route.path \in AuthPaths \cup VerifiedAuthPaths
    BY <1>a, <1>b DEF logout, revokeOtherSessions, changePassword, deleteAccount, revokeSession
  <1>e. /\ u \in Users /\ Base(t).session = "keep"
        /\ c \in Tokens /\ sessions[c] \in {u, "ended"} /\ u \notin {"unused", "ended"}
    BY <1>d, HandlerFacts, PagesAssumption
  <1> DEFINE out == clearSessionCookie(To(t, "Home"))
             in == clearSessionCookie(Tells(t, "Login"))
             tell == Tells(t, "Account")
  <1>g. /\ out \in Answer /\ out.to = "Home" /\ out.session = "clear" /\ out.flash = "keep"
    BY <1>c, <1>d, ReplyFacts DEF clearSessionCookie, Answer
  <1>h. /\ in \in Answer /\ in.to = "Login" /\ in.session = "clear"
    BY <1>c, <1>d, ReplyFacts DEF clearSessionCookie, Answer
  <1>i. /\ tell \in Answer /\ tell.to = "Account" /\ tell.session = "keep"
    BY <1>c, <1>d, <1>e, ReplyFacts
  <1> HIDE DEF u, c, out, in, tell
  <1>j. Reply(t, out) /\ Reply(t, in) /\ Reply(t, tell)
    BY <1>d, <1>g, <1>h, <1>i DEF Reply, MessagePaths
  <1>1. CASE logout(t)
    <2> DEFINE ns == [sessions EXCEPT ![c] = "ended"]
    <2>1. Writes(t, out, users, ns)
      BY <1>1 DEF logout, out, c
    <2>2. /\ ns \in [Tokens -> Users \cup {"unused", "ended"}]
          /\ \A k \in Tokens : ns[k] = IF k = c THEN "ended" ELSE sessions[k]
      BY TableFacts
    <2> HIDE DEF ns
    <2>3. \A k \in Tokens :
              /\ ns[k] = sessions[k] \/ (sessions[k] # "unused" /\ ns[k] = "ended")
              /\ ns[k] \in Users => users[ns[k]] # "absent"
      <3>1. sessions[c] # "unused"
        BY <1>e
      <3> QED
        BY <2>2, <3>1, TableFacts
    <2>4. ns[c] \notin Users
      BY <2>2, <1>e, TableFacts
    <2>5. WritesTables(t, out)
      BY <1>d, <1>g, <1>j, <2>1, <2>2, <2>3, <2>4, TableFacts, EndingWrites DEF c
    <2> QED
      BY <2>5
  <1>2. CASE \E k \in Tokens : revokeSession(t, k)
    <2>0. PICK r \in Tokens : revokeSession(t, r)
      BY <1>2
    <2> DEFINE ns == [sessions EXCEPT ![r] = "ended"]
    <2>1. Writes(t, tell, users, ns) /\ sessions[r] = u
      BY <2>0 DEF revokeSession, tell, u
    <2>2. /\ ns \in [Tokens -> Users \cup {"unused", "ended"}]
          /\ \A k \in Tokens : ns[k] = IF k = r THEN "ended" ELSE sessions[k]
      BY TableFacts
    <2> HIDE DEF ns
    <2>3. \A k \in Tokens :
              /\ ns[k] = sessions[k] \/ (sessions[k] # "unused" /\ ns[k] = "ended")
              /\ ns[k] \in Users => users[ns[k]] # "absent"
      <3>1. sessions[r] # "unused"
        BY <1>e, <2>1
      <3> QED
        BY <2>2, <3>1, TableFacts
    <2>5. WritesTables(t, tell)
      BY <1>d, <1>i, <1>j, <2>1, <2>2, <2>3, TableFacts, EndingWrites
    <2> QED
      BY <2>5
  <1>3. CASE revokeOtherSessions(t)
    <2> DEFINE ns == WithoutSessionsOf(u, {c})
    <2>1. Writes(t, tell, users, ns)
      BY <1>3 DEF revokeOtherSessions, tell, u, c
    <2>2. /\ ns \in [Tokens -> Users \cup {"unused", "ended"}]
          /\ \A k \in Tokens : ns[k] = sessions[k] \/ (sessions[k] # "unused" /\ ns[k] = "ended")
      BY <1>e, CascadeFacts
    <2> HIDE DEF ns
    <2>3. \A k \in Tokens : ns[k] \in Users => users[ns[k]] # "absent"
      BY <2>2, TableFacts
    <2>5. WritesTables(t, tell)
      BY <1>d, <1>i, <1>j, <2>1, <2>2, <2>3, TableFacts, EndingWrites
    <2> QED
      BY <2>5
  <1>4. CASE changePassword(t)
    <2> DEFINE ns == WithoutSessionsOf(u, {})
    <2>1. Writes(t, in, users, ns)
      BY <1>4 DEF changePassword, in, u
    <2>2. /\ ns \in [Tokens -> Users \cup {"unused", "ended"}]
          /\ \A k \in Tokens : /\ ns[k] = sessions[k] \/ (sessions[k] # "unused" /\ ns[k] = "ended")
                               /\ ns[k] # u
      BY <1>e, CascadeFacts
    <2> HIDE DEF ns
    <2>3. \A k \in Tokens : ns[k] \in Users => users[ns[k]] # "absent"
      BY <2>2, TableFacts
    <2>4. ns[c] \notin Users
      BY <2>2, <1>e, TableFacts
    <2>5. WritesTables(t, in)
      BY <1>d, <1>h, <1>j, <2>1, <2>2, <2>3, <2>4, TableFacts, EndingWrites DEF c
    <2> QED
      BY <2>5
  <1>5. CASE deleteAccount(t)
    <2> DEFINE ns == WithoutSessionsOf(u, {})
               nu == [users EXCEPT ![u] = "absent"]
    <2>1. Writes(t, out, nu, ns)
      BY <1>5 DEF deleteAccount, out, u
    <2>2. /\ ns \in [Tokens -> Users \cup {"unused", "ended"}]
          /\ \A k \in Tokens : /\ ns[k] = sessions[k] \/ (sessions[k] # "unused" /\ ns[k] = "ended")
                               /\ ns[k] # u
      BY <1>e, CascadeFacts
    <2>3. /\ nu \in [Users -> {"absent", "unverified", "verified"}]
          /\ \A x \in Users : x # u => nu[x] = users[x]
      BY TableFacts
    <2> HIDE DEF ns, nu
    <2>4. \A k \in Tokens : ns[k] \in Users => nu[ns[k]] # "absent"
      BY <2>2, <2>3, TableFacts
    <2>5. ns[c] \notin Users
      BY <2>2, <1>e, TableFacts
    <2>6. WritesTables(t, out)
      BY <1>d, <1>g, <1>j, <2>1, <2>2, <2>3, <2>4, <2>5, TableFacts, EndingWrites DEF c
    <2> QED
      BY <2>6
  <1> QED
    BY <1>1, <1>2, <1>3, <1>4, <1>5

\* Sign-ins: the password, the passkey, the code that was asked for.
LEMMA SignInHandlers ==
    ASSUME TypeInv, SessionInv, NEW t \in Tabs,
           \/ \E u \in Users : loginTOTPRequired(t, u)
           \/ \E k \in Tokens, next \in Nexts : twoFactorChallenge(t, k, next)
           \/ \E k \in Tokens, next \in Nexts, u \in Users :
                 login(t, u, k, next) \/ passkeyLoginFinish(t, u, k, next)
    PROVE  \E a : Reads(t, a) \/ WritesTables(t, a)
  <1> USE DEF Handling
  <1>a. \A p : POST(p).method = "POST" /\ POST(p).path = p
    BY DEF POST
  <1>b. /\ {"Login", "LoginPasskeyFinish", "AccountTwoFactorChallenge"} \subseteq AnonymousPaths
        /\ {"Login", "AccountTwoFactorChallenge"} \subseteq Paths \cup {"text"}
    BY PathFacts DEF AnonymousPaths, MessagePaths
  <1>c. /\ tab[t].at = "handler" /\ tab[t].route.method = "POST"
        /\ tab[t].route.path \in AnonymousPaths
    BY <1>a, <1>b DEF loginTOTPRequired, twoFactorChallenge, login, passkeyLoginFinish
  <1>d. \A v, next : AfterLogin(v, next) \in Paths
    <2>1. "VerifyEmail" \in Paths /\ "Account" \in Paths /\ "" \notin Paths
      BY DEF Paths, AnonymousPaths, AuthPaths, VerifiedAuthPaths, OpenPaths
    <2> QED
      BY <2>1 DEF AfterLogin, safeRedirectPath
  <1>e. Base(t) \in Answer /\ Base(t).flash = "keep"
    BY <1>c, BaseFacts
  <1>1. CASE \E u \in Users : loginTOTPRequired(t, u)
    <2>1. PICK u \in Users : loginTOTPRequired(t, u)
      BY <1>1
    <2> DEFINE a == [To(t, "AccountTwoFactorChallenge") EXCEPT !.pending = u]
    <2>2. a \in Answer /\ a.session = Base(t).session /\ a.flash = "keep"
      BY <1>b, <1>c, ReplyFacts DEF Answer
    <2>3. Answers(t, a)
      BY <2>1 DEF loginTOTPRequired
    <2> HIDE DEF a
    <2>4. Reads(t, a)
      BY <1>c, <2>2, <2>3 DEF Reads, Reply
    <2> QED
      BY <2>4
  <1>2. CASE \E k \in Tokens, next \in Nexts : twoFactorChallenge(t, k, next)
    <2>1. PICK k \in Tokens, next \in Nexts : twoFactorChallenge(t, k, next)
      BY <1>2
    <2> DEFINE b == [Base(t) EXCEPT !.pending = "clear"]
               u == tab[t].cookies.pending
    <2>2. b \in Answer /\ b.flash = "keep"
      BY <1>e DEF Answer
    <2>3. \/ Answers(t, To(t, "Login")) \/ Answers(t, Page(t))
          \/ u # None /\ SignsIn(t, u, k, b, AfterLogin(TRUE, next))
      BY <2>1 DEF twoFactorChallenge
    <2>4. u \in Users \cup {None}
      BY <1>c, HandlerFacts
    <2> HIDE DEF b, u
    <2>5. CASE Answers(t, To(t, "Login"))
      BY <1>b, <1>c, <2>5, PostReply
    <2>6. CASE Answers(t, Page(t))
      BY <1>c, <2>6, PageReply
    <2>7. CASE u # None /\ SignsIn(t, u, k, b, AfterLogin(TRUE, next))
      BY <1>c, <1>d, <2>2, <2>4, <2>7, SignInWrites
    <2> QED
      BY <2>3, <2>5, <2>6, <2>7
  <1>3. CASE \E k \in Tokens, next \in Nexts, u \in Users :
                 login(t, u, k, next) \/ passkeyLoginFinish(t, u, k, next)
    <2>1. PICK k \in Tokens, next \in Nexts, u \in Users :
                 login(t, u, k, next) \/ passkeyLoginFinish(t, u, k, next)
      BY <1>3
    <2>2. SignsIn(t, u, k, Base(t), AfterLogin(users[u] = "verified", next))
      BY <2>1 DEF login, passkeyLoginFinish
    <2> QED
      BY <1>c, <1>d, <1>e, <2>2, SignInWrites
  <1> QED
    BY <1>1, <1>2, <1>3

\* A form or a mailed link that needs no session.
LEMMA VisitorWrites ==
    ASSUME TypeInv, SessionInv, NEW t \in Tabs, NEW u \in Users,
           register(t, u) \/ resetPassword(t, u) \/ confirmEmail(t, u) \/ confirmEmailChange(t, u)
    PROVE  \E a : Reads(t, a) \/ WritesTables(t, a)
  <1> DEFINE c == tab[t].cookies.session
             ns == WithoutSessionsOf(u, {})
             set(x) == [users EXCEPT ![u] = x]
  <1> USE DEF Handling
  <1>a. \A p : /\ POST(p).method = "POST" /\ POST(p).path = p
               /\ GET(p).method = "GET" /\ GET(p).path = p
    BY DEF POST, GET
  <1>b. {"Register", "ResetPassword"} \subseteq AnonymousPaths
    BY DEF AnonymousPaths
  <1>c. "Login" \in Paths \cup {"text"} /\ "Login" \in MessagePaths
    BY PathFacts DEF MessagePaths
  <1>d. tab[t].at = "handler"
    BY DEF register, resetPassword, confirmEmail, confirmEmailChange
  <1>e. /\ Base(t) \in Answer
        /\ Base(t).session \in {"keep", "clear"}
        /\ Base(t).session = "clear" => tab[t].user = None
    BY <1>d, BaseFacts
  <1>f. tab[t].user = None /\ c \in Tokens => sessions[c] \notin Users
    BY <1>d, HandlerFacts
  <1>g. /\ ns \in [Tokens -> Users \cup {"unused", "ended"}]
        /\ \A k \in Tokens : /\ ns[k] = sessions[k] \/ (sessions[k] # "unused" /\ ns[k] = "ended")
                             /\ ns[k] # u
    BY CascadeFacts
  <1>h. \A x \in {"absent", "unverified", "verified"} :
           /\ set(x) \in [Users -> {"absent", "unverified", "verified"}]
           /\ \A y \in Users : set(x)[y] = IF y = u THEN x ELSE users[y]
    BY TableFacts
  <1> HIDE DEF c, ns, set
  <1>i. \A k \in Tokens : ns[k] \in Users => users[ns[k]] # "absent"
    BY <1>g, TableFacts
  <1>j. \A k \in Tokens : ns[k] \in Users => set("verified")[ns[k]] # "absent"
    BY <1>h, <1>i
  <1>1. CASE register(t, u)
    <2> DEFINE x == IF Exists(u) THEN users[u] ELSE "unverified"
    <2>1. /\ tab[t].route.method = "POST" /\ tab[t].route.path \in AnonymousPaths
          /\ Writes(t, Tells(t, "Login"), set(x), sessions)
      BY <1>1, <1>a, <1>b DEF register, set
    <2>2. x \in {"unverified", "verified"}
      BY TableFacts DEF Exists
    <2> HIDE DEF x
    <2>3. Reply(t, Tells(t, "Login")) /\ Tells(t, "Login").session = Base(t).session
      BY <1>c, <1>d, <2>1, ReplyFacts DEF Reply
    <2>4. \A k \in Tokens : sessions[k] \in Users => set(x)[sessions[k]] # "absent"
      BY <1>h, <2>2, TableFacts
    <2>5. WritesTables(t, Tells(t, "Login"))
      BY <1>d, <1>e, <1>f, <1>h, <2>1, <2>2, <2>3, <2>4, TableFacts, EndingWrites DEF c
    <2> QED
      BY <2>5
  <1>2. CASE resetPassword(t, u)
    <2> DEFINE p == clearResetCookie(Page(t))
               a == clearResetCookie(Tells(t, "Login"))
    <2>1. /\ tab[t].route.method = "POST" /\ tab[t].route.path \in AnonymousPaths
          /\ \/ Answers(t, Page(t)) \/ Answers(t, p)
             \/ Writes(t, a, users, ns)
      BY <1>2, <1>a, <1>b DEF resetPassword, ns
    <2>2. p \in Answer /\ p.session = Base(t).session /\ p.flash # "set"
      BY <1>c, <1>d, ReplyFacts DEF clearResetCookie, Answer
    <2>3. a \in Answer /\ a.session = Base(t).session /\ a.to = "Login"
      BY <1>c, <1>d, ReplyFacts DEF clearResetCookie, Answer
    <2> HIDE DEF p, a
    <2>4. CASE Answers(t, Page(t))
      BY <1>d, <2>4, PageReply
    <2>5. CASE Answers(t, p)
      <3>1. Reads(t, p)
        BY <1>d, <2>1, <2>2, <2>5 DEF Reads, Reply
      <3> QED
        BY <3>1
    <2>6. CASE Writes(t, a, users, ns)
      <3>1. Reply(t, a)
        BY <1>c, <2>1, <2>3 DEF Reply
      <3>2. tab[t].user = None /\ c \in Tokens => ns[c] \notin Users
        BY <1>f, <1>g, TableFacts
      <3>3. WritesTables(t, a)
        BY <1>d, <1>e, <1>g, <1>i, <2>1, <2>3, <2>6, <3>1, <3>2, TableFacts, EndingWrites DEF c
      <3> QED
        BY <3>3
    <2> QED
      BY <2>1, <2>4, <2>5, <2>6
  <1>3. CASE confirmEmail(t, u)
    <2>1. Writes(t, Page(t), set("verified"), sessions)
      BY <1>3 DEF confirmEmail, set
    <2>2. Reply(t, Page(t)) /\ Page(t).session = Base(t).session /\ Page(t).to = "page"
      BY <1>c, <1>d, ReplyFacts DEF Reply, GetReply
    <2>3. \A k \in Tokens : sessions[k] \in Users => set("verified")[sessions[k]] # "absent"
      BY <1>h, TableFacts
    <2>4. WritesTables(t, Page(t))
      BY <1>d, <1>e, <1>f, <1>h, <2>1, <2>2, <2>3, TableFacts, EndingWrites DEF c
    <2> QED
      BY <2>4
  <1>4. CASE confirmEmailChange(t, u)
    <2> DEFINE a == clearSessionCookie(Page(t))
    <2>1. Writes(t, a, set("verified"), ns) /\ tab[t].route = GET("ConfirmEmailChange")
      BY <1>4 DEF confirmEmailChange, set, ns
    <2>2. a \in Answer /\ a.to = "page" /\ a.session = "clear" /\ a.flash # "set"
      BY <1>c, <1>d, ReplyFacts DEF clearSessionCookie, Answer
    <2> HIDE DEF a
    <2>3. Reply(t, a)
      BY <2>2 DEF Reply, GetReply
    <2>4. WritesTables(t, a)
      BY <1>d, <1>g, <1>h, <1>j, <2>1, <2>2, <2>3, EndingWrites DEF c
    <2> QED
      BY <2>4
  <1> QED
    BY <1>1, <1>2, <1>3, <1>4

\* Every handler is one or the other.
LEMMA HandleKinds ==
    ASSUME TypeInv, SessionInv, NEW t \in Tabs, Handle(t)
    PROVE  \E a : Reads(t, a) \/ WritesTables(t, a)
  BY ReadingHandlers, UserWrites, SignInHandlers, VisitorWrites DEF Handle

-----------------------------------------------------------------------------
(* Types.                                                                  *)

\* An answered request.
LEMMA AnsweredFacts ==
    ASSUME TypeInv, NEW t \in Tabs, NEW a \in Answer
    PROVE  LET q == Answered(t, a) IN
           /\ q \in Tab /\ q.at = "answered" /\ q.answer = a
           /\ q.cookies.session = tab[t].cookies.session
           /\ q.cookies.flash = tab[t].cookies.flash
           /\ tab[t].route.path \in {"ConfirmEmailChange", "VerifyEmailResend"} =>
                 q.route = tab[t].route
  <1>1. /\ tab[t].route \in Routes /\ tab[t].cookies.session \in Tokens \cup {None}
        /\ tab[t].cookies.flash \in BOOLEAN
    BY DEF TypeInv, TypeOK, Tab, Cookies
  <1> DEFINE c == [NoCookies EXCEPT !.session = tab[t].cookies.session,
                                    !.flash = tab[t].cookies.flash]
             r == IF tab[t].route.path \in {"ConfirmEmailChange", "VerifyEmailResend"}
                  THEN tab[t].route ELSE Idle.route
  <1>2. /\ c \in Cookies /\ c.session = tab[t].cookies.session
        /\ c.flash = tab[t].cookies.flash
    BY <1>1 DEF NoCookies, Cookies
  <1>3. GET("Home") \in Routes
    BY PathFacts, RouteFacts
  <1>4. r \in Routes
    BY <1>1, <1>3 DEF Idle
  <1> DEFINE q == [at |-> "answered", route |-> r, cookies |-> c, user |-> None,
                   verified |-> FALSE, answer |-> a]
  <1> HIDE DEF c, r
  <1>5. Answered(t, a) = q
    <2>1. Answered(t, a) = [Idle EXCEPT !.at = "answered", !.answer = a, !.route = r,
                                        !.cookies = c]
      BY Zenon DEF Answered, c, r
    <2> QED
      BY <2>1 DEF Idle
  <1>6. q \in Tab
    BY <1>2, <1>4 DEF Tab
  <1> QED
    BY <1>2, <1>5, <1>6 DEF r

\* A step of one tab.
LEMMA TabStep ==
    ASSUME TypeInv, NEW t \in Tabs, NEW q \in Tab, tab' = [tab EXCEPT ![t] = q]
    PROVE  /\ tab' \in [Tabs -> Tab] /\ tab'[t] = q
           /\ \A x \in Tabs \ {t} : tab'[x] = tab[x] /\ TabShape(x)'
  <1>1. tab \in [Tabs -> Tab] /\ \A x \in Tabs : TabShape(x)
    BY DEF TypeInv, TypeOK
  <1>2. tab' \in [Tabs -> Tab] /\ tab'[t] = q /\ \A x \in Tabs \ {t} : tab'[x] = tab[x]
    BY <1>1
  <1>3. \A x \in Tabs \ {t} : TabShape(x)'
    BY <1>1, <1>2 DEF TabShape, Headers
  <1> QED
    BY <1>2, <1>3

\* A request as it is sent.
Sent(r, c) == [Idle EXCEPT !.at = "sent", !.route = r, !.cookies = CookiesFor(r.path, c)]

\* The idle tab, and a request on its way.
LEMMA RequestFacts ==
    ASSUME NEW r \in Routes, NEW c \in Cookies
    PROVE  /\ CookiesFor(r.path, c) \in Cookies
           /\ CookiesFor(r.path, c).session = c.session
           /\ CookiesFor(r.path, c).flash = c.flash
           /\ Idle \in Tab /\ Idle.at = "idle" /\ Idle.answer = NoAnswer
           /\ Sent(r, c) \in Tab /\ Sent(r, c).at = "sent" /\ Sent(r, c).route = r
           /\ Sent(r, c).answer = NoAnswer
           /\ Sent(r, c).cookies = CookiesFor(r.path, c)
  <1>1. /\ CookiesFor(r.path, c) \in Cookies
        /\ CookiesFor(r.path, c).session = c.session
        /\ CookiesFor(r.path, c).flash = c.flash
    BY DEF CookiesFor, Cookies
  <1>2. NoCookies \in Cookies /\ NoAnswer \in Answer /\ GET("Home") \in Routes
    BY PathFacts, RouteFacts DEF NoCookies, Cookies, NoAnswer, Answer
  <1>3. Idle \in Tab /\ Idle.at = "idle" /\ Idle.answer = NoAnswer
    BY <1>2 DEF Idle, Tab
  <1> QED
    BY <1>1, <1>3 DEF Tab, Sent

\* The cookies after an answer.
LEMMA AppliedFacts ==
    ASSUME TypeInv, NEW a \in Answer
    PROVE  /\ Applied(a) \in Cookies
           /\ Applied(a).session = IF a.session = "keep" THEN jar.session
                                   ELSE IF a.session = "clear" THEN None ELSE a.session
           /\ Applied(a).flash = IF a.flash = "keep" THEN jar.flash ELSE a.flash = "set"
  <1>1. /\ jar.session \in Tokens \cup {None} /\ jar.flash \in BOOLEAN
        /\ jar.reset \in BOOLEAN /\ jar.pending \in Users \cup {None}
    BY DEF TypeInv, TypeOK, Cookies
  <1>2. /\ a.session \in Tokens \cup {"keep", "clear"} /\ a.flash \in {"keep", "set", "pop"}
        /\ a.reset \in {"keep", "set", "clear"} /\ a.pending \in Users \cup {"keep", "clear"}
    BY DEF Answer
  <1>3. Applied(a).session \in Tokens \cup {None}
    BY <1>1, <1>2 DEF Applied
  <1>4. Applied(a).pending \in Users \cup {None}
    BY <1>1, <1>2 DEF Applied
  <1>5. Applied(a).flash \in BOOLEAN
    BY <1>1, <1>2 DEF Applied
  <1>6. Applied(a).reset \in BOOLEAN
    BY <1>1, <1>2 DEF Applied
  <1>7. Applied(a) = [session |-> Applied(a).session, flash |-> Applied(a).flash,
                      reset |-> Applied(a).reset, pending |-> Applied(a).pending]
    BY DEF Applied
  <1>8. Applied(a) \in Cookies
    BY <1>3, <1>4, <1>5, <1>6, <1>7 DEF Cookies
  <1>9. Applied(a).session = IF a.session = "keep" THEN jar.session
                             ELSE IF a.session = "clear" THEN None ELSE a.session
    BY DEF Applied
  <1>10. Applied(a).flash = IF a.flash = "keep" THEN jar.flash ELSE a.flash = "set"
    BY DEF Applied
  <1> QED
    BY <1>8, <1>9, <1>10

-----------------------------------------------------------------------------
(* The other steps, in one form.                                           *)

\* A request is sent.
LEMMA SendFacts ==
    ASSUME TypeInv, NEW t \in Tabs, NEW r \in visit.begins[t], Send(t, r)
    PROVE  \E q \in Tab :
              /\ tab' = [tab EXCEPT ![t] = q] /\ tab[t] = Idle
              /\ q.at = "sent" /\ q.route = r /\ r \in Routes /\ q.answer = NoAnswer
              /\ q.cookies.session = jar.session /\ q.cookies.flash = jar.flash
              /\ UNCHANGED <<visit, users, sessions, jar, hops, owed>>
  <1> DEFINE q == Sent(r, jar)
  <1>1. r \in Routes /\ jar \in Cookies
    BY PagesAssumption DEF TypeInv, TypeOK
  <1>2. /\ q \in Tab /\ q.at = "sent" /\ q.route = r /\ q.answer = NoAnswer
        /\ q.cookies.session = jar.session /\ q.cookies.flash = jar.flash
    BY <1>1, RequestFacts
  <1>3. tab[t] = Idle /\ UNCHANGED <<visit, users, sessions, jar, hops, owed>>
    BY DEF Send
  <1>4. tab' = [tab EXCEPT ![t] = q]
    <2>1. tab' = [tab EXCEPT ![t].at = "sent", ![t].route = r,
                             ![t].cookies = CookiesFor(r.path, jar)]
      BY DEF Send
    <2>2. tab \in [Tabs -> Tab]
      BY DEF TypeInv, TypeOK
    <2> QED
      BY <1>3, <2>1, <2>2 DEF Sent
  <1> HIDE DEF q
  <1> QED
    BY <1>1, <1>2, <1>3, <1>4

\* What loadSession finds is what the cookie says now.
Finds(t) == UserOf(tab[t].cookies.session)
FindsVerified(t) == VerifiedBy(tab[t].cookies.session)

\* The gate answers, or the handler starts.
LEMMA LoadFacts ==
    ASSUME TypeInv, NEW t \in Tabs, loadSession(t)
    PROVE  LET u == Finds(t)
               v == FindsVerified(t)
               g == Gate(tab[t].route, u, v)
           IN
           /\ UNCHANGED <<visit, users, sessions, jar, hops, owed>>
           /\ tab[t].at = "sent" /\ tab[t].route \in Routes
           /\ u \in Users \cup {None} /\ v \in BOOLEAN /\ (v => u # None)
           /\ \/ \E a \in Answer :
                    /\ tab' = [tab EXCEPT ![t] = Answered(t, a)]
                    /\ g # None /\ a.to = g /\ a.flash = "keep"
                    /\ a.session = IF tab[t].cookies.session # None /\ u = None
                                   THEN "clear" ELSE "keep"
              \/ \E q \in Tab :
                    /\ tab' = [tab EXCEPT ![t] = q]
                    /\ g = None /\ q.at = "handler"
                    /\ q.user = u /\ q.verified = v /\ q.route = tab[t].route
                    /\ q.cookies = tab[t].cookies /\ q.answer = Headers(t, u)
  <1> DEFINE k == tab[t].cookies.session
             u == Finds(t)
             v == FindsVerified(t)
             g == Gate(tab[t].route, u, v)
  <1>0. /\ tab \in [Tabs -> Tab] /\ tab[t] \in Tab /\ tab[t].route \in Routes
        /\ k \in Tokens \cup {None}
        /\ sessions \in [Tokens -> Users \cup {"unused", "ended"}]
    BY DEF TypeInv, TypeOK, Tab, Cookies
  <1>1. u = IF Live(k) THEN sessions[k] ELSE None
    BY DEF Finds, UserOf
  <1>2. v = (u # None /\ users[u] = "verified")
    BY <1>1, PagesAssumption DEF FindsVerified, VerifiedBy, Live
  <1>3. u \in Users \cup {None} /\ v \in BOOLEAN /\ (v => u # None)
    BY <1>0, <1>1, <1>2 DEF Live
  <1>4. /\ tab[t].at = "sent"
        /\ UNCHANGED <<visit, users, sessions, jar, hops, owed>>
        /\ IF g # None THEN Respond(t, Redirect(Headers(t, u), g))
           ELSE tab' = [tab EXCEPT ![t].at = "handler", ![t].user = u,
                          ![t].verified = v, ![t].answer = Headers(t, u)]
    <2>1. v = (u # None /\ users[u] = "verified") /\ u = IF Live(k) THEN sessions[k] ELSE None
      BY <1>1, <1>2
    <2> HIDE DEF u, v
    <2> QED
      BY <2>1 DEF loadSession
  <1>5. g \in {None, "text", "Account", "VerifyEmail", "Login"}
    BY <1>0, <1>3, GateFacts
  <1>6. /\ Headers(t, u) \in Answer /\ Headers(t, u).flash = "keep"
        /\ Headers(t, u).session = IF k # None /\ u = None THEN "clear" ELSE "keep"
    BY HeadersFacts
  <1>7. CASE g # None
    <2> DEFINE a == Redirect(Headers(t, u), g)
    <2>1. g \in Paths \cup {"page", "text"}
      BY <1>5, <1>7, PathFacts DEF MessagePaths
    <2>2. /\ a \in Answer /\ a.to = g /\ a.flash = "keep"
          /\ a.session = Headers(t, u).session
      BY <1>6, <2>1 DEF Redirect, Answer
    <2>3. tab' = [tab EXCEPT ![t] = Answered(t, a)]
      BY <1>4, <1>7 DEF Respond
    <2> HIDE DEF a
    <2>4. a.session = IF k # None /\ u = None THEN "clear" ELSE "keep"
      BY <2>2, <1>6
    <2> HIDE DEF g, u, v, k
    <2>5. \E x \in Answer : /\ tab' = [tab EXCEPT ![t] = Answered(t, x)]
                            /\ g # None /\ x.to = g /\ x.flash = "keep"
                            /\ x.session = IF k # None /\ u = None THEN "clear" ELSE "keep"
      BY <1>7, <2>2, <2>3, <2>4
    <2> QED
      BY <1>0, <1>3, <1>4, <2>5 DEF g, u, v, k
  <1>8. CASE g = None
    <2> DEFINE q == [tab[t] EXCEPT !.at = "handler", !.user = u, !.verified = v,
                                   !.answer = Headers(t, u)]
    <2> HIDE DEF u, v, g
    <2>1. tab' = [tab EXCEPT ![t] = q]
      BY <1>0, <1>4, <1>8
    <2>2. /\ q \in Tab /\ q.at = "handler" /\ q.user = u /\ q.verified = v
          /\ q.route = tab[t].route /\ q.cookies = tab[t].cookies /\ q.answer = Headers(t, u)
      BY <1>0, <1>3, <1>6 DEF Tab
    <2> HIDE DEF q
    <2>3. \E x \in Tab : /\ tab' = [tab EXCEPT ![t] = x]
                         /\ g = None /\ x.at = "handler"
                         /\ x.user = u /\ x.verified = v /\ x.route = tab[t].route
                         /\ x.cookies = tab[t].cookies /\ x.answer = Headers(t, u)
      BY <1>8, <2>1, <2>2
    <2> QED
      BY <1>0, <1>3, <1>4, <2>3 DEF u, v, g
  <1> QED
    BY <1>7, <1>8

\* An answer arrives.
LEMMA ReceiveFacts ==
    ASSUME TypeInv, NEW t \in Tabs, Receive(t)
    PROVE  LET a == tab[t].answer
               others == IF jar' = jar THEN {} ELSE Tabs \ {t}
           IN
           /\ UNCHANGED <<visit, users, sessions>>
           /\ tab[t].at = "answered" /\ a \in Answer
           /\ jar' = Applied(a) /\ jar' \in Cookies
           /\ \E q \in Tab :
                 /\ tab' = [tab EXCEPT ![t] = q]
                 /\ IF a.to \notin Paths THEN q = Idle
                    ELSE /\ q.at = "sent" /\ q.route = GET(a.to) /\ q.answer = NoAnswer
                         /\ q.cookies.session = jar'.session /\ q.cookies.flash = jar'.flash
           /\ hops' = [x \in Tabs |->
                 IF x = t THEN IF a.to \notin Paths THEN 0
                               ELSE IF hops[t] <= MaxRedirects THEN hops[t] + 1 ELSE hops[t]
                 ELSE IF x \in others THEN 0 ELSE hops[x]]
           /\ owed' = [x \in Tabs |->
                 IF x = t THEN (owed[t] \/ Owes(t, jar')) /\ ~Shows(t)
                 ELSE owed[x] /\ x \notin others]
  <1> DEFINE a == tab[t].answer
             new == Applied(a)
  <1>1. a \in Answer /\ tab[t].at = "answered" /\ jar' = new
    BY DEF TypeInv, TypeOK, Tab, Receive
  <1>2. new \in Cookies
    BY <1>1, AppliedFacts
  <1>3. PICK q : /\ tab' = [tab EXCEPT ![t] = q]
                 /\ q = IF ~Redirects(t) THEN Idle
                        ELSE [Idle EXCEPT !.at = "sent", !.route = GET(a.to),
                                !.cookies = CookiesFor(a.to, new)]
    BY DEF Receive
  <1>4. CASE a.to \notin Paths
    <2>1. q = Idle
      BY <1>3, <1>4 DEF Redirects
    <2>2. q \in Tab
      BY <1>2, <2>1, RouteFacts, PathFacts, RequestFacts
    <2> QED
      BY <1>1, <1>2, <1>3, <1>4, <2>1, <2>2 DEF Receive, Redirects
  <1>5. CASE a.to \in Paths
    <2>1. GET(a.to) \in Routes /\ GET(a.to).path = a.to
      BY <1>5, RouteFacts DEF GET
    <2>2. q = Sent(GET(a.to), new)
      BY <1>3, <1>5, <2>1 DEF Redirects, Sent
    <2> HIDE DEF new
    <2>3. /\ q \in Tab /\ q.at = "sent" /\ q.route = GET(a.to) /\ q.answer = NoAnswer
          /\ q.cookies.session = new.session /\ q.cookies.flash = new.flash
      BY <1>2, <2>1, <2>2, RequestFacts
    <2> QED
      BY <1>1, <1>2, <1>3, <1>5, <2>3 DEF Receive, Redirects, new
  <1> QED
    BY <1>4, <1>5

\* Sessions go on or end; one that was not issued stays so.
SessionsEnd ==
    \A k \in Tokens : sessions'[k] = sessions[k] \/ (sessions[k] # "unused" /\ sessions'[k] = "ended")

\* Others change the tables.
LEMMA ElsewhereFacts ==
    ASSUME TypeInv, Elsewhere
    PROVE  /\ visit' = visit /\ jar' = jar /\ tab' = tab /\ Disturb(Tabs)
           /\ users' \in [Users -> {"absent", "unverified", "verified"}]
           /\ sessions' \in [Tokens -> Users \cup {"unused", "ended"}]
           /\ SessionsEnd
           /\ \A k \in Tokens : sessions'[k] \in Users => users'[sessions'[k]] # "absent"
  <1>1. visit' = visit /\ jar' = jar /\ tab' = tab /\ Disturb(Tabs)
    BY DEF Elsewhere
  <1>2. ASSUME NEW u \in Users, NEW x \in {"unverified", "verified"},
               users' = [users EXCEPT ![u] = x], sessions' = sessions
        PROVE  /\ users' \in [Users -> {"absent", "unverified", "verified"}]
               /\ sessions' \in [Tokens -> Users \cup {"unused", "ended"}]
               /\ SessionsEnd
               /\ \A k \in Tokens : sessions'[k] \in Users => users'[sessions'[k]] # "absent"
    BY <1>2, TableFacts DEF SessionsEnd
  <1>3. ASSUME NEW u \in Users, users' = [users EXCEPT ![u] = "absent"],
               sessions' = WithoutSessionsOf(u, {})
        PROVE  /\ users' \in [Users -> {"absent", "unverified", "verified"}]
               /\ sessions' \in [Tokens -> Users \cup {"unused", "ended"}]
               /\ SessionsEnd
               /\ \A k \in Tokens : sessions'[k] \in Users => users'[sessions'[k]] # "absent"
    <2>1. /\ sessions' \in [Tokens -> Users \cup {"unused", "ended"}] /\ SessionsEnd
          /\ \A k \in Tokens : sessions'[k] # u
      BY <1>3, CascadeFacts DEF SessionsEnd
    <2>2. /\ users' \in [Users -> {"absent", "unverified", "verified"}]
          /\ \A y \in Users : y # u => users'[y] = users[y]
      BY <1>3, TableFacts
    <2> QED
      BY <2>1, <2>2, TableFacts DEF SessionsEnd
  <1>4. ASSUME NEW k \in Tokens, Live(k), sessions' = [sessions EXCEPT ![k] = "ended"],
               users' = users
        PROVE  /\ users' \in [Users -> {"absent", "unverified", "verified"}]
               /\ sessions' \in [Tokens -> Users \cup {"unused", "ended"}]
               /\ SessionsEnd
               /\ \A x \in Tokens : sessions'[x] \in Users => users'[sessions'[x]] # "absent"
    <2>1. sessions[k] # "unused"
      BY <1>4, TableFacts DEF Live
    <2>2. /\ sessions' \in [Tokens -> Users \cup {"unused", "ended"}]
          /\ \A x \in Tokens : sessions'[x] = IF x = k THEN "ended" ELSE sessions[x]
      BY <1>4, TableFacts
    <2> QED
      BY <1>4, <2>1, <2>2, TableFacts DEF SessionsEnd
  <1>5. \/ \E u \in Users, x \in {"unverified", "verified"} :
              users' = [users EXCEPT ![u] = x] /\ sessions' = sessions
        \/ \E u \in Users : /\ users' = [users EXCEPT ![u] = "absent"]
                            /\ sessions' = WithoutSessionsOf(u, {})
        \/ \E k \in Tokens : /\ Live(k) /\ sessions' = [sessions EXCEPT ![k] = "ended"]
                             /\ users' = users
    BY DEF Elsewhere
  <1> QED
    BY <1>1, <1>2, <1>3, <1>4, <1>5

\* Every step keeps the types.
LEMMA NextTypeInv ==
    ASSUME TypeInv, SessionInv, [Next]_vars
    PROVE  TypeInv'
  <1>0. MaxRedirects \in Nat
    BY PagesAssumption
  <1>a. /\ visit \in Visits /\ jar \in Cookies /\ tab \in [Tabs -> Tab]
        /\ hops \in [Tabs -> 0..(MaxRedirects + 1)] /\ owed \in [Tabs -> BOOLEAN]
        /\ \A x \in Tabs : TabShape(x)
    BY DEF TypeInv, TypeOK
  \* The tables of a step that leaves them alone.
  <1>b. users' = users /\ sessions' = sessions =>
           /\ users' \in [Users -> {"absent", "unverified", "verified"}]
           /\ sessions' \in [Tokens -> Users \cup {"unused", "ended"}]
           /\ \A k \in Tokens : sessions'[k] \in Users => users'[sessions'[k]] # "absent"
    BY TableFacts
  \* What is left to show.
  <1>c. ASSUME visit' = visit, jar' \in Cookies, tab' \in [Tabs -> Tab],
               hops' \in [Tabs -> 0..(MaxRedirects + 1)], owed' \in [Tabs -> BOOLEAN],
               users' \in [Users -> {"absent", "unverified", "verified"}],
               sessions' \in [Tokens -> Users \cup {"unused", "ended"}],
               \A k \in Tokens : sessions'[k] \in Users => users'[sessions'[k]] # "absent",
               \A x \in Tabs : TabShape(x)'
        PROVE  TypeInv'
    BY <1>a, <1>c DEF TypeInv, TypeOK, Live, Exists
  \* A step of a tab that is not idle for nothing.
  <1>d. ASSUME NEW t \in Tabs, NEW q \in Tab, tab' = [tab EXCEPT ![t] = q],
               q = Idle \/ q.at = "answered" \/ (q.at = "sent" /\ q.answer = NoAnswer)
        PROVE  tab' \in [Tabs -> Tab] /\ \A x \in Tabs : TabShape(x)'
    <2>1. /\ tab' \in [Tabs -> Tab] /\ tab'[t] = q
          /\ \A x \in Tabs \ {t} : TabShape(x)'
      BY <1>d, TabStep
    <2>2. Idle.at = "idle"
      BY DEF Idle
    <2>3. TabShape(t)'
      BY <1>d, <2>1, <2>2 DEF TabShape
    <2> QED
      BY <2>1, <2>3
  <1>e. ASSUME NEW others, Disturb(others)
        PROVE  hops' \in [Tabs -> 0..(MaxRedirects + 1)] /\ owed' \in [Tabs -> BOOLEAN]
    <2>1. hops' \in [Tabs -> 0..(MaxRedirects + 1)]
      BY <1>0, <1>a, <1>e DEF Disturb
    <2>2. owed' \in [Tabs -> BOOLEAN]
      BY <1>e, Zenon DEF Disturb
    <2> QED
      BY <2>1, <2>2
  <1>1. ASSUME NEW t \in Tabs, NEW r \in visit.begins[t], Send(t, r) PROVE TypeInv'
    <2>2. PICK q \in Tab :
              /\ tab' = [tab EXCEPT ![t] = q] /\ tab[t] = Idle
              /\ q.at = "sent" /\ q.route = r /\ r \in Routes /\ q.answer = NoAnswer
              /\ q.cookies.session = jar.session /\ q.cookies.flash = jar.flash
              /\ UNCHANGED <<visit, users, sessions, jar, hops, owed>>
      BY <1>1, SendFacts
    <2>3. tab' \in [Tabs -> Tab] /\ \A x \in Tabs : TabShape(x)'
      BY <2>2, <1>d
    <2> QED
      BY <1>a, <1>b, <1>c, <2>2, <2>3
  <1>2. ASSUME NEW t \in Tabs, loadSession(t) PROVE TypeInv'
    <2> DEFINE u == Finds(t)
               v == FindsVerified(t)
    <2>1. /\ UNCHANGED <<visit, users, sessions, jar, hops, owed>>
          /\ (v => u # None)
          /\ \/ \E a \in Answer : tab' = [tab EXCEPT ![t] = Answered(t, a)]
             \/ \E q \in Tab :
                    /\ tab' = [tab EXCEPT ![t] = q]
                    /\ Gate(tab[t].route, u, v) = None /\ q.at = "handler"
                    /\ q.user = u /\ q.verified = v /\ q.route = tab[t].route
                    /\ q.cookies = tab[t].cookies /\ q.answer = Headers(t, u)
      BY <1>2, LoadFacts
    <2> HIDE DEF u, v
    <2>2. tab' \in [Tabs -> Tab] /\ \A x \in Tabs : TabShape(x)'
      <3>1. CASE \E a \in Answer : tab' = [tab EXCEPT ![t] = Answered(t, a)]
        <4>1. PICK a \in Answer : tab' = [tab EXCEPT ![t] = Answered(t, a)]
          BY <3>1
        <4>2. Answered(t, a) \in Tab /\ Answered(t, a).at = "answered"
          BY AnsweredFacts
        <4> QED
          BY <4>1, <4>2, <1>d
      <3>2. ASSUME NEW q \in Tab,
                   /\ tab' = [tab EXCEPT ![t] = q]
                   /\ Gate(tab[t].route, u, v) = None /\ q.at = "handler"
                   /\ q.user = u /\ q.verified = v /\ q.route = tab[t].route
                   /\ q.cookies = tab[t].cookies /\ q.answer = Headers(t, u)
            PROVE  tab' \in [Tabs -> Tab] /\ \A x \in Tabs : TabShape(x)'
        <4>1. /\ tab' \in [Tabs -> Tab] /\ tab'[t] = q
              /\ \A x \in Tabs \ {t} : TabShape(x)'
          BY <3>2, TabStep
        <4>3. \A w : [NoAnswer EXCEPT !.session =
                   IF tab'[t].cookies.session # None /\ w = None THEN "clear" ELSE "keep"]
                = Headers(t, w)
          BY <3>2, <4>1 DEF Headers
        <4>4. tab'[t].answer = Headers(t, tab[t].user)'
          BY <3>2, <4>1, <4>3 DEF Headers
        <4>5. TabShape(t)'
          BY <2>1, <3>2, <4>1, <4>4 DEF TabShape
        <4> QED
          BY <4>1, <4>5
      <3> QED
        BY <2>1, <3>1, <3>2
    <2> QED
      BY <1>a, <1>b, <1>c, <2>1, <2>2
  <1>3. ASSUME NEW t \in Tabs, Handle(t) PROVE TypeInv'
    <2>1. PICK a : Reads(t, a) \/ WritesTables(t, a)
      BY <1>3, HandleKinds
    <2>2. a \in Answer /\ tab' = [tab EXCEPT ![t] = Answered(t, a)]
      BY <2>1 DEF Reads, WritesTables, Reply, Answers, Respond
    <2>3. tab' \in [Tabs -> Tab] /\ \A x \in Tabs : TabShape(x)'
      <3>1. Answered(t, a) \in Tab /\ Answered(t, a).at = "answered"
        BY <2>2, AnsweredFacts
      <3> QED
        BY <1>d, <2>2, <3>1
    <2>4. CASE Reads(t, a)
      <3>1. UNCHANGED <<visit, users, sessions, jar, hops, owed>>
        BY <2>4 DEF Reads, Answers
      <3> QED
        BY <1>a, <1>b, <1>c, <2>3, <3>1
    <2>5. CASE WritesTables(t, a)
      <3>1. /\ visit' = visit /\ jar' = jar /\ Disturb(Tabs \ {t})
            /\ users' \in [Users -> {"absent", "unverified", "verified"}]
            /\ sessions' \in [Tokens -> Users \cup {"unused", "ended"}]
            /\ \A k \in Tokens : sessions'[k] \in Users => users'[sessions'[k]] # "absent"
        BY <2>5 DEF WritesTables
      <3> QED
        BY <1>a, <1>c, <1>e, <2>3, <3>1
    <2> QED
      BY <2>1, <2>4, <2>5
  <1>4. ASSUME NEW t \in Tabs, Receive(t) PROVE TypeInv'
    <2>1. /\ UNCHANGED <<visit, users, sessions>> /\ jar' \in Cookies
      BY <1>4, ReceiveFacts
    <2>2. PICK q \in Tab : 
              /\ tab' = [tab EXCEPT ![t] = q]
              /\ IF tab[t].answer.to \notin Paths THEN q = Idle
                 ELSE /\ q.at = "sent" /\ q.route = GET(tab[t].answer.to)
                      /\ q.answer = NoAnswer
                      /\ q.cookies.session = jar'.session /\ q.cookies.flash = jar'.flash
      BY <1>4, ReceiveFacts
    <2>3. tab' \in [Tabs -> Tab] /\ \A x \in Tabs : TabShape(x)'
      BY <1>d, <2>2
    <2>4. hops' \in [Tabs -> 0..(MaxRedirects + 1)] /\ owed' \in [Tabs -> BOOLEAN]
      <3>1. hops' \in [Tabs -> 0..(MaxRedirects + 1)]
        <4>1. ASSUME NEW x \in Tabs PROVE hops'[x] \in 0..(MaxRedirects + 1)
          <5>1. hops[x] \in 0..(MaxRedirects + 1)
            BY <1>a
          <5> QED
            BY <1>0, <5>1, <1>4 DEF Receive
        <4> QED
          BY <4>1, <1>4 DEF Receive
      <3>2. owed' \in [Tabs -> BOOLEAN]
        BY <1>4, Zenon DEF Receive
      <3> QED
        BY <3>1, <3>2
    <2> QED
      BY <1>b, <1>c, <2>1, <2>3, <2>4
  <1>5. ASSUME NEW t \in Tabs, Lose(t) PROVE TypeInv'
    <2>1. /\ tab' = [tab EXCEPT ![t] = Idle] /\ UNCHANGED <<visit, users, sessions, jar>>
          /\ hops' \in [Tabs -> 0..(MaxRedirects + 1)] /\ owed' \in [Tabs -> BOOLEAN]
      <3>1. hops' \in [Tabs -> 0..(MaxRedirects + 1)]
        BY <1>0, <1>a, <1>5 DEF Lose
      <3>2. owed' \in [Tabs -> BOOLEAN]
        BY <1>a, <1>5 DEF Lose
      <3> QED
        BY <1>5, <3>1, <3>2 DEF Lose
    <2>2. Idle \in Tab
      BY <1>a, PathFacts, RouteFacts, RequestFacts
    <2>3. tab' \in [Tabs -> Tab] /\ \A x \in Tabs : TabShape(x)'
      BY <1>d, <2>1, <2>2
    <2> QED
      BY <1>a, <1>b, <1>c, <2>1, <2>3
  <1>6. CASE Elsewhere
    <2>1. \A x \in Tabs : TabShape(x)'
      BY <1>a, <1>6, ElsewhereFacts DEF TabShape, Headers
    <2> QED
      BY <1>a, <1>c, <1>e, <1>6, <2>1, ElsewhereFacts
  <1>7. CASE UNCHANGED vars
    <2>1. \A x \in Tabs : TabShape(x)'
      BY <1>a, <1>7 DEF TabShape, Headers, vars
    <2> QED
      BY <1>a, <1>b, <1>c, <1>7, <2>1 DEF vars
  <1> QED
    BY <1>1, <1>2, <1>3, <1>4, <1>5, <1>6, <1>7 DEF Next

-----------------------------------------------------------------------------
(* Session tokens.                                                         *)

\* A tab that does not move, while sessions go on or end.
LEMMA SessionKept ==
    ASSUME TypeInv, NEW x \in Tabs, TabSession(x), tab'[x] = tab[x],
           \A k \in Tokens : sessions[k] # "unused" => sessions'[k] \in {sessions[k], "ended"}
    PROVE  TabSession(x)'
  <1> DEFINE k == tab[x].cookies.session
  <1>1. "ended" \notin Users \cup {"unused"} /\ None \notin Tokens
    BY PagesAssumption
  <1>2. \A i : Issued(i) => Issued(i)'
    BY <1>1 DEF Issued
  <1>3. k \in Tokens \cup {None}
    BY DEF TypeInv, TypeOK, Tab, Cookies
  <1>4. Issued(k) /\ ~Live(k) => ~Live(k)'
    BY <1>1, <1>3 DEF Issued, Live
  <1>5. tab'[x].cookies.session = k
    OBVIOUS
  <1>6. Issued(k) /\ k \in Tokens /\ sessions[k] \in {tab[x].user, "ended"} =>
           sessions'[k] \in {tab[x].user, "ended"}
    BY DEF Issued
  <1> HIDE DEF k
  <1> QED
    BY <1>2, <1>4, <1>5, <1>6 DEF TabSession, k

\* Every step keeps the tokens issued, and the cookies of live sessions.
LEMMA NextSession ==
    ASSUME TypeInv, SessionInv, [Next]_vars
    PROVE  SessionInv'
  <1>a. /\ \A x \in Tabs : TabSession(x)
        /\ Issued(jar.session) /\ tab \in [Tabs -> Tab]
    BY DEF TypeInv, TypeOK, SessionInv
  <1>b. /\ {"keep", "clear", None} \cap Tokens = {}
        /\ NoAnswer.session = "keep" /\ Idle.at = "idle" /\ Idle.cookies.session = None
        /\ Idle.answer.session = "keep"
    BY PagesAssumption DEF NoAnswer, Idle, NoCookies
  <1>c. \A i : Issued(i) /\ sessions' = sessions => Issued(i)'
    BY DEF Issued
  \* Steps of one tab that leave the tables alone.
  <1>d. ASSUME NEW t \in Tabs, NEW q \in Tab, tab' = [tab EXCEPT ![t] = q],
               sessions' = sessions, TabSession(t)', Issued(jar.session)'
        PROVE  SessionInv'
    <2>1. \A x \in Tabs \ {t} : tab'[x] = tab[x]
      BY <1>d, TabStep
    <2>2. \A x \in Tabs \ {t} : TabSession(x)'
      BY <1>a, <1>d, <2>1, SessionKept
    <2> QED
      BY <1>d, <2>2 DEF SessionInv
  \* An answer.
  <1>e. ASSUME NEW t \in Tabs, NEW a \in Answer, tab' = [tab EXCEPT ![t] = Answered(t, a)],
               Issued(a.session)', NEW k, k = tab[t].cookies.session, Issued(k)',
               a.session # "keep" =>
                  ~(k # None /\ sessions'[k] \in Users) \/ tab[t].route = GET("ConfirmEmailChange")
        PROVE  TabSession(t)'
    <2> DEFINE q == Answered(t, a)
    <2>1. /\ q \in Tab /\ q.at = "answered" /\ q.answer = a
          /\ q.cookies.session = tab[t].cookies.session
          /\ tab[t].route.path \in {"ConfirmEmailChange", "VerifyEmailResend"} =>
                q.route = tab[t].route
      BY AnsweredFacts
    <2> HIDE DEF q
    <2>2. tab'[t] = q
      BY <1>e, <2>1, TabStep DEF q
    <2>3. GET("ConfirmEmailChange").path = "ConfirmEmailChange"
      BY DEF GET
    <2> QED
      BY <1>e, <2>1, <2>2, <2>3 DEF TabSession, Live, Issued
  \* A tab that is idle or waits for its answer.
  <1>f. ASSUME NEW t \in Tabs, NEW q \in Tab, tab' = [tab EXCEPT ![t] = q],
               q = Idle \/ (q.at = "sent" /\ q.answer = NoAnswer /\ Issued(q.cookies.session)')
        PROVE  TabSession(t)'
    <2>1. tab'[t] = q
      BY <1>f, TabStep
    <2>2. Issued("keep")' /\ Issued(None)'
      BY <1>b DEF Issued
    <2> QED
      BY <1>b, <1>f, <2>1, <2>2 DEF TabSession, Issued
  <1>1. ASSUME NEW t \in Tabs, NEW r \in visit.begins[t], Send(t, r) PROVE SessionInv'
    <2>1. PICK q \in Tab :
              /\ tab' = [tab EXCEPT ![t] = q] /\ tab[t] = Idle
              /\ q.at = "sent" /\ q.route = r /\ r \in Routes /\ q.answer = NoAnswer
              /\ q.cookies.session = jar.session /\ q.cookies.flash = jar.flash
              /\ UNCHANGED <<visit, users, sessions, jar, hops, owed>>
      BY <1>1, SendFacts
    <2>2. Issued(q.cookies.session)' /\ Issued(jar.session)'
      BY <1>a, <2>1 DEF Issued
    <2> QED
      BY <1>d, <1>f, <2>1, <2>2
  <1>2. ASSUME NEW t \in Tabs, loadSession(t) PROVE SessionInv'
    <2>0. PICK k, u : k = tab[t].cookies.session /\ u = Finds(t)
      OBVIOUS
    <2>1. /\ UNCHANGED <<visit, users, sessions, jar, hops, owed>>
          /\ \/ \E a \in Answer : /\ tab' = [tab EXCEPT ![t] = Answered(t, a)]
                                  /\ a.session = IF k # None /\ u = None
                                                 THEN "clear" ELSE "keep"
             \/ \E q \in Tab : /\ tab' = [tab EXCEPT ![t] = q] /\ q.at = "handler"
                               /\ q.user = u /\ q.cookies = tab[t].cookies
                               /\ q.answer = Headers(t, u)
      BY <1>2, <2>0, LoadFacts
    <2>2. /\ u = IF Live(k) THEN sessions[k] ELSE None
          /\ Live(k) => k \in Tokens /\ sessions[k] # None
      BY <2>0, PagesAssumption DEF Finds, UserOf, Live, TypeInv, TypeOK, Tab, Cookies
    <2>3. Issued(jar.session)' /\ Issued(k)' /\ Issued(k)
      BY <1>a, <2>0, <2>1 DEF Issued, TabSession
    <2>4. Issued("keep")' /\ Issued("clear")'
      BY <1>b DEF Issued
    <2>5. ASSUME NEW a \in Answer, tab' = [tab EXCEPT ![t] = Answered(t, a)],
                 a.session = IF k # None /\ u = None THEN "clear" ELSE "keep"
          PROVE  SessionInv'
      <3>1. Answered(t, a) \in Tab
        BY AnsweredFacts
      <3>2. Issued(a.session)'
        BY <2>4, <2>5
      <3>3. a.session # "keep" => ~(k # None /\ sessions'[k] \in Users)
        BY <2>1, <2>2, <2>5 DEF Live
      <3>4. TabSession(t)'
        BY <1>e, <2>0, <2>3, <2>5, <3>2, <3>3
      <3> QED
        BY <1>d, <2>1, <2>3, <2>5, <3>1, <3>4
    <2>6. ASSUME NEW q \in Tab, tab' = [tab EXCEPT ![t] = q], q.at = "handler",
                 q.user = u, q.cookies = tab[t].cookies, q.answer = Headers(t, u)
          PROVE  SessionInv'
      <3>1. tab'[t] = q
        BY <2>6, TabStep
      <3>2. q.cookies.session = k
        BY <2>0, <2>6
      <3>3. q.answer.session \in {"keep", "clear"}
        BY <2>6, HeadersFacts
      <3>4. Live(k)' = Live(k) /\ sessions' = sessions
        BY <2>1 DEF Live
      <3>5. TabSession(t)'
        BY <2>2, <2>3, <2>4, <2>6, <3>1, <3>2, <3>3, <3>4 DEF TabSession
      <3> QED
        BY <1>d, <2>1, <2>3, <2>6, <3>5
    <2> QED
      BY <2>1, <2>5, <2>6
  <1>3. ASSUME NEW t \in Tabs, NEW a, Reads(t, a) PROVE SessionInv'
    <2>0. PICK k : k = tab[t].cookies.session
      OBVIOUS
    <2>1. /\ a \in Answer /\ tab' = [tab EXCEPT ![t] = Answered(t, a)]
          /\ sessions' = sessions /\ jar' = jar /\ a.session = Base(t).session
          /\ tab[t].at \in {"sent", "handler"}
      BY <1>3 DEF Reads, Reply, Answers, Respond
    <2>2. /\ a.session \in {"keep", "clear"}
          /\ a.session = "clear" => tab[t].at = "handler" /\ tab[t].user = None
      BY <2>1, BaseFacts
    <2>3. a.session # "keep" => ~Live(k)
      BY <1>a, <2>0, <2>2 DEF TabSession
    <2>4. Issued(jar.session)' /\ Issued(k)' /\ Issued(a.session)'
      BY <1>a, <1>b, <2>0, <2>1, <2>2 DEF Issued, TabSession
    <2>5. Answered(t, a) \in Tab
      BY <2>1, AnsweredFacts
    <2>6. a.session # "keep" => ~(k # None /\ sessions'[k] \in Users)
      BY <2>1, <2>3 DEF Live
    <2>7. TabSession(t)'
      BY <1>e, <2>0, <2>1, <2>4, <2>6
    <2> QED
      BY <1>d, <2>1, <2>4, <2>5, <2>7
  <1>4. ASSUME NEW t \in Tabs, NEW a, WritesTables(t, a) PROVE SessionInv'
    <2>0. PICK k : k = tab[t].cookies.session
      OBVIOUS
    <2>1. /\ a \in Answer /\ tab' = [tab EXCEPT ![t] = Answered(t, a)] /\ jar' = jar
      BY <1>4 DEF WritesTables, Reply, Respond
    <2>2. \A i \in Tokens :
             /\ sessions[i] # "unused" => sessions'[i] \in {sessions[i], "ended"}
             /\ i = a.session => sessions'[i] # "unused"
             /\ i = k /\ a.session # "keep" =>
                   sessions'[i] \notin Users \/ tab[t].route = GET("ConfirmEmailChange")
      BY <1>4, <2>0 DEF WritesTables
    <2>3. \A i : Issued(i) => Issued(i)'
      BY <2>2 DEF Issued
    <2>4. k \in Tokens \cup {None} /\ Issued(k)
      BY <1>a, <2>0 DEF Tab, Cookies, TabSession
    <2>5. Issued(k)' /\ Issued(jar.session)'
      BY <1>a, <2>1, <2>3, <2>4
    <2>6. Issued(a.session)'
      BY <2>2 DEF Issued
    <2>7. Answered(t, a) \in Tab
      BY <2>1, AnsweredFacts
    <2>8. TabSession(t)'
      BY <1>e, <2>0, <2>1, <2>2, <2>4, <2>5, <2>6
    <2>9. \A x \in Tabs \ {t} : tab'[x] = tab[x]
      BY <2>1, <2>7, TabStep
    <2>10. \A x \in Tabs \ {t} : TabSession(x)'
      BY <1>a, <2>2, <2>9, SessionKept
    <2> QED
      BY <2>5, <2>8, <2>10 DEF SessionInv
  <1>5. ASSUME NEW t \in Tabs, Receive(t) PROVE SessionInv'
    <2>1. /\ tab[t].answer \in Answer /\ sessions' = sessions
          /\ jar' = Applied(tab[t].answer)
      BY <1>5, ReceiveFacts
    <2>2. PICK q \in Tab : 
              /\ tab' = [tab EXCEPT ![t] = q]
              /\ IF tab[t].answer.to \notin Paths THEN q = Idle
                 ELSE /\ q.at = "sent" /\ q.route = GET(tab[t].answer.to)
                      /\ q.answer = NoAnswer
                      /\ q.cookies.session = jar'.session /\ q.cookies.flash = jar'.flash
      BY <1>5, ReceiveFacts
    <2>3. jar'.session \in {jar.session, None, tab[t].answer.session}
      BY <2>1, AppliedFacts
    <2>4. Issued(jar.session) /\ Issued(None) /\ Issued(tab[t].answer.session)
      BY <1>a, <1>b DEF Issued, TabSession
    <2>5. Issued(jar.session)'
      BY <2>1, <2>3, <2>4 DEF Issued
    <2>6. TabSession(t)'
      BY <1>f, <2>2, <2>5 DEF Issued
    <2> QED
      BY <1>d, <2>1, <2>2, <2>5, <2>6
  <1>6. ASSUME NEW t \in Tabs, Lose(t) PROVE SessionInv'
    <2>1. tab' = [tab EXCEPT ![t] = Idle] /\ sessions' = sessions /\ jar' = jar
      BY <1>6 DEF Lose
    <2>2. Idle \in Tab
      BY PathFacts, RouteFacts, RequestFacts DEF TypeInv, TypeOK
    <2>3. TabSession(t)' /\ Issued(jar.session)'
      BY <1>a, <1>f, <2>1, <2>2 DEF Issued
    <2> QED
      BY <1>d, <2>1, <2>2, <2>3
  <1>7. CASE Elsewhere
    <2>1. tab' = tab /\ jar' = jar /\ SessionsEnd
      BY <1>7, ElsewhereFacts
    <2>2. \A k \in Tokens : sessions[k] # "unused" => sessions'[k] \in {sessions[k], "ended"}
      BY <2>1 DEF SessionsEnd
    <2>3. \A x \in Tabs : TabSession(x)'
      BY <1>a, <2>1, <2>2, SessionKept
    <2>4. Issued(jar.session)'
      BY <1>a, <2>1, <2>2, PagesAssumption DEF Issued
    <2> QED
      BY <2>3, <2>4 DEF SessionInv
  <1>8. CASE UNCHANGED vars
    <2>1. tab' = tab /\ jar' = jar /\ sessions' = sessions
      BY <1>8 DEF vars
    <2>2. \A x \in Tabs : TabSession(x)'
      BY <1>a, <2>1, SessionKept
    <2> QED
      BY <1>a, <2>1, <2>2 DEF SessionInv, Issued
  <1> QED
    BY <1>1, <1>2, <1>3, <1>4, <1>5, <1>6, <1>7, <1>8, HandleKinds DEF Next

\* The first states.
LEMMA InitTypeSession ==
    ASSUME Init
    PROVE  TypeInv /\ SessionInv
  <1>1. MaxRedirects \in Nat /\ "ended" \notin Users /\ "unused" \notin Users /\ None \notin Tokens
        /\ "keep" \notin Tokens
    BY PagesAssumption
  <1>2. Idle \in Tab /\ Idle.at = "idle" /\ NoCookies \in Cookies /\ NoCookies.session = None
        /\ Idle.cookies.session = None /\ Idle.answer.session = "keep"
    <2>1. NoCookies \in Cookies /\ NoAnswer \in Answer /\ GET("Home") \in Routes
      BY PathFacts, RouteFacts DEF NoCookies, Cookies, NoAnswer, Answer
    <2> QED
      BY <2>1, RequestFacts DEF NoCookies, NoAnswer, Idle
  <1>3. TypeInv
    <2>1. \A t \in Tabs : TabShape(t)
      BY <1>2 DEF Init, TabShape
    <2>2. hops \in [Tabs -> 0..(MaxRedirects + 1)]
      BY <1>1 DEF Init
    <2> QED
      BY <1>1, <1>2, <2>1, <2>2 DEF Init, TypeInv, TypeOK, Live
  <1>4. SessionInv
    BY <1>1, <1>2 DEF Init, SessionInv, TabSession, Issued
  <1> QED
    BY <1>3, <1>4

\* Types and tokens, in every state.
LEMMA TypesAndTokens == Spec => [](TypeInv /\ SessionInv)
  <1>1. Init => TypeInv /\ SessionInv
    BY InitTypeSession
  <1>2. TypeInv /\ SessionInv /\ [Next]_vars => (TypeInv /\ SessionInv)'
    BY NextTypeInv, NextSession
  <1> QED
    BY <1>1, <1>2, PTL DEF Spec

\* The state keeps its shape, and a session its account: no handler deletes an account
\* and leaves one of its sessions, and none opens a session for an account that is gone.
THEOREM TypeCorrect == Spec => []TypeOK
  <1>1. TypeInv => TypeOK
    BY DEF TypeInv
  <1> QED
    BY <1>1, TypesAndTokens, PTL

\* The cookie of a live session is taken away only by a late answer to a request that
\* was sent with another one, or by the link of an email change: for any number of tabs
\* and whatever they send.
THEOREM LiveCookiesAreKept == Spec => SessionCookieKept
  <1> DEFINE Kept == LET k == jar.session IN
                     Live(k) /\ jar'.session # k =>
                        \E t \in Tabs :
                           /\ tab[t].at = "answered" /\ tab'[t] # tab[t]
                           /\ \/ tab[t].cookies.session # k
                              \/ tab[t].route = GET("ConfirmEmailChange")
  <1>1. ASSUME TypeInv, SessionInv, [Next]_vars PROVE [Kept]_vars
    <2>1. SUFFICES ASSUME Live(jar.session), jar'.session # jar.session
                   PROVE  \E t \in Tabs :
                             /\ tab[t].at = "answered" /\ tab'[t] # tab[t]
                             /\ \/ tab[t].cookies.session # jar.session
                                \/ tab[t].route = GET("ConfirmEmailChange")
      OBVIOUS
    <2>2. PICK t \in Tabs : Receive(t)
      <3>1. ~UNCHANGED vars
        BY <2>1 DEF vars
      <3>2. ~Elsewhere
        BY <2>1 DEF Elsewhere
      <3>3. ASSUME NEW t \in Tabs PROVE /\ \A r \in visit.begins[t] : ~Send(t, r)
                                        /\ ~loadSession(t) /\ ~Lose(t)
        BY <2>1 DEF Send, loadSession, Lose
      <3>4. ASSUME NEW t \in Tabs PROVE ~Handle(t)
        <4>1. \A a : ~Reads(t, a) /\ ~WritesTables(t, a)
          BY <2>1 DEF Reads, Answers, WritesTables
        <4> QED
          BY <1>1, <4>1, HandleKinds
      <3> QED
        BY <1>1, <3>1, <3>2, <3>3, <3>4 DEF Next
    <2>3. /\ tab[t].at = "answered" /\ tab[t].answer \in Answer
          /\ jar' = Applied(tab[t].answer)
      BY <1>1, <2>2, ReceiveFacts
    <2>4. tab[t].answer.session # "keep"
      BY <1>1, <2>1, <2>3, AppliedFacts
    <2>5. ~Live(tab[t].cookies.session) \/ tab[t].route = GET("ConfirmEmailChange")
      BY <1>1, <2>3, <2>4 DEF SessionInv, TabSession
    <2>6. tab'[t] # tab[t]
      <3>1. PICK q \in Tab : 
              /\ tab' = [tab EXCEPT ![t] = q]
              /\ IF tab[t].answer.to \notin Paths THEN q = Idle
                 ELSE /\ q.at = "sent" /\ q.route = GET(tab[t].answer.to)
                      /\ q.answer = NoAnswer
                      /\ q.cookies.session = jar'.session /\ q.cookies.flash = jar'.flash
        BY <1>1, <2>2, ReceiveFacts
      <3>2. tab'[t] = q
        BY <1>1, <3>1, TabStep
      <3>3. Idle.at = "idle"
        BY DEF Idle
      <3> QED
        BY <2>3, <3>1, <3>2, <3>3
    <2> QED
      BY <2>1, <2>3, <2>5, <2>6
  <1>2. TypeInv /\ SessionInv /\ [Next]_vars => [Kept]_vars
    BY <1>1
  <1> QED
    BY <1>2, TypesAndTokens, PTL DEF Spec, SessionCookieKept

-----------------------------------------------------------------------------
(* Navigations.                                                            *)

\* A tab that does not move while others change nothing, or are noted.
LEMMA QuietTab ==
    ASSUME NEW x \in Tabs, NavInv(x), tab'[x] = tab[x],
           \/ hops'[x] = 0 /\ ~owed'[x]
           \/ /\ hops'[x] = hops[x] /\ owed'[x] = owed[x]
              /\ UNCHANGED <<jar, users, sessions>>
    PROVE  NavInv(x)'
  <1>1. CASE hops'[x] = 0 /\ ~owed'[x]
    BY <1>1 DEF NavInv, TabHops, TabOwed
  <1>2. CASE hops'[x] = hops[x] /\ owed'[x] = owed[x] /\ UNCHANGED <<jar, users, sessions>>
    <2>1. \A k : /\ UserOf(k)' = UserOf(k) /\ VerifiedBy(k)' = VerifiedBy(k)
                 /\ Live(k)' = Live(k)
      BY <1>2 DEF UserOf, VerifiedBy, Live
    <2>2. \A p, k : Settles(p, k)' = Settles(p, k) /\ Lost(p, k)' = Lost(p, k)
      BY <2>1 DEF Settles, Lost
    <2>3. \A a : Applied(a)' = Applied(a)
      BY <1>2 DEF Applied
    <2>4. TabHops(x)'
      BY <1>2, <2>1, <2>2, <2>3 DEF NavInv, TabHops
    <2>5. TabOwed(x)'
      BY <1>2, <2>1, <2>2, <2>3 DEF NavInv, TabOwed
    <2> QED
      BY <2>4, <2>5 DEF NavInv
  <1> QED
    BY <1>1, <1>2

\* The gate lets a settled page through.
LEMMA SettledGate ==
    ASSUME NEW r \in Routes, r.method = "GET", NEW k, Settles(r.path, k), 
           UserOf(k) # None \/ ~Live(k)
    PROVE  Gate(r, UserOf(k), VerifiedBy(k)) = None
  <1>1. /\ {"Login", "ResetPassword", "Account", "VerifyEmail"} \cap PostOnlyPaths = {}
        /\ {"Login", "ResetPassword"} \cap (AuthPaths \cup VerifiedAuthPaths) = {}
        /\ "Account" \notin AnonymousPaths \cup AuthPaths
        /\ "VerifyEmail" \notin AnonymousPaths \cup VerifiedAuthPaths
    BY DEF PostOnlyPaths, AnonymousPaths, AuthPaths, VerifiedAuthPaths
  <1>2. ~Live(k) => UserOf(k) = None /\ ~VerifiedBy(k)
    BY DEF UserOf, VerifiedBy
  <1>3. CASE r.path \in {"Login", "ResetPassword"} /\ ~Live(k)
    BY <1>1, <1>2, <1>3 DEF Gate
  <1>4. CASE r.path = "Account" /\ VerifiedBy(k)
    BY <1>1, <1>4 DEF Gate
  <1>5. CASE r.path = "VerifyEmail" /\ Live(k) /\ ~VerifiedBy(k)
    BY <1>1, <1>5 DEF Gate
  <1> QED
    BY <1>3, <1>4, <1>5 DEF Settles

\* The user of a session cookie.
LEMMA OwnerFacts ==
    ASSUME TypeInv, NEW k \in Tokens \cup {None}
    PROVE  /\ ~Live(None)
           /\ Live(k) <=> UserOf(k) # None
           /\ VerifiedBy(k) => Live(k)
           /\ VerifiedBy(k) \in BOOLEAN
  BY PagesAssumption DEF UserOf, VerifiedBy, Live, TypeInv, TypeOK

\* A tab that has followed no redirect owes nothing, and its next step is one of many.
LEMMA FreshTab ==
    ASSUME NEW t \in Tabs, hops'[t] = 0, ~owed'[t],
           LET q == tab'[t] IN
           q.at = "answered" /\ q.answer.flash = "set" =>
              /\ q.answer.to \in MessagePaths
              /\ q.answer.to = "VerifyEmail" => q.route.path = "VerifyEmailResend"
    PROVE  NavInv(t)'
  BY DEF NavInv, TabHops, TabOwed

\* The gates.
LEMMA LoadNav ==
    ASSUME TypeInv, NEW t \in Tabs, NavInv(t), loadSession(t)
    PROVE  NavInv(t)'
  <1> DEFINE k == tab[t].cookies.session
             u == Finds(t)
             v == FindsVerified(t)
             g == Gate(tab[t].route, u, v)
  <1>1. /\ UNCHANGED <<visit, users, sessions, jar, hops, owed>>
        /\ tab[t].at = "sent" /\ tab[t].route \in Routes
        /\ u \in Users \cup {None} /\ v \in BOOLEAN
        /\ k \in Tokens \cup {None} /\ hops[t] \in Nat /\ hops[t] <= 2
    <2>1. k \in Tokens \cup {None} /\ hops[t] \in 0..(MaxRedirects + 1) /\ MaxRedirects \in Nat
      BY PagesAssumption DEF TypeInv, TypeOK, Tab, Cookies
    <2>2. hops[t] <= 2
      BY DEF NavInv, TabHops
    <2>3. hops[t] \in Nat
      BY <2>1
    <2> QED
      BY <2>1, <2>2, <2>3, LoadFacts
  <1>2. u = UserOf(k) /\ v = VerifiedBy(k)
    BY DEF Finds, FindsVerified
  <1>3. /\ g \in {None, "text", "Account", "VerifyEmail", "Login"}
        /\ g = "Account" => u # None /\ v
        /\ g = "VerifyEmail" => u # None /\ ~v
        /\ g = "Login" => u = None
        /\ g = "text" => tab[t].route.method = "POST" \/ tab[t].route.path \in PostOnlyPaths
    BY <1>1, GateFacts
  <1>4. /\ ~Live(None)
        /\ Live(k) <=> u # None
        /\ v => Live(k)
    BY <1>1, <1>2, OwnerFacts
  <1>5. hops[t] >= 1 => tab[t].route.method = "GET" /\ k = jar.session
    BY <1>1 DEF NavInv, TabHops
  <1>6. \A i, p : /\ UserOf(i)' = UserOf(i) /\ VerifiedBy(i)' = VerifiedBy(i)
                  /\ Live(i)' = Live(i)
                  /\ Settles(p, i)' = Settles(p, i) /\ Lost(p, i)' = Lost(p, i)
    BY <1>1 DEF UserOf, VerifiedBy, Live, Settles, Lost
  <1>7. owed[t] =>
           /\ hops[t] >= 1 /\ jar.flash /\ tab[t].cookies.flash
           /\ tab[t].route.path \in MessagePaths /\ ~Lost(tab[t].route.path, jar.session)
    BY <1>1 DEF NavInv, TabOwed
  <1>8. ASSUME NEW a \in Answer, tab' = [tab EXCEPT ![t] = Answered(t, a)],
               g # None, a.to = g, a.flash = "keep",
               a.session = IF k # None /\ u = None THEN "clear" ELSE "keep"
        PROVE  NavInv(t)'
    <2> DEFINE q == Answered(t, a)
               new == Applied(a).session
    <2>1. q \in Tab /\ q.at = "answered" /\ q.answer = a /\ q.cookies.flash = tab[t].cookies.flash
      BY AnsweredFacts
    <2>2. tab'[t] = q
      BY <1>8, <2>1, TabStep
    <2>3. new = IF a.session = "keep" THEN jar.session
                ELSE IF a.session = "clear" THEN None ELSE a.session
      BY AppliedFacts
    <2>4. Applied(a)' = Applied(a)
      BY <1>1 DEF Applied
    <2> HIDE DEF q, new, g, u, v, k
    <2>5. hops[t] >= 1 => /\ u = None => ~Live(new)
                          /\ u # None => new = k
      BY <1>4, <1>5, <1>8, <2>3
    <2>6. hops[t] >= 1 /\ g \in Paths => Settles(g, new)
      <3>1. "text" \notin Paths /\ None \notin Paths
        BY DEF None, Paths, AnonymousPaths, AuthPaths, VerifiedAuthPaths, OpenPaths
      <3>2. HAVE hops[t] >= 1 /\ g \in Paths
      <3>3. CASE g = "Login"
        BY <1>3, <2>5, <3>2, <3>3 DEF Settles
      <3>4. CASE g = "Account"
        BY <1>2, <1>3, <2>5, <3>2, <3>4 DEF Settles
      <3>5. CASE g = "VerifyEmail"
        BY <1>2, <1>3, <1>4, <2>5, <3>2, <3>5 DEF Settles
      <3> QED
        BY <1>3, <3>1, <3>2, <3>3, <3>4, <3>5
    <2>7. hops[t] # 2
      <3>1. SUFFICES ASSUME hops[t] = 2 PROVE FALSE
        OBVIOUS
      <3>2. Settles(tab[t].route.path, k) /\ tab[t].route.method = "GET"
        BY <1>1, <1>5, <3>1 DEF NavInv, TabHops, k
      <3>3. g = None
        BY <1>1, <1>2, <1>4, <3>2, SettledGate DEF g
      <3> QED
        BY <1>8, <3>3
    <2>8. TabHops(t)'
      BY <1>1, <1>6, <1>8, <2>1, <2>2, <2>4, <2>6, <2>7 DEF TabHops, new
    <2>9. owed[t] => g \in {"Login", "Account", "VerifyEmail"} /\ ~Lost(g, new)
      <3>1. HAVE owed[t]
      <3>2. g # "text"
        BY <1>3, <1>5, <1>7, <3>1, PathFacts
      <3>3. g = "VerifyEmail" => ~VerifiedBy(new)
        BY <1>2, <1>3, <1>7, <2>5, <3>1
      <3> QED
        BY <1>3, <1>8, <3>2, <3>3 DEF Lost
    <2>10. TabOwed(t)'
      BY <1>1, <1>6, <1>7, <1>8, <2>1, <2>2, <2>4, <2>9 DEF TabOwed, new
    <2> QED
      BY <2>8, <2>10 DEF NavInv
  <1>9. ASSUME NEW q \in Tab, tab' = [tab EXCEPT ![t] = q], q.at = "handler",
               q.user = u, q.verified = v, q.route = tab[t].route,
               q.cookies = tab[t].cookies
        PROVE  NavInv(t)'
    <2>1. tab'[t] = q
      BY <1>9, TabStep
    <2>2. q.cookies.session = k
      BY <1>9
    <2>3. hops[t] = 2 => Settles(tab[t].route.path, jar.session)
      BY <1>1 DEF NavInv, TabHops
    <2> HIDE DEF g, u, v, k
    <2>4. TabHops(t)'
      BY <1>1, <1>2, <1>5, <1>6, <1>9, <2>1, <2>2, <2>3 DEF TabHops
    <2>5. TabOwed(t)'
      BY <1>1, <1>6, <1>7, <1>9, <2>1 DEF TabOwed
    <2> QED
      BY <2>4, <2>5 DEF NavInv
  <1> QED
    BY <1>8, <1>9, LoadFacts

\* The handlers.
LEMMA HandleNav ==
    ASSUME TypeInv, SessionInv, NEW t \in Tabs, NavInv(t), NEW a, Reads(t, a) \/ WritesTables(t, a)
    PROVE  NavInv(t)'
  <1> DEFINE k == tab[t].cookies.session
             q == Answered(t, a)
             new == Applied(a).session
  <1>1. /\ a \in Answer /\ Reply(t, a) /\ tab' = [tab EXCEPT ![t] = q]
        /\ tab[t].at \in {"sent", "handler"} /\ jar' = jar
    BY DEF Reads, WritesTables, Reply, Answers, Respond
  <1>2. /\ hops[t] \in Nat /\ hops[t] <= 2 /\ (owed[t] => hops[t] >= 1)
    <2>1. hops[t] \in 0..(MaxRedirects + 1) /\ MaxRedirects \in Nat
      BY PagesAssumption DEF TypeInv, TypeOK
    <2>2. hops[t] <= 2 /\ (owed[t] => hops[t] >= 1)
      BY DEF NavInv, TabHops, TabOwed
    <2> QED
      BY <2>1, <2>2
  <1>3. hops'[t] = hops[t] /\ owed'[t] = owed[t]
    <2>1. owed[t] \in BOOLEAN
      BY DEF TypeInv, TypeOK
    <2> QED
      BY <2>1 DEF Reads, WritesTables, Answers, Disturb
  <1>4. /\ q \in Tab /\ q.at = "answered" /\ q.answer = a
        /\ q.cookies.flash = tab[t].cookies.flash
        /\ tab[t].route.path \in {"ConfirmEmailChange", "VerifyEmailResend"} =>
              q.route = tab[t].route
    BY <1>1, AnsweredFacts
  <1>5. tab'[t] = q
    BY <1>1, <1>4, TabStep
  <1> HIDE DEF q
  <1>6. a.flash = "set" =>
           /\ a.to \in MessagePaths
           /\ a.to = "VerifyEmail" => q.route.path = "VerifyEmailResend"
    BY <1>1, <1>4 DEF Reply
  <1>7. CASE hops[t] = 0
    <2>1. ~owed[t]
      BY <1>2, <1>7
    <2> QED
      BY <1>3, <1>4, <1>5, <1>6, <1>7, <2>1, FreshTab
  <1>8. CASE hops[t] >= 1
    <2>1. /\ tab[t].route \in Routes /\ tab[t].route.method = "GET"
          /\ k = jar.session /\ k \in Tokens \cup {None}
          /\ tab[t].at = "handler" => tab[t].user = UserOf(k) /\ tab[t].verified = VerifiedBy(k)
          /\ hops[t] = 2 => Settles(tab[t].route.path, k)
      BY <1>1, <1>8 DEF NavInv, TabHops, TypeInv, TypeOK, Tab, Cookies
    <2>2. /\ owed[t] => /\ tab[t].cookies.flash /\ tab[t].route.path \in MessagePaths
                        /\ ~Lost(tab[t].route.path, k)
      BY <1>1, <2>1 DEF NavInv, TabOwed
    <2>3. CASE a.to = "page"
      <3>1. a.to \notin Paths
        BY <2>3, PathFacts
      <3>2. TabHops(t)'
        BY <1>2, <1>3, <1>4, <1>5, <3>1 DEF TabHops
      <3>3. TabOwed(t)'
        BY <1>2, <1>3, <1>4, <1>5, <1>6, <1>8, <2>2, <2>3 DEF TabOwed
      <3> QED
        BY <3>2, <3>3 DEF NavInv
    <2>4. CASE a.to # "page"
      <3>1. Reads(t, a) /\ GetReply(t, a) /\ tab[t].at = "handler"
        BY <1>1, <2>1, <2>4 DEF WritesTables, Reply, GetReply
      <3>2. UNCHANGED <<users, sessions>> /\ a.session = Base(t).session
        BY <3>1 DEF Reads, Answers
      <3>3. \A i, p : Settles(p, i)' = Settles(p, i)
        BY <3>2 DEF Settles, Live, VerifiedBy
      <3>4. Applied(a)' = Applied(a)
        BY <1>1 DEF Applied
      <3>5. /\ ~Live(None) /\ (Live(k) <=> tab[t].user # None)
            /\ tab[t].verified = VerifiedBy(k) /\ (VerifiedBy(k) => Live(k))
        BY <2>1, <3>1, OwnerFacts
      <3>6. a.session = IF k # None /\ tab[t].user = None THEN "clear" ELSE "keep"
        BY <3>1, <3>2, BaseFacts
      <3>7. new = IF tab[t].user # None THEN k ELSE None
        <4>1. new = IF a.session = "keep" THEN jar.session
                    ELSE IF a.session = "clear" THEN None ELSE a.session
          BY <1>1, AppliedFacts
        <4> QED
          BY <2>1, <3>6, <4>1
      <3> HIDE DEF new, k
      <3>8. /\ tab[t].route.path \in {"AccountTwoFactorChallenge", "ResetPassword?token"} =>
                  tab[t].user = None
        <4>1. {"AccountTwoFactorChallenge", "ResetPassword?token"} \subseteq AnonymousPaths
          BY DEF AnonymousPaths
        <4> QED
          BY <3>1, <4>1, HandlerFacts
      <3>9. Settles(a.to, new)
        BY <2>4, <3>1, <3>5, <3>7, <3>8 DEF GetReply, Settles
      <3>10. hops[t] # 2
        BY <2>1, <2>4, <3>1, <3>5 DEF GetReply, Settles
      <3>11. ~owed[t]
        BY <2>2, <2>4, <3>1, <3>5 DEF GetReply, Lost, MessagePaths
      <3>12. TabHops(t)'
        BY <1>2, <1>3, <1>4, <1>5, <3>3, <3>4, <3>9, <3>10 DEF TabHops, new
      <3>13. TabOwed(t)'
        BY <1>3, <1>4, <1>5, <1>6, <3>11 DEF TabOwed
      <3> QED
        BY <3>12, <3>13 DEF NavInv
    <2> QED
      BY <2>3, <2>4
  <1> QED
    BY <1>2, <1>7, <1>8

\* An answer arrives in its tab.
LEMMA ReceiveNav ==
    ASSUME TypeInv, NEW t \in Tabs, NavInv(t), Receive(t)
    PROVE  NavInv(t)'
  <1>0. PICK a : a = tab[t].answer
    OBVIOUS
  <1>1. /\ UNCHANGED <<visit, users, sessions>>
        /\ tab[t].at = "answered" /\ a \in Answer
        /\ jar' = Applied(a) /\ jar' \in Cookies
    BY <1>0, ReceiveFacts
  <1>2. PICK q \in Tab :
           /\ tab' = [tab EXCEPT ![t] = q]
           /\ IF tab[t].answer.to \notin Paths THEN q = Idle
              ELSE /\ q.at = "sent" /\ q.route = GET(tab[t].answer.to)
                   /\ q.answer = NoAnswer
                   /\ q.cookies.session = jar'.session /\ q.cookies.flash = jar'.flash
    BY ReceiveFacts
  <1>3. tab'[t] = q
    BY <1>2, TabStep
  <1>4. hops'[t] = IF a.to \notin Paths THEN 0
                   ELSE IF hops[t] <= MaxRedirects THEN hops[t] + 1 ELSE hops[t]
    BY <1>0 DEF Receive, Redirects
  <1>5. owed'[t] => (owed[t] \/ Owes(t, jar')) /\ ~Shows(t)
    BY <1>0, <1>1 DEF Receive
  <1>6. hops[t] \in Nat /\ hops[t] <= 2 /\ MaxRedirects \in Nat
    <2>1. hops[t] \in 0..(MaxRedirects + 1) /\ MaxRedirects \in Nat
      BY PagesAssumption DEF TypeInv, TypeOK
    <2>2. hops[t] <= 2
      BY DEF NavInv, TabHops
    <2> QED
      BY <2>1, <2>2
  <1>7. a.flash = "set" =>
           /\ a.to \in MessagePaths
           /\ a.to = "VerifyEmail" => tab[t].route.path = "VerifyEmailResend"
    BY <1>0, <1>1 DEF NavInv, TabOwed
  <1>8. owed[t] => \/ Shows(t)
                   \/ /\ a.to \in {"Login", "Account", "VerifyEmail"}
                      /\ a.flash = "keep" /\ jar.flash /\ ~Lost(a.to, jar'.session)
    BY <1>0, <1>1 DEF NavInv, TabOwed, Shows
  <1>9. CASE a.to \notin Paths
    <2>1. a.flash # "set" /\ a.to \notin {"Login", "Account", "VerifyEmail"}
      BY <1>7, <1>9, PathFacts DEF MessagePaths
    <2>2. ~owed'[t]
      BY <1>0, <1>5, <1>8, <2>1 DEF Owes
    <2>3. tab'[t] = Idle /\ Idle.at = "idle"
      BY <1>0, <1>2, <1>3, <1>9 DEF Idle
    <2> QED
      BY <1>4, <1>9, <2>2, <2>3, FreshTab
  <1>10. CASE a.to \in Paths
    <2>1. /\ q.at = "sent" /\ q.route = GET(a.to)
          /\ q.cookies.session = jar'.session /\ q.cookies.flash = jar'.flash
      BY <1>0, <1>2, <1>10
    <2>2. GET(a.to).method = "GET" /\ GET(a.to).path = a.to
      BY DEF GET
    <2>3. hops[t] # 2
      BY <1>0, <1>1, <1>10 DEF NavInv, TabHops
    <2>4. hops'[t] \in {1, 2} /\ (hops'[t] = 2 => hops[t] = 1)
      BY <1>4, <1>6, <1>10, <2>3
    <2>5. hops'[t] = 2 => Settles(a.to, jar'.session)
      BY <1>0, <1>1, <1>10, <2>4 DEF NavInv, TabHops
    <2>6. \A i, p : Settles(p, i)' = Settles(p, i) /\ Lost(p, i)' = Lost(p, i)
      BY <1>1 DEF Settles, Lost, Live, VerifiedBy
    <2>7. TabHops(t)'
      BY <1>3, <2>1, <2>2, <2>4, <2>5, <2>6 DEF TabHops
    <2>8. jar'.flash = IF a.flash = "keep" THEN jar.flash ELSE a.flash = "set"
      BY <1>1, AppliedFacts
    <2>9. owed'[t] => jar'.flash /\ a.to \in MessagePaths /\ ~Lost(a.to, jar'.session)
      <3>1. HAVE owed'[t]
      <3>2. CASE owed[t]
        BY <1>5, <1>8, <2>8, <3>1, <3>2 DEF MessagePaths
      <3>3. CASE Owes(t, jar')
        <4>1. a.flash = "set"
          BY <1>0, <3>3 DEF Owes
        <4>2. a.to = "VerifyEmail" => ~VerifiedBy(jar'.session)
          BY <1>7, <3>3, <4>1 DEF Owes, VerifiedBy
        <4> QED
          BY <1>7, <2>8, <4>1, <4>2 DEF Lost
      <3> QED
        BY <1>5, <3>1, <3>2, <3>3
    <2>10. TabOwed(t)'
      BY <1>3, <2>1, <2>2, <2>4, <2>6, <2>9 DEF TabOwed
    <2> QED
      BY <2>7, <2>10 DEF NavInv
  <1> QED
    BY <1>9, <1>10

\* Every step keeps what is said of the navigations.
LEMMA NextNav ==
    ASSUME TypeInv, SessionInv, \A x \in Tabs : NavInv(x), [Next]_vars
    PROVE  (\A x \in Tabs : NavInv(x))'
  <1>a. tab \in [Tabs -> Tab] /\ owed \in [Tabs -> BOOLEAN] /\ hops \in [Tabs -> 0..(MaxRedirects + 1)]
    BY DEF TypeInv, TypeOK
  \* A step of one tab which the others do not notice, or which is noted.
  <1>b. ASSUME NEW t \in Tabs, NavInv(t)', NEW q \in Tab, tab' = [tab EXCEPT ![t] = q],
               \A x \in Tabs \ {t} :
                  \/ hops'[x] = 0 /\ ~owed'[x]
                  \/ /\ hops'[x] = hops[x] /\ owed'[x] = owed[x]
                     /\ UNCHANGED <<jar, users, sessions>>
        PROVE  (\A x \in Tabs : NavInv(x))'
    <2>1. \A x \in Tabs \ {t} : tab'[x] = tab[x]
      BY <1>b, TabStep
    <2>2. \A x \in Tabs \ {t} : NavInv(x)'
      BY <1>b, <2>1, QuietTab
    <2> QED
      BY <1>b, <2>2
  <1>1. ASSUME NEW t \in Tabs, NEW r \in visit.begins[t], Send(t, r)
        PROVE  (\A x \in Tabs : NavInv(x))'
    <2>1. PICK q \in Tab :
              /\ tab' = [tab EXCEPT ![t] = q] /\ tab[t] = Idle
              /\ q.at = "sent" /\ q.route = r /\ r \in Routes /\ q.answer = NoAnswer
              /\ q.cookies.session = jar.session /\ q.cookies.flash = jar.flash
              /\ UNCHANGED <<visit, users, sessions, jar, hops, owed>>
      BY <1>1, SendFacts
    <2>2. hops[t] = 0
      BY <2>1 DEF NavInv, TabHops, Idle
    <2>3. ~owed[t]
      BY <2>2 DEF NavInv, TabOwed
    <2>4. tab'[t] = q
      BY <2>1, TabStep
    <2>5. NavInv(t)'
      BY <2>1, <2>2, <2>3, <2>4, FreshTab
    <2> QED
      BY <1>b, <2>1, <2>5
  <1>2. ASSUME NEW t \in Tabs, loadSession(t) PROVE (\A x \in Tabs : NavInv(x))'
    <2>1. NavInv(t)' /\ UNCHANGED <<users, sessions, jar, hops, owed>>
      BY <1>2, LoadNav DEF loadSession
    <2>2. PICK q \in Tab : tab' = [tab EXCEPT ![t] = q]
      <3>1. \/ \E a \in Answer : tab' = [tab EXCEPT ![t] = Answered(t, a)]
            \/ \E q \in Tab : tab' = [tab EXCEPT ![t] = q]
        BY <1>2, LoadFacts
      <3>2. \A a \in Answer : Answered(t, a) \in Tab
        BY AnsweredFacts
      <3> QED
        BY <3>1, <3>2
    <2> QED
      BY <1>b, <2>1, <2>2
  <1>3. ASSUME NEW t \in Tabs, Handle(t) PROVE (\A x \in Tabs : NavInv(x))'
    <2>1. PICK a : Reads(t, a) \/ WritesTables(t, a)
      BY <1>3, HandleKinds
    <2>2. a \in Answer /\ tab' = [tab EXCEPT ![t] = Answered(t, a)] /\ Answered(t, a) \in Tab
      BY <2>1, AnsweredFacts DEF Reads, WritesTables, Reply, Answers, Respond
    <2>3. NavInv(t)'
      BY <2>1, HandleNav
    <2>4. \A x \in Tabs \ {t} :
             \/ hops'[x] = 0 /\ ~owed'[x]
             \/ /\ hops'[x] = hops[x] /\ owed'[x] = owed[x]
                /\ UNCHANGED <<jar, users, sessions>>
      <3>1. CASE Reads(t, a)
        BY <3>1 DEF Reads, Answers
      <3>2. CASE WritesTables(t, a)
        BY <3>2 DEF WritesTables, Disturb
      <3> QED
        BY <2>1, <3>1, <3>2
    <2> QED
      BY <1>b, <2>2, <2>3, <2>4
  <1>4. ASSUME NEW t \in Tabs, Receive(t) PROVE (\A x \in Tabs : NavInv(x))'
    <2>1. PICK q \in Tab :
           /\ tab' = [tab EXCEPT ![t] = q]
           /\ IF tab[t].answer.to \notin Paths THEN q = Idle
              ELSE /\ q.at = "sent" /\ q.route = GET(tab[t].answer.to)
                   /\ q.answer = NoAnswer
                   /\ q.cookies.session = jar'.session /\ q.cookies.flash = jar'.flash
      BY <1>4, ReceiveFacts
    <2>2. NavInv(t)'
      BY <1>4, ReceiveNav
    <2>3. UNCHANGED <<users, sessions>>
      BY <1>4 DEF Receive
    <2>4. \A x \in Tabs \ {t} :
             /\ jar' = jar => hops'[x] = hops[x] /\ owed'[x] = owed[x]
             /\ jar' # jar => hops'[x] = 0 /\ ~owed'[x]
      <3> DEFINE others == IF jar' = jar THEN {} ELSE Tabs \ {t}
      <3>1. \A x \in Tabs \ {t} : hops'[x] = IF x \in others THEN 0 ELSE hops[x]
        BY <1>4, ReceiveFacts
      <3>2. \A x \in Tabs \ {t} : owed'[x] = (owed[x] /\ x \notin others)
        BY <1>4, ReceiveFacts
      <3>3. \A x \in Tabs : owed[x] \in BOOLEAN
        BY <1>a
      <3> QED
        BY <3>1, <3>2, <3>3
    <2> QED
      BY <1>b, <2>1, <2>2, <2>3, <2>4
  <1>5. ASSUME NEW t \in Tabs, Lose(t) PROVE (\A x \in Tabs : NavInv(x))'
    <2>1. /\ tab' = [tab EXCEPT ![t] = Idle] /\ UNCHANGED <<users, sessions, jar>>
          /\ hops' = [hops EXCEPT ![t] = 0] /\ owed' = [owed EXCEPT ![t] = FALSE]
      BY <1>5 DEF Lose
    <2>2. Idle \in Tab /\ Idle.at = "idle"
      BY PathFacts, RouteFacts, RequestFacts DEF TypeInv, TypeOK
    <2>3. tab'[t] = Idle
      BY <2>1, <2>2, TabStep
    <2>4. hops'[t] = 0 /\ ~owed'[t]
      BY <1>a, <2>1
    <2>5. NavInv(t)'
      BY <2>2, <2>3, <2>4, FreshTab
    <2>6. \A x \in Tabs \ {t} : hops'[x] = hops[x] /\ owed'[x] = owed[x]
      BY <1>a, <2>1
    <2> QED
      BY <1>b, <2>1, <2>2, <2>5, <2>6
  <1>6. CASE Elsewhere
    <2>1. tab' = tab /\ Disturb(Tabs)
      BY <1>6, ElsewhereFacts
    <2>2. \A x \in Tabs : hops'[x] = 0 /\ ~owed'[x]
      BY <2>1 DEF Disturb
    <2> QED
      BY <2>1, <2>2, QuietTab
  <1>7. CASE UNCHANGED vars
    BY <1>7, QuietTab DEF vars
  <1> QED
    BY <1>1, <1>2, <1>3, <1>4, <1>5, <1>6, <1>7 DEF Next

\* What is said of the navigations holds in every state.
LEMMA Navigations == Spec => [](\A t \in Tabs : NavInv(t))
  <1>1. Init => \A t \in Tabs : NavInv(t)
    BY DEF Init, NavInv, TabHops, TabOwed, Idle
  <1>2. TypeInv /\ SessionInv /\ (\A t \in Tabs : NavInv(t)) /\ [Next]_vars =>
           (\A t \in Tabs : NavInv(t))'
    BY NextNav
  <1> QED
    BY <1>1, <1>2, TypesAndTokens, PTL DEF Spec

\* Unless somebody interferes, a navigation comes to a page after at most two redirects,
\* whatever the visitor asks for, whatever the parameter next says and whoever's session
\* the cookie names: the gates, the page for the unverified and the targets of the
\* handlers send nobody in a circle.  A limit of two or more is never passed.
THEOREM RedirectsDoEnd ==
    ASSUME MaxRedirects >= 2
    PROVE  Spec => []RedirectsEnd
  <1>1. MaxRedirects \in Nat
    BY PagesAssumption
  <1>2. TypeInv /\ (\A t \in Tabs : NavInv(t)) => RedirectsEnd
    <2>1. SUFFICES ASSUME TypeInv, NEW t \in Tabs, NavInv(t) PROVE hops[t] <= MaxRedirects
      BY DEF RedirectsEnd
    <2>2. hops[t] <= 2 /\ hops[t] \in 0..(MaxRedirects + 1)
      BY <2>1 DEF NavInv, TabHops, TypeInv, TypeOK
    <2> QED
      BY <1>1, <2>2
  <1> QED
    BY <1>2, Navigations, TypesAndTokens, PTL

\* The message a handler sets is shown on the page where its redirects end, for any
\* number of tabs and whatever they send; excepted is that of resendVerification to a
\* user who is verified (Owes).
THEOREM MessagesAreAllShown == Spec => []MessagesAreShown
  <1>1. (\A t \in Tabs : NavInv(t)) => MessagesAreShown
    <2>1. SUFFICES ASSUME NEW t \in Tabs, NavInv(t), tab[t] = Idle PROVE ~owed[t]
      BY DEF MessagesAreShown
    <2>2. hops[t] = 0
      BY <2>1 DEF NavInv, TabHops, Idle
    <2> QED
      BY <2>1, <2>2 DEF NavInv, TabOwed
  <1> QED
    BY <1>1, Navigations, PTL

=============================================================================
