---------------------------- MODULE SignInProof -----------------------------
(***************************************************************************)
(* Proofs about SignIn, for any users, tabs, browsers and passkeys, any    *)
(* lifetime of the pending cookie and any bounds.                          *)
(***************************************************************************)
EXTENDS SignIn, TLAPS

-----------------------------------------------------------------------------
(* Types.  TypeOK is not inductive: a request writes what it has read, so  *)
(* at the points where it writes, it must have read it.                    *)

\* What a tab has in hand at each point of its request.
GoodTab(t) ==
    /\ t \in Tab
    /\ t.pc \in {"totp", "verify", "session", "create", "insert", "update"} =>
          t.user_id \in Users
    /\ t.pc \in {"insert", "signed", "update"} => t.key \in Passkeys

\* A pending cookie names a user.
GoodJar(j) == j \in Jar /\ (j.totp_pending # NoPending => j.totp_pending.user_id \in Users)

\* A row of the table sessions names a user.
GoodSession(s) == s \in Session /\ (s # NoSession => s.user_id \in Users)

\* A row of the table webauthn_credentials names a user.
GoodCredential(c) == c \in Credential /\ (c.user_id = None => c = NoCredential)

\* Only a credential that was made for a user signs.
SignersHaveHandles ==
    \A r \in Tabs : tab[r].pc = "signed" => keys[tab[r].key].handle \in Users

TypeInv ==
    /\ site \in Sites
    /\ totp \in [Users -> BOOLEAN]
    /\ credentials \in [Passkeys -> Credential]
    /\ \A c \in Passkeys : GoodCredential(credentials[c])
    /\ sessions \in [1..MaxSessions -> Session]
    /\ \A s \in 1..MaxSessions : GoodSession(sessions[s])
    /\ jar \in [Browsers -> Jar]
    /\ \A b \in Browsers : GoodJar(jar[b])
    /\ keys \in [Passkeys -> Key]
    /\ tab \in [Tabs -> Tab]
    /\ \A r \in Tabs : GoodTab(tab[r])
    /\ SignersHaveHandles

\* The types follow.
LEMMA TypeInvIsTypeOK == TypeInv => TypeOK
  BY DEF TypeInv, TypeOK, GoodCredential

\* What there is in the beginning has its type.
LEMMA EmptyTypes ==
    /\ 0 \in Ages /\ NoFacts \in SignInFacts
    /\ GoodTab(NoTab) /\ GoodJar(NoCookies) /\ GoodSession(NoSession)
    /\ NoPending \in Pending /\ NoCeremony \in Ceremony /\ GoodCredential(NoCredential)
  <1>1. 0 \in Ages /\ 0 \in 0..MaxCount /\ 0 \in 0..MaxSessions
    BY SignInAssumption DEF Ages
  <1>2. NoFacts \in SignInFacts
    BY <1>1 DEF NoFacts, SignInFacts
  <1>3. NoPending \in Pending /\ NoCeremony \in Ceremony
    BY <1>1, <1>2 DEF NoPending, Pending, NoCeremony, Ceremony
  <1>4. GoodTab(NoTab)
    BY <1>1, <1>2 DEF NoTab, Tab, GoodTab
  <1>5. GoodJar(NoCookies)
    BY <1>1, <1>3 DEF NoCookies, Jar, GoodJar
  <1>6. GoodSession(NoSession)
    BY <1>2 DEF NoSession, Session, GoodSession
  <1>7. GoodCredential(NoCredential)
    BY <1>1 DEF NoCredential, Credential, GoodCredential
  <1> QED
    BY <1>1, <1>2, <1>3, <1>4, <1>5, <1>6, <1>7

\* A browser has every tab.
LEMMA TabsHaveBrowsers ==
    ASSUME TypeInv, NEW r \in Tabs
    PROVE  site.browser[r] \in Browsers /\ GoodJar(Cookies(r))
  BY SignInAssumption DEF TypeInv, Cookies

\* Nobody has signed in.
LEMMA InitTypeInv == Init => TypeInv
  <1> SUFFICES ASSUME Init PROVE TypeInv
    OBVIOUS
  <1>1. \A c \in Passkeys : [handle |-> None, count |-> 0] \in Key
    BY SignInAssumption DEF Key
  <1>2. NoTab \in Tab /\ NoCookies \in Jar /\ NoSession \in Session /\ NoCredential \in Credential
    BY EmptyTypes DEF GoodTab, GoodJar, GoodSession, GoodCredential
  <1>3. SignersHaveHandles
    BY DEF Init, SignersHaveHandles, NoTab
  <1> QED
    BY <1>1, <1>2, <1>3, EmptyTypes DEF Init, TypeInv

-----------------------------------------------------------------------------
(* The steps.  Nearly every one changes one tab, the cookies of its        *)
(* browser, or both.                                                       *)

\* A tab that goes on with what its request has in hand keeps the others.
LEMMA OneTabMoves ==
    ASSUME TypeInv, NEW r \in Tabs, NEW t, GoodTab(t), tab' = [tab EXCEPT ![r] = t]
    PROVE  tab' \in [Tabs -> Tab] /\ \A q \in Tabs : GoodTab(tab'[q])
  BY DEF TypeInv, GoodTab

\* An answer changes the cookies of its browser.
LEMMA OneJarChanges ==
    ASSUME TypeInv, NEW r \in Tabs, NEW c, GoodJar(c), SetCookies(r, c)
    PROVE  jar' \in [Browsers -> Jar] /\ \A b \in Browsers : GoodJar(jar'[b])
  <1>1. c \in Jar
    BY DEF GoodJar
  <1> QED
    BY <1>1, TabsHaveBrowsers DEF TypeInv, SetCookies

\* A request that ends leaves its tab free.
LEMMA EndKeepsTabs ==
    ASSUME TypeInv, NEW r \in Tabs, End(r)
    PROVE  tab' \in [Tabs -> Tab] /\ \A q \in Tabs : GoodTab(tab'[q])
  BY EmptyTypes, OneTabMoves DEF End

\* Only tabs that have signed need a handle, and handles stay.
LEMMA SignersStay ==
    ASSUME TypeInv, keys' = keys,
           \A r \in Tabs : \/ tab'[r].pc # "signed"
                           \/ tab'[r].pc = tab[r].pc /\ tab'[r].key = tab[r].key
    PROVE  SignersHaveHandles'
  BY DEF TypeInv, SignersHaveHandles

\* A sign-in with a password.
LEMMA LoginType ==
    ASSUME TypeInv, NEW r \in Tabs, NEW u \in Users, Login(r, u)
    PROVE  TypeInv'
  <1> DEFINE f == [NoFacts EXCEPT !.via = "password", !.on = totp[u]]
             t == [NoTab EXCEPT !.pc = "totp", !.user_id = u, !.facts = f]
  <1>1. f \in SignInFacts
    BY EmptyTypes DEF TypeInv, SignInFacts, Ways
  <1>2. GoodTab(t)
    <2> HIDE DEF f
    <2> QED
      BY <1>1, EmptyTypes DEF GoodTab, Tab, NoTab
  <1>3. tab' = [tab EXCEPT ![r] = t]
    BY DEF Login
  <1>4. t.pc = "totp"
    BY DEF NoTab
  <1> HIDE DEF t
  <1>5. tab' \in [Tabs -> Tab] /\ \A q \in Tabs : GoodTab(tab'[q])
    BY <1>2, <1>3, OneTabMoves
  <1>6. SignersHaveHandles'
    BY <1>3, <1>4, SignersStay DEF TypeInv, Login
  <1> QED
    BY <1>5, <1>6 DEF TypeInv, Login

\* The pending cookie, or on to the session.
LEMMA CheckTOTPType ==
    ASSUME TypeInv, NEW r \in Tabs, CheckTOTP(r)
    PROVE  TypeInv'
  <1>a. GoodTab(tab[r]) /\ GoodJar(Cookies(r)) /\ tab[r].pc = "totp"
    BY TabsHaveBrowsers DEF TypeInv, CheckTOTP
  <1>1. CASE /\ setTOTPPendingCookie(r)
             /\ End(r)
    <2> DEFINE f == [NoFacts EXCEPT !.replaced = tab[r].facts.replaced,
                                    !.late = tab[r].facts.replaced]
               p == [user_id |-> tab[r].user_id, age |-> 0, facts |-> f]
               c == [Cookies(r) EXCEPT !.totp_pending = p]
    <2>1. f \in SignInFacts
      BY <1>a, EmptyTypes DEF GoodTab, Tab, SignInFacts
    <2>2. p \in Pending /\ p.user_id \in Users
      <3> HIDE DEF f
      <3> QED
        BY <1>a, <2>1, EmptyTypes DEF Pending, GoodTab, Tab
    <2>3. GoodJar(c)
      <3> HIDE DEF p
      <3> QED
        BY <1>a, <2>2 DEF GoodJar, Jar
    <2>4. SetCookies(r, c)
      BY <1>1 DEF setTOTPPendingCookie
    <2> HIDE DEF c
    <2>5. jar' \in [Browsers -> Jar] /\ \A b \in Browsers : GoodJar(jar'[b])
      BY <2>3, <2>4, OneJarChanges
    <2>6. tab' \in [Tabs -> Tab] /\ \A q \in Tabs : GoodTab(tab'[q])
      BY <1>1, EndKeepsTabs
    <2>7. SignersHaveHandles'
      BY <1>1, SignersStay DEF TypeInv, CheckTOTP, End, NoTab
    <2> QED
      BY <2>5, <2>6, <2>7 DEF TypeInv, CheckTOTP
  <1>2. CASE tab' = [tab EXCEPT ![r].pc = "session"] /\ UNCHANGED jar
    <2> DEFINE t == [tab[r] EXCEPT !.pc = "session"]
    <2>1. GoodTab(t)
      BY <1>a DEF GoodTab, Tab
    <2>2. tab' = [tab EXCEPT ![r] = t]
      BY <1>2 DEF TypeInv
    <2>3. t.pc = "session"
      BY <1>a DEF GoodTab, Tab
    <2> HIDE DEF t
    <2>4. tab' \in [Tabs -> Tab] /\ \A q \in Tabs : GoodTab(tab'[q])
      BY <2>1, <2>2, OneTabMoves
    <2>5. SignersHaveHandles'
      BY <2>2, <2>3, SignersStay DEF TypeInv, CheckTOTP
    <2> QED
      BY <1>2, <2>4, <2>5 DEF TypeInv, CheckTOTP
  <1> QED
    BY <1>1, <1>2 DEF CheckTOTP

\* The challenge is asked for.
LEMMA ChallengeType ==
    ASSUME TypeInv, NEW r \in Tabs, Challenge(r)
    PROVE  TypeInv'
  <1> DEFINE p == Cookies(r).totp_pending
             f == [p.facts EXCEPT !.via = "challenge", !.on = TRUE]
             t == [NoTab EXCEPT !.pc = "verify", !.user_id = p.user_id, !.facts = f]
  <1>1. p \in Pending /\ p.user_id \in Users
    BY TabsHaveBrowsers DEF Challenge, totpPendingLoginFromCookie, GoodJar, Jar
  <1>2. f \in SignInFacts
    <2> HIDE DEF p
    <2> QED
      BY <1>1 DEF Pending, SignInFacts, Ways
  <1>3. GoodTab(t)
    <2> HIDE DEF f, p
    <2> QED
      BY <1>1, <1>2, EmptyTypes DEF GoodTab, Tab, NoTab
  <1>4. tab' = [tab EXCEPT ![r] = t]
    BY DEF Challenge
  <1>5. t.pc = "verify"
    BY DEF NoTab
  <1> HIDE DEF t
  <1>6. tab' \in [Tabs -> Tab] /\ \A q \in Tabs : GoodTab(tab'[q])
    BY <1>3, <1>4, OneTabMoves
  <1>7. SignersHaveHandles'
    BY <1>4, <1>5, SignersStay DEF TypeInv, Challenge
  <1> QED
    BY <1>6, <1>7 DEF TypeInv, Challenge

\* The code is good.
LEMMA VerifyCodeType ==
    ASSUME TypeInv, NEW r \in Tabs, VerifyCode(r)
    PROVE  TypeInv'
  <1> DEFINE t == [tab[r] EXCEPT !.pc = "session"]
  <1>1. GoodTab(t) /\ t.pc = "session"
    BY DEF TypeInv, VerifyCode, GoodTab, Tab
  <1>2. tab' = [tab EXCEPT ![r] = t]
    BY DEF TypeInv, VerifyCode
  <1> HIDE DEF t
  <1>3. tab' \in [Tabs -> Tab] /\ \A q \in Tabs : GoodTab(tab'[q])
    BY <1>1, <1>2, OneTabMoves
  <1>4. SignersHaveHandles'
    BY <1>1, <1>2, SignersStay DEF TypeInv, VerifyCode
  <1> QED
    BY <1>3, <1>4 DEF TypeInv, VerifyCode

\* The token of a new session is that of no row.
LEMMA NewSessionIsFree ==
    ASSUME \E s \in 1..MaxSessions : FreshSession(s)
    PROVE  NewSession \in 1..MaxSessions /\ FreshSession(NewSession)
  BY DEF NewSession

\* The answer of a sign-in leaves cookies.
LEMMA SessionCookiesType ==
    ASSUME TypeInv, NEW r \in Tabs, NEW s \in 1..MaxSessions
    PROVE  GoodJar(SessionCookies(r, s))
  <1>1. GoodJar(Cookies(r)) /\ s \in 0..MaxSessions
    BY TabsHaveBrowsers, SignInAssumption
  <1> QED
    BY <1>1, EmptyTypes DEF SessionCookies, GoodJar, Jar

\* A session is created.
LEMMA CreateSessionType ==
    ASSUME TypeInv, NEW r \in Tabs, CreateSession(r)
    PROVE  TypeInv'
  <1> DEFINE n == [user_id |-> tab[r].user_id, facts |-> tab[r].facts]
  <1>1. NewSession \in 1..MaxSessions
    BY NewSessionIsFree DEF CreateSession
  <1>2. n \in Session /\ GoodSession(n)
    BY DEF TypeInv, CreateSession, GoodTab, Tab, GoodSession, Session
  <1>3. sessions' = [sessions EXCEPT ![NewSession] = n]
    BY DEF CreateSession
  <1> HIDE DEF n
  <1>4. /\ sessions' \in [1..MaxSessions -> Session]
        /\ \A s \in 1..MaxSessions : GoodSession(sessions'[s])
    BY <1>1, <1>2, <1>3 DEF TypeInv
  <1>5. PICK c \in {Cookies(r), SessionCookies(r, NewSession)} : SetCookies(r, c)
    BY DEF CreateSession
  <1>6. GoodJar(c)
    BY <1>1, TabsHaveBrowsers, SessionCookiesType
  <1>7. jar' \in [Browsers -> Jar] /\ \A b \in Browsers : GoodJar(jar'[b])
    BY <1>5, <1>6, OneJarChanges
  <1>8. tab' \in [Tabs -> Tab] /\ \A q \in Tabs : GoodTab(tab'[q])
    BY EndKeepsTabs DEF CreateSession
  <1>9. SignersHaveHandles'
    BY SignersStay DEF TypeInv, CreateSession, End, NoTab
  <1> QED
    BY <1>4, <1>7, <1>8, <1>9 DEF TypeInv, CreateSession

\* A session is ended.
LEMMA LogoutType ==
    ASSUME TypeInv, NEW b \in Browsers, Logout(b)
    PROVE  TypeInv'
  <1>1. /\ sessions' \in [1..MaxSessions -> Session]
        /\ \A s \in 1..MaxSessions : GoodSession(sessions'[s])
    BY EmptyTypes DEF TypeInv, Logout, GoodSession
  <1> DEFINE c == [jar[b] EXCEPT !.session = 0]
  <1>a. jar[b] \in Jar /\ GoodJar(jar[b]) /\ 0 \in 0..MaxSessions
    BY SignInAssumption DEF TypeInv
  <1>b. jar' = [jar EXCEPT ![b] = c]
    BY DEF TypeInv, Logout
  <1>2. c \in Jar /\ GoodJar(c)
    BY <1>a DEF GoodJar, Jar
  <1> HIDE DEF c
  <1>3. jar' \in [Browsers -> Jar] /\ \A a \in Browsers : GoodJar(jar'[a])
    BY <1>b, <1>2 DEF TypeInv
  <1>4. SignersHaveHandles'
    BY SignersStay DEF TypeInv, Logout
  <1> QED
    BY <1>1, <1>3, <1>4 DEF TypeInv, Logout

\* Who is signed in is a user.
LEMMA CurrentUserIsUser ==
    ASSUME TypeInv, NEW r \in Tabs, SignedIn(Cookies(r))
    PROVE  CurrentUser(r) \in Users
  <1>1. Cookies(r).session \in 1..MaxSessions
    BY TabsHaveBrowsers, SignInAssumption DEF SignedIn, GoodJar, Jar
  <1> QED
    BY <1>1 DEF TypeInv, SignedIn, CurrentUser, GoodSession

\* Setting or clearing the cookie of a ceremony keeps the others.
LEMMA CeremonyCookieType ==
    ASSUME TypeInv, NEW r \in Tabs, NEW m \in Ceremony
    PROVE  /\ GoodJar([Cookies(r) EXCEPT !.passkey_register = m])
           /\ GoodJar([Cookies(r) EXCEPT !.passkey_login = m])
  <1>1. GoodJar(Cookies(r))
    BY TabsHaveBrowsers
  <1> QED
    BY <1>1 DEF GoodJar, Jar

\* A registration begins.
LEMMA RegisterBeginType ==
    ASSUME TypeInv, NEW r \in Tabs, passkeyRegisterBegin(r)
    PROVE  TypeInv'
  <1> DEFINE u == CurrentUser(r)
             m == [user_id |-> u, challenge |-> r]
             t == [NoTab EXCEPT !.pc = "create", !.user_id = u]
  <1>1. u \in Users
    BY CurrentUserIsUser DEF passkeyRegisterBegin
  <1>2. tab' = [tab EXCEPT ![r] = t] /\ SetCookies(r, [Cookies(r) EXCEPT !.passkey_register = m])
    BY DEF passkeyRegisterBegin
  <1> HIDE DEF u
  <1>3. m \in Ceremony /\ GoodTab(t) /\ t.pc = "create"
    BY <1>1, EmptyTypes DEF Ceremony, GoodTab, Tab, NoTab
  <1> HIDE DEF m, t
  <1>4. tab' \in [Tabs -> Tab] /\ \A q \in Tabs : GoodTab(tab'[q])
    BY <1>2, <1>3, OneTabMoves
  <1>5. jar' \in [Browsers -> Jar] /\ \A b \in Browsers : GoodJar(jar'[b])
    BY <1>2, <1>3, CeremonyCookieType, OneJarChanges
  <1>6. SignersHaveHandles'
    BY <1>2, <1>3, SignersStay DEF TypeInv, passkeyRegisterBegin
  <1> QED
    BY <1>4, <1>5, <1>6 DEF TypeInv, passkeyRegisterBegin

\* An authenticator makes a credential.
LEMMA MakeCredentialType ==
    ASSUME TypeInv, NEW r \in Tabs, NEW c \in Passkeys, MakeCredential(r, c)
    PROVE  TypeInv'
  <1> DEFINE t == [tab[r] EXCEPT !.key = c]
             k == [keys[c] EXCEPT !.handle = tab[r].user_id]
  <1>1. tab' = [tab EXCEPT ![r] = t] /\ keys' = [keys EXCEPT ![c] = k]
    BY DEF TypeInv, MakeCredential
  <1>2. tab[r].user_id \in Users /\ k \in Key /\ k.handle = tab[r].user_id
    BY DEF TypeInv, MakeCredential, GoodTab, Key
  <1>3. GoodTab(t) /\ t.pc = "create"
    BY DEF TypeInv, MakeCredential, GoodTab, Tab
  <1> HIDE DEF t, k
  <1>4. tab' \in [Tabs -> Tab] /\ \A q \in Tabs : GoodTab(tab'[q])
    BY <1>1, <1>3, OneTabMoves
  <1>5. keys' \in [Passkeys -> Key]
    BY <1>1, <1>2 DEF TypeInv
  <1>6. SignersHaveHandles'
    BY <1>1, <1>2, <1>3 DEF TypeInv, SignersHaveHandles, GoodTab
  <1> QED
    BY <1>4, <1>5, <1>6 DEF TypeInv, MakeCredential

\* A registration is finished, or refused.
LEMMA RegisterFinishType ==
    ASSUME TypeInv, NEW r \in Tabs, passkeyRegisterFinish(r)
    PROVE  TypeInv'
  <1>1. CASE tab' = [tab EXCEPT ![r].pc = "insert", ![r].user_id = CurrentUser(r)] /\ UNCHANGED jar
    <2> DEFINE u == CurrentUser(r)
               t == [tab[r] EXCEPT !.pc = "insert", !.user_id = u]
    <2>1. u \in Users
      BY CurrentUserIsUser DEF passkeyRegisterFinish
    <2>2. tab' = [tab EXCEPT ![r] = t]
      BY <1>1 DEF TypeInv
    <2> HIDE DEF u
    <2>3. GoodTab(t) /\ t.pc = "insert"
      BY <2>1 DEF TypeInv, passkeyRegisterFinish, GoodTab, Tab
    <2> HIDE DEF t
    <2>4. tab' \in [Tabs -> Tab] /\ \A q \in Tabs : GoodTab(tab'[q])
      BY <2>2, <2>3, OneTabMoves
    <2>5. SignersHaveHandles'
      BY <2>2, <2>3, SignersStay DEF TypeInv, passkeyRegisterFinish
    <2> QED
      BY <1>1, <2>4, <2>5 DEF TypeInv, passkeyRegisterFinish
  <1>2. CASE /\ SetCookies(r, [Cookies(r) EXCEPT !.passkey_register = NoCeremony])
             /\ End(r)
    <2>1. jar' \in [Browsers -> Jar] /\ \A b \in Browsers : GoodJar(jar'[b])
      BY <1>2, EmptyTypes, CeremonyCookieType, OneJarChanges
    <2>2. tab' \in [Tabs -> Tab] /\ \A q \in Tabs : GoodTab(tab'[q])
      BY <1>2, EndKeepsTabs
    <2>3. SignersHaveHandles'
      BY <1>2, SignersStay DEF TypeInv, passkeyRegisterFinish, End, NoTab
    <2> QED
      BY <2>1, <2>2, <2>3 DEF TypeInv, passkeyRegisterFinish
  <1> QED
    BY <1>1, <1>2 DEF passkeyRegisterFinish

\* The credential is stored.
LEMMA CreateCredentialType ==
    ASSUME TypeInv, NEW r \in Tabs, CreateWebAuthnCredential(r)
    PROVE  TypeInv'
  <1> DEFINE n == [user_id |-> tab[r].user_id, sign_count |-> 0]
  <1>1. tab[r].key \in Passkeys /\ tab[r].user_id \in Users
    BY DEF TypeInv, CreateWebAuthnCredential, GoodTab
  <1>2. n \in Credential /\ GoodCredential(n)
    BY <1>1, SignInAssumption, NoneAssumption DEF Credential, GoodCredential
  <1>3. credentials' = [credentials EXCEPT ![tab[r].key] = n]
    BY DEF CreateWebAuthnCredential
  <1> HIDE DEF n
  <1>4. /\ credentials' \in [Passkeys -> Credential]
        /\ \A c \in Passkeys : GoodCredential(credentials'[c])
    BY <1>1, <1>2, <1>3 DEF TypeInv
  <1>5. jar' \in [Browsers -> Jar] /\ \A b \in Browsers : GoodJar(jar'[b])
    BY EmptyTypes, CeremonyCookieType, OneJarChanges DEF CreateWebAuthnCredential
  <1>6. tab' \in [Tabs -> Tab] /\ \A q \in Tabs : GoodTab(tab'[q])
    BY EndKeepsTabs DEF CreateWebAuthnCredential
  <1>7. SignersHaveHandles'
    BY SignersStay DEF TypeInv, CreateWebAuthnCredential, End, NoTab
  <1> QED
    BY <1>4, <1>5, <1>6, <1>7 DEF TypeInv, CreateWebAuthnCredential

\* A sign-in with a passkey begins.
LEMMA LoginBeginType ==
    ASSUME TypeInv, NEW r \in Tabs, passkeyLoginBegin(r)
    PROVE  TypeInv'
  <1> DEFINE m == [user_id |-> None, challenge |-> r]
             t == [NoTab EXCEPT !.pc = "assert"]
  <1>1. tab' = [tab EXCEPT ![r] = t] /\ SetCookies(r, [Cookies(r) EXCEPT !.passkey_login = m])
    BY DEF passkeyLoginBegin
  <1>2. m \in Ceremony /\ GoodTab(t) /\ t.pc = "assert"
    BY EmptyTypes DEF Ceremony, GoodTab, Tab, NoTab
  <1> HIDE DEF m, t
  <1>3. tab' \in [Tabs -> Tab] /\ \A q \in Tabs : GoodTab(tab'[q])
    BY <1>1, <1>2, OneTabMoves
  <1>4. jar' \in [Browsers -> Jar] /\ \A b \in Browsers : GoodJar(jar'[b])
    BY <1>1, <1>2, CeremonyCookieType, OneJarChanges
  <1>5. SignersHaveHandles'
    BY <1>1, <1>2, SignersStay DEF TypeInv, passkeyLoginBegin
  <1> QED
    BY <1>3, <1>4, <1>5 DEF TypeInv, passkeyLoginBegin

\* An authenticator signs.
LEMMA SignType ==
    ASSUME TypeInv, NEW r \in Tabs, NEW c \in Passkeys, Sign(r, c)
    PROVE  TypeInv'
  <1> DEFINE n == keys[c].count + 1
             t == [tab[r] EXCEPT !.pc = "signed", !.key = c, !.count = n]
             k == [keys[c] EXCEPT !.count = n]
  <1>1. tab' = [tab EXCEPT ![r] = t] /\ keys' = [keys EXCEPT ![c] = k]
    BY DEF TypeInv, Sign
  <1>2. n \in 0..MaxCount
    BY SignInAssumption DEF TypeInv, Sign, Key
  <1> HIDE DEF n
  <1>3. k \in Key /\ k.handle = keys[c].handle /\ k.handle \in Users
    BY <1>2 DEF TypeInv, Sign, Key
  <1>4. GoodTab(t) /\ t.pc = "signed" /\ t.key = c
    BY <1>2 DEF TypeInv, Sign, GoodTab, Tab
  <1> HIDE DEF t, k
  <1>5. tab' \in [Tabs -> Tab] /\ \A q \in Tabs : GoodTab(tab'[q])
    BY <1>1, <1>4, OneTabMoves
  <1>6. keys' \in [Passkeys -> Key]
    BY <1>1, <1>3 DEF TypeInv
  <1>7. SignersHaveHandles'
    BY <1>1, <1>3, <1>4 DEF TypeInv, SignersHaveHandles, GoodTab
  <1> QED
    BY <1>5, <1>6, <1>7 DEF TypeInv, Sign

\* A sign-in with a passkey is finished, or refused.
LEMMA LoginFinishType ==
    ASSUME TypeInv, NEW r \in Tabs, passkeyLoginFinish(r)
    PROVE  TypeInv'
  <1> DEFINE c == tab[r].key
             u == keys[c].handle
             f == [NoFacts EXCEPT !.via = "passkey", !.on = totp[u]]
             t == [NoTab EXCEPT !.pc = "update", !.user_id = u, !.key = c,
                     !.count = tab[r].count, !.stored = credentials[c].sign_count,
                     !.facts = f]
  <1>1. CASE tab' = [tab EXCEPT ![r] = t] /\ UNCHANGED jar
    <2>1. c \in Passkeys /\ u \in Users
      BY DEF TypeInv, passkeyLoginFinish, GoodTab, SignersHaveHandles
    <2>2. /\ credentials[c].sign_count \in 0..MaxCount /\ tab[r].count \in 0..MaxCount
          /\ totp[u] \in BOOLEAN
      BY <2>1 DEF TypeInv, Credential, Tab
    <2> HIDE DEF c, u
    <2>3. f \in SignInFacts
      BY <2>2, EmptyTypes DEF SignInFacts, Ways
    <2> HIDE DEF f
    <2>4. GoodTab(t) /\ t.pc = "update"
      BY <2>1, <2>2, <2>3, EmptyTypes DEF GoodTab, Tab, NoTab
    <2> HIDE DEF t
    <2>5. tab' \in [Tabs -> Tab] /\ \A q \in Tabs : GoodTab(tab'[q])
      BY <1>1, <2>4, OneTabMoves
    <2>6. SignersHaveHandles'
      BY <1>1, <2>4, SignersStay DEF TypeInv, passkeyLoginFinish
    <2> QED
      BY <1>1, <2>5, <2>6 DEF TypeInv, passkeyLoginFinish
  <1>2. CASE /\ SetCookies(r, [Cookies(r) EXCEPT !.passkey_login = NoCeremony])
             /\ End(r)
    <2>1. jar' \in [Browsers -> Jar] /\ \A b \in Browsers : GoodJar(jar'[b])
      BY <1>2, EmptyTypes, CeremonyCookieType, OneJarChanges
    <2>2. tab' \in [Tabs -> Tab] /\ \A q \in Tabs : GoodTab(tab'[q])
      BY <1>2, EndKeepsTabs
    <2>3. SignersHaveHandles'
      BY <1>2, SignersStay DEF TypeInv, passkeyLoginFinish, End, NoTab
    <2> QED
      BY <2>1, <2>2, <2>3 DEF TypeInv, passkeyLoginFinish
  <1> QED
    BY <1>1, <1>2 DEF passkeyLoginFinish

\* The counter kept is one of the two.
LEMMA SignCountType ==
    ASSUME NEW m \in 0..MaxCount, NEW n \in 0..MaxCount
    PROVE  SignCount(m, n) \in 0..MaxCount /\ SignCount(m, n) >= m
  BY SignInAssumption DEF SignCount

\* Storing a counter keeps the rows and their users.
LEMMA StoreCountType ==
    ASSUME TypeInv, NEW c \in Passkeys, NEW n \in 0..MaxCount
    PROVE  /\ StoreCount(c, n) \in [Passkeys -> Credential]
           /\ \A d \in Passkeys : /\ GoodCredential(StoreCount(c, n)[d])
                                  /\ StoreCount(c, n)[d].user_id = credentials[d].user_id
                                  /\ d # c => StoreCount(c, n)[d] = credentials[d]
  <1>1. CASE credentials[c] = NoCredential
    BY <1>1 DEF TypeInv, StoreCount
  <1>2. CASE credentials[c] # NoCredential
    <2> DEFINE k == [credentials[c] EXCEPT !.sign_count = n]
    <2>1. k \in Credential /\ GoodCredential(k) /\ k.user_id = credentials[c].user_id
      BY <1>2 DEF TypeInv, GoodCredential, Credential
    <2>2. StoreCount(c, n) = [credentials EXCEPT ![c] = k]
      BY <1>2 DEF TypeInv, StoreCount
    <2> HIDE DEF k
    <2> QED
      BY <2>1, <2>2 DEF TypeInv
  <1> QED
    BY <1>1, <1>2

\* The counter is stored and the sign-in goes on to the session.
LEMMA UpdateType ==
    ASSUME TypeInv, NEW r \in Tabs, UpdateWebAuthnCredentialOnLogin(r)
    PROVE  TypeInv'
  <1> DEFINE n == SignCount(tab[r].stored, tab[r].count)
             t == [tab[r] EXCEPT !.pc = "session", !.key = None, !.count = 0, !.stored = 0]
  <1>1. tab[r].key \in Passkeys /\ n \in 0..MaxCount
    BY SignCountType DEF TypeInv, UpdateWebAuthnCredentialOnLogin, GoodTab, Tab
  <1>2. credentials' = StoreCount(tab[r].key, n)
    BY DEF UpdateWebAuthnCredentialOnLogin
  <1> HIDE DEF n
  <1>3. /\ credentials' \in [Passkeys -> Credential]
        /\ \A c \in Passkeys : GoodCredential(credentials'[c])
    BY <1>1, <1>2, StoreCountType
  <1>4. tab' = [tab EXCEPT ![r] = t]
    BY DEF TypeInv, UpdateWebAuthnCredentialOnLogin
  <1>a. tab[r] \in Tab /\ tab[r].user_id \in Users /\ 0 \in 0..MaxCount
    BY SignInAssumption DEF TypeInv, UpdateWebAuthnCredentialOnLogin, GoodTab
  <1>5. GoodTab(t) /\ t.pc = "session"
    BY <1>a DEF GoodTab, Tab
  <1> HIDE DEF t
  <1>6. tab' \in [Tabs -> Tab] /\ \A q \in Tabs : GoodTab(tab'[q])
    BY <1>4, <1>5, OneTabMoves
  <1>7. SignersHaveHandles'
    BY <1>4, <1>5, SignersStay DEF TypeInv, UpdateWebAuthnCredentialOnLogin
  <1> QED
    BY <1>3, <1>6, <1>7 DEF TypeInv, UpdateWebAuthnCredentialOnLogin

\* A passkey is removed.
LEMMA DeletePasskeyType ==
    ASSUME TypeInv, NEW c \in Passkeys, DeletePasskey(c)
    PROVE  TypeInv'
  <1>1. NoCredential \in Credential
    BY EmptyTypes DEF GoodCredential
  <1>2. /\ credentials' \in [Passkeys -> Credential]
        /\ \A d \in Passkeys : GoodCredential(credentials'[d])
    BY <1>1, EmptyTypes DEF TypeInv, DeletePasskey
  <1>3. SignersHaveHandles'
    BY SignersStay DEF TypeInv, DeletePasskey
  <1> QED
    BY <1>2, <1>3 DEF TypeInv, DeletePasskey

\* Only the history of a tab changes.
LEMMA HistoryOfTab ==
    ASSUME NEW t, GoodTab(t)
    PROVE  /\ GoodTab([t EXCEPT !.facts.replaced = TRUE])
           /\ GoodTab([t EXCEPT !.facts.on = FALSE])
           /\ [t EXCEPT !.facts.replaced = TRUE].pc = t.pc
           /\ [t EXCEPT !.facts.replaced = TRUE].key = t.key
           /\ [t EXCEPT !.facts.replaced = TRUE].user_id = t.user_id
           /\ [t EXCEPT !.facts.on = FALSE].pc = t.pc
           /\ [t EXCEPT !.facts.on = FALSE].key = t.key
           /\ [t EXCEPT !.facts.on = FALSE].user_id = t.user_id
           /\ [t EXCEPT !.facts.replaced = TRUE].facts = [t.facts EXCEPT !.replaced = TRUE]
           /\ [t EXCEPT !.facts.on = FALSE].facts = [t.facts EXCEPT !.on = FALSE]
  <1>1. t.facts \in SignInFacts
    BY DEF GoodTab, Tab
  <1>2. /\ [t.facts EXCEPT !.replaced = TRUE] \in SignInFacts
        /\ [t.facts EXCEPT !.on = FALSE] \in SignInFacts
    BY <1>1 DEF SignInFacts
  <1> QED
    BY <1>2 DEF GoodTab, Tab

\* Only the history of a pending cookie changes.
LEMMA HistoryOfJar ==
    ASSUME NEW j, GoodJar(j), j.totp_pending # NoPending
    PROVE  /\ GoodJar([j EXCEPT !.totp_pending.facts.replaced = TRUE])
           /\ [j EXCEPT !.totp_pending.facts.replaced = TRUE].passkey_register
                = j.passkey_register
           /\ [j EXCEPT !.totp_pending.facts.replaced = TRUE].totp_pending
                = [j.totp_pending EXCEPT !.facts.replaced = TRUE]
  <1> DEFINE p == j.totp_pending
             f == [p.facts EXCEPT !.replaced = TRUE]
             q == [p EXCEPT !.facts = f]
  <1>1. p \in Pending /\ p.user_id \in Users
    BY DEF GoodJar, Jar
  <1>2. f \in SignInFacts
    <2> HIDE DEF p
    <2> QED
      BY <1>1 DEF Pending, SignInFacts
  <1>3. q \in Pending /\ q.user_id = p.user_id
    <2> HIDE DEF f, p
    <2> QED
      BY <1>1, <1>2 DEF Pending
  <1>4. [p EXCEPT !.facts.replaced = TRUE] = q
    OBVIOUS
  <1>5. [j EXCEPT !.totp_pending.facts.replaced = TRUE] = [j EXCEPT !.totp_pending = q]
    OBVIOUS
  <1>6. GoodJar([j EXCEPT !.totp_pending = q])
    <2> HIDE DEF q
    <2> QED
      BY <1>1, <1>3 DEF GoodJar, Jar
  <1>7. /\ [j EXCEPT !.totp_pending = q].passkey_register = j.passkey_register
        /\ [j EXCEPT !.totp_pending = q].totp_pending = q
    <2> HIDE DEF q
    <2> QED
      BY DEF GoodJar, Jar
  <1> HIDE DEF q
  <1> QED
    BY <1>4, <1>5, <1>6, <1>7

\* A password is replaced.
LEMMA SetPasswordType ==
    ASSUME TypeInv, NEW u \in Users, SetPassword(u)
    PROVE  TypeInv'
  <1>1. /\ sessions' \in [1..MaxSessions -> Session]
        /\ \A s \in 1..MaxSessions : GoodSession(sessions'[s])
    BY EmptyTypes DEF TypeInv, SetPassword, GoodSession
  <1>2. \A r \in Tabs : /\ GoodTab(tab'[r])
                        /\ tab'[r].pc = tab[r].pc /\ tab'[r].key = tab[r].key
    BY HistoryOfTab DEF TypeInv, SetPassword
  <1>3. tab' \in [Tabs -> Tab]
    <2>1. tab' = [r \in Tabs |-> tab'[r]]
      BY DEF SetPassword
    <2> QED
      BY <1>2, <2>1 DEF GoodTab
  <1>4. \A b \in Browsers : GoodJar(jar'[b])
    <2> SUFFICES ASSUME NEW b \in Browsers PROVE GoodJar(jar'[b])
      OBVIOUS
    <2>1. CASE jar[b].totp_pending.user_id = u
      <3>1. jar[b].totp_pending # NoPending
        BY <2>1, NoneAssumption DEF NoPending
      <3> QED
        BY <2>1, <3>1, HistoryOfJar DEF TypeInv, SetPassword
    <2>2. CASE jar[b].totp_pending.user_id # u
      BY <2>2 DEF TypeInv, SetPassword
    <2> QED
      BY <2>1, <2>2
  <1>5. jar' \in [Browsers -> Jar]
    <2>1. jar' = [b \in Browsers |-> jar'[b]]
      BY DEF SetPassword
    <2> QED
      BY <1>4, <2>1 DEF GoodJar
  <1>6. SignersHaveHandles'
    BY <1>2, SignersStay DEF SetPassword
  <1> QED
    BY <1>1, <1>2, <1>3, <1>4, <1>5, <1>6 DEF TypeInv, SetPassword

\* 2FA is turned on.
LEMMA EnableTOTPType ==
    ASSUME TypeInv, NEW u \in Users, EnableTOTP(u)
    PROVE  TypeInv'
  BY DEF TypeInv, EnableTOTP, SignersHaveHandles

\* 2FA is turned off.
LEMMA DisableTOTPType ==
    ASSUME TypeInv, NEW u \in Users, DisableTOTP(u)
    PROVE  TypeInv'
  <1>1. \A r \in Tabs : /\ GoodTab(tab'[r])
                        /\ tab'[r].pc = tab[r].pc /\ tab'[r].key = tab[r].key
    BY HistoryOfTab DEF TypeInv, DisableTOTP
  <1>2. tab' \in [Tabs -> Tab]
    <2>1. tab' = [r \in Tabs |-> tab'[r]]
      BY DEF DisableTOTP
    <2> QED
      BY <1>1, <2>1 DEF GoodTab
  <1>3. SignersHaveHandles'
    BY <1>1, SignersStay DEF DisableTOTP
  <1>4. totp' \in [Users -> BOOLEAN]
    BY DEF TypeInv, DisableTOTP
  <1> QED
    BY <1>1, <1>2, <1>3, <1>4 DEF TypeInv, DisableTOTP

\* A request fails.
LEMMA AbortType ==
    ASSUME TypeInv, NEW r \in Tabs, Abort(r)
    PROVE  TypeInv'
  <1>1. GoodJar(ErrorCookies(r))
    BY TabsHaveBrowsers, EmptyTypes, CeremonyCookieType DEF ErrorCookies
  <1>2. PICK c \in {Cookies(r), ErrorCookies(r)} : SetCookies(r, c)
    BY DEF Abort
  <1>3. jar' \in [Browsers -> Jar] /\ \A b \in Browsers : GoodJar(jar'[b])
    BY <1>1, <1>2, TabsHaveBrowsers, OneJarChanges
  <1>4. tab' \in [Tabs -> Tab] /\ \A q \in Tabs : GoodTab(tab'[q])
    BY EndKeepsTabs DEF Abort
  <1>5. SignersHaveHandles'
    BY SignersStay DEF TypeInv, Abort, End, NoTab
  <1> QED
    BY <1>3, <1>4, <1>5 DEF TypeInv, Abort

\* Ages grow, up to their bound, and keep their order.
LEMMA OlderType ==
    ASSUME NEW m \in Ages
    PROVE  Older(m) \in Ages /\ \A n \in Ages : m <= n => Older(m) <= Older(n)
  BY SignInAssumption DEF Ages, Older

\* A pending cookie grows older.
LEMMA AfterTickType ==
    ASSUME NEW p \in Pending
    PROVE  /\ AfterTick(p) \in Pending /\ AfterTick(p).user_id = p.user_id
           /\ p = NoPending => AfterTick(p) = NoPending
           /\ p # NoPending =>
                 /\ AfterTick(p).age = Older(p.age)
                 /\ AfterTick(p).facts.replaced = p.facts.replaced
                 /\ AfterTick(p).facts.late = p.facts.late
                 /\ AfterTick(p).facts.since =
                       IF p.facts.replaced THEN Older(p.facts.since) ELSE 0
  <1>1. CASE p = NoPending
    BY <1>1 DEF AfterTick
  <1>2. CASE p # NoPending
    <2> DEFINE a == Older(p.age)
               s == IF p.facts.replaced THEN Older(p.facts.since) ELSE 0
               f == [p.facts EXCEPT !.since = s]
               q == [p EXCEPT !.age = a, !.facts = f]
    <2>1. a \in Ages /\ s \in Ages
      BY OlderType, EmptyTypes DEF Pending, SignInFacts
    <2>2. AfterTick(p) = q
      BY <1>2 DEF AfterTick, Pending
    <2> HIDE DEF a, s
    <2>3. /\ f \in SignInFacts
          /\ f.replaced = p.facts.replaced /\ f.late = p.facts.late /\ f.since = s
      BY <2>1 DEF Pending, SignInFacts
    <2> HIDE DEF f
    <2>4. q \in Pending /\ q.user_id = p.user_id /\ q.age = a /\ q.facts = f
      BY <2>1, <2>3 DEF Pending
    <2> HIDE DEF q
    <2> QED
      BY <1>2, <2>2, <2>3, <2>4 DEF a, s
  <1> QED
    BY <1>1, <1>2

\* Time passes.
LEMMA TickType == TypeInv /\ Tick => TypeInv'
  <1> SUFFICES ASSUME TypeInv, Tick PROVE TypeInv'
    OBVIOUS
  <1>1. \A b \in Browsers : GoodJar(jar'[b])
    <2> SUFFICES ASSUME NEW b \in Browsers PROVE GoodJar(jar'[b])
      OBVIOUS
    <2> DEFINE p == AfterTick(jar[b].totp_pending)
    <2>1. GoodJar(jar[b]) /\ jar[b].totp_pending \in Pending
      BY DEF TypeInv, GoodJar, Jar
    <2>2. p \in Pending /\ (p # NoPending => p.user_id \in Users)
      BY <2>1, AfterTickType DEF GoodJar
    <2>3. jar'[b] = [jar[b] EXCEPT !.totp_pending = p]
      BY DEF Tick
    <2> HIDE DEF p
    <2> QED
      BY <2>1, <2>2, <2>3 DEF GoodJar, Jar
  <1>2. jar' \in [Browsers -> Jar]
    <2>1. jar' = [b \in Browsers |-> jar'[b]]
      BY DEF Tick
    <2> QED
      BY <1>1, <2>1 DEF GoodJar
  <1>3. SignersHaveHandles'
    BY SignersStay DEF TypeInv, Tick
  <1> QED
    BY <1>1, <1>2, <1>3 DEF TypeInv, Tick

\* Every step keeps the types.
LEMMA NextTypeInv == TypeInv /\ [Next]_vars => TypeInv'
  <1> SUFFICES ASSUME TypeInv, [Next]_vars PROVE TypeInv'
    OBVIOUS
  <1>1. CASE UNCHANGED vars
    BY <1>1 DEF vars, TypeInv, SignersHaveHandles
  <1>2. CASE Next
    <2>1. site.totp \subseteq Users
      BY SignInAssumption DEF TypeInv
    <2> QED
      BY <1>2, <2>1, LoginType, CheckTOTPType, ChallengeType, VerifyCodeType,
         CreateSessionType, LogoutType, RegisterBeginType, MakeCredentialType,
         RegisterFinishType, CreateCredentialType, LoginBeginType, SignType,
         LoginFinishType, UpdateType, AbortType, DeletePasskeyType, SetPasswordType,
         EnableTOTPType, DisableTOTPType, TickType
      DEF Next
  <1> QED
    BY <1>1, <1>2

\* Reachable states have the types.
LEMMA TypeInvHolds == Spec => []TypeInv
  BY InitTypeInv, NextTypeInv, PTL DEF Spec

\* The tables, the cookies, the authenticators and the tabs keep their types,
\* whatever the requests of the tabs do between each other's steps.
THEOREM TypeCorrect == Spec => []TypeOK
  BY TypeInvHolds, TypeInvIsTypeOK, PTL

-----------------------------------------------------------------------------
(* The history of sign-ins.  What the sessions table says of a sign-in was *)
(* carried there by a tab, and before that by a cookie.                    *)

\* The way a tab signs in, if it does; without a code only a user who had no 2FA at some time;
\* a cookie of a replaced password was answered with a code while it was young, or
\* had been set for the replaced password already.
TabHistory(t) ==
    LET f == t.facts IN
    /\ t.pc = "create" => ~f.on
    /\ t.pc = "totp" => f.via = "password"
    /\ t.pc = "verify" => f.via = "challenge"
    /\ t.pc = "update" => f.via = "passkey"
    /\ t.pc = "session" /\ f.on => f.via \in {"challenge", "passkey"}
    /\ f.via = "challenge" /\ f.replaced => f.late \/ f.since <= PendingTTL

\* The password of a pending cookie was not replaced before the cookie was set,
\* unless the login was answered late.
PendingHistory(p) ==
    /\ p.facts.replaced /\ ~p.facts.late => p.facts.since <= p.age
    /\ ~p.facts.replaced => p.facts.since = 0

\* What a session's row says.
SessionHistory(s) ==
    LET f == s.facts IN
    /\ f.on => f.via \in {"challenge", "passkey"}
    /\ f.via = "challenge" /\ f.replaced => f.late \/ f.since <= PendingTTL

\* 2FA that was on all along is on.
OnIsOn == \A r \in Tabs :
             tab[r].facts.on => tab[r].user_id \in Users /\ totp[tab[r].user_id]

HistoryInv ==
    /\ \A r \in Tabs : TabHistory(tab[r])
    /\ \A b \in Browsers : PendingHistory(jar[b].totp_pending)
    /\ \A s \in 1..MaxSessions : SessionHistory(sessions[s])
    /\ OnIsOn

-----------------------------------------------------------------------------
(* The steps keep the history of the sign-ins.                             *)

\* Nothing has happened.
LEMMA EmptyHistory ==
    /\ TabHistory(NoTab) /\ ~NoTab.facts.on
    /\ PendingHistory(NoPending) /\ SessionHistory(NoSession)
  BY DEF TabHistory, NoTab, NoFacts, PendingHistory, NoPending, SessionHistory, NoSession

\* One tab goes on.
LEMMA OneTabHistory ==
    ASSUME TypeInv, HistoryInv, NEW r \in Tabs, NEW t, TabHistory(t),
           t.facts.on => t.user_id \in Users /\ totp[t.user_id],
           tab' = [tab EXCEPT ![r] = t], totp' = totp
    PROVE  (\A q \in Tabs : TabHistory(tab'[q])) /\ OnIsOn'
  BY DEF TypeInv, HistoryInv, OnIsOn

\* One request ends.
LEMMA EndHistory ==
    ASSUME TypeInv, HistoryInv, NEW r \in Tabs, End(r), totp' = totp
    PROVE  (\A q \in Tabs : TabHistory(tab'[q])) /\ OnIsOn'
  BY EmptyHistory, OneTabHistory DEF End

\* One browser's cookies change.
LEMMA OneJarHistory ==
    ASSUME TypeInv, HistoryInv, NEW r \in Tabs, NEW c, SetCookies(r, c),
           \/ c.totp_pending = Cookies(r).totp_pending
           \/ PendingHistory(c.totp_pending)
    PROVE  \A b \in Browsers : PendingHistory(jar'[b].totp_pending)
  BY TabsHaveBrowsers DEF TypeInv, HistoryInv, SetCookies, Cookies

\* The cookies of ceremonies are apart from the pending cookie.
LEMMA CeremonyApart ==
    ASSUME TypeInv, NEW r \in Tabs, NEW m
    PROVE  /\ [Cookies(r) EXCEPT !.passkey_register = m].totp_pending = Cookies(r).totp_pending
           /\ [Cookies(r) EXCEPT !.passkey_login = m].totp_pending = Cookies(r).totp_pending
  <1>1. Cookies(r) \in Jar
    BY TabsHaveBrowsers DEF GoodJar
  <1> QED
    BY <1>1 DEF Jar

\* A sign-in with a password, and what follows.
LEMMA LoginHistory ==
    ASSUME TypeInv, HistoryInv, NEW r \in Tabs, NEW u \in Users, Login(r, u)
    PROVE  HistoryInv'
  <1> DEFINE f == [NoFacts EXCEPT !.via = "password", !.on = totp[u]]
             t == [NoTab EXCEPT !.pc = "totp", !.user_id = u, !.facts = f]
  <1>1. TabHistory(t) /\ (t.facts.on => t.user_id \in Users /\ totp[t.user_id])
    BY DEF TabHistory, NoTab, NoFacts
  <1>2. tab' = [tab EXCEPT ![r] = t] /\ totp' = totp
    BY DEF Login
  <1> HIDE DEF t
  <1>3. (\A q \in Tabs : TabHistory(tab'[q])) /\ OnIsOn'
    BY <1>1, <1>2, OneTabHistory
  <1> QED
    BY <1>3 DEF HistoryInv, Login

\* The pending cookie is set for a password that is not replaced, or late; without
\* 2FA the sign-in goes on, and 2FA was not on all along.
LEMMA CheckTOTPHistory ==
    ASSUME TypeInv, HistoryInv, NEW r \in Tabs, CheckTOTP(r)
    PROVE  HistoryInv'
  <1>a. tab[r] \in Tab /\ TabHistory(tab[r]) /\ tab[r].pc = "totp" /\ tab[r].facts \in SignInFacts
    BY DEF TypeInv, HistoryInv, CheckTOTP, Tab
  <1>1. CASE setTOTPPendingCookie(r) /\ End(r)
    <2> DEFINE f == [NoFacts EXCEPT !.replaced = tab[r].facts.replaced,
                                    !.late = tab[r].facts.replaced]
               p == [user_id |-> tab[r].user_id, age |-> 0, facts |-> f]
               c == [Cookies(r) EXCEPT !.totp_pending = p]
    <2>1. PendingHistory(p)
      BY <1>a DEF PendingHistory, NoFacts, SignInFacts
    <2> HIDE DEF p
    <2>2. c.totp_pending = p
      BY TabsHaveBrowsers DEF GoodJar, Jar
    <2>3. SetCookies(r, c)
      BY <1>1 DEF setTOTPPendingCookie, p
    <2> HIDE DEF c
    <2>4. \A b \in Browsers : PendingHistory(jar'[b].totp_pending)
      BY <2>1, <2>2, <2>3, OneJarHistory
    <2>5. (\A q \in Tabs : TabHistory(tab'[q])) /\ OnIsOn'
      BY <1>1, EndHistory DEF CheckTOTP
    <2> QED
      BY <2>4, <2>5 DEF HistoryInv, CheckTOTP
  <1>2. CASE /\ ~EnabledTOTP(tab[r].user_id)
             /\ tab' = [tab EXCEPT ![r].pc = "session"] /\ UNCHANGED jar
    <2> DEFINE t == [tab[r] EXCEPT !.pc = "session"]
    <2>1. ~tab[r].facts.on
      BY <1>2 DEF HistoryInv, OnIsOn, EnabledTOTP
    <2>2. t.pc = "session" /\ t.facts = tab[r].facts
      BY <1>a DEF Tab
    <2>3. tab' = [tab EXCEPT ![r] = t] /\ totp' = totp
      BY <1>2 DEF TypeInv, CheckTOTP
    <2> HIDE DEF t
    <2>4. TabHistory(t)
      BY <1>a, <2>1, <2>2 DEF TabHistory
    <2>5. (\A q \in Tabs : TabHistory(tab'[q])) /\ OnIsOn'
      BY <2>1, <2>2, <2>3, <2>4, OneTabHistory
    <2> QED
      BY <1>2, <2>5 DEF HistoryInv, CheckTOTP
  <1> QED
    BY <1>1, <1>2 DEF CheckTOTP

\* A cookie that is answered is young, and so is the change of its password.
LEMMA ChallengeHistory ==
    ASSUME TypeInv, HistoryInv, NEW r \in Tabs, Challenge(r)
    PROVE  HistoryInv'
  <1> DEFINE p == Cookies(r).totp_pending
             f == [p.facts EXCEPT !.via = "challenge", !.on = TRUE]
             t == [NoTab EXCEPT !.pc = "verify", !.user_id = p.user_id, !.facts = f]
  <1>1. p \in Pending /\ p.user_id \in Users /\ p.age <= PendingTTL /\ totp[p.user_id]
    BY TabsHaveBrowsers
    DEF Challenge, totpPendingLoginFromCookie, GoodJar, Jar, EnabledTOTP
  <1>2. PendingHistory(p)
    BY TabsHaveBrowsers DEF HistoryInv, Cookies
  <1>3. tab' = [tab EXCEPT ![r] = t] /\ totp' = totp
    BY DEF Challenge
  <1> HIDE DEF p
  <1>4. p.facts \in SignInFacts /\ p.age \in Ages
    BY <1>1 DEF Pending
  <1>5. /\ f.via = "challenge" /\ f.replaced = p.facts.replaced
        /\ f.late = p.facts.late /\ f.since = p.facts.since
    BY <1>4 DEF SignInFacts
  <1>6. f.replaced => f.late \/ f.since <= PendingTTL
    BY <1>1, <1>2, <1>4, <1>5, SignInAssumption DEF PendingHistory, Ages, SignInFacts
  <1> HIDE DEF f
  <1>7. t.pc = "verify" /\ t.facts = f /\ t.user_id = p.user_id
    BY DEF NoTab
  <1> HIDE DEF t
  <1>8. TabHistory(t)
    BY <1>5, <1>6, <1>7 DEF TabHistory
  <1>9. (\A q \in Tabs : TabHistory(tab'[q])) /\ OnIsOn'
    BY <1>1, <1>3, <1>7, <1>8, OneTabHistory
  <1> QED
    BY <1>9 DEF HistoryInv, Challenge

\* The code is good.
LEMMA VerifyCodeHistory ==
    ASSUME TypeInv, HistoryInv, NEW r \in Tabs, VerifyCode(r)
    PROVE  HistoryInv'
  <1> DEFINE t == [tab[r] EXCEPT !.pc = "session"]
  <1>1. tab[r] \in Tab /\ TabHistory(tab[r]) /\ tab[r].pc = "verify"
    BY DEF TypeInv, HistoryInv, VerifyCode
  <1>2. t.pc = "session" /\ t.facts = tab[r].facts /\ t.user_id = tab[r].user_id
    BY <1>1 DEF Tab
  <1>3. tab' = [tab EXCEPT ![r] = t] /\ totp' = totp
    BY DEF TypeInv, VerifyCode
  <1> HIDE DEF t
  <1>4. TabHistory(t)
    BY <1>1, <1>2 DEF TabHistory
  <1>5. (\A q \in Tabs : TabHistory(tab'[q])) /\ OnIsOn'
    BY <1>2, <1>3, <1>4, OneTabHistory DEF HistoryInv, OnIsOn
  <1> QED
    BY <1>5 DEF HistoryInv, VerifyCode

\* The row takes the history of the tab.
LEMMA CreateSessionHistory ==
    ASSUME TypeInv, HistoryInv, NEW r \in Tabs, CreateSession(r)
    PROVE  HistoryInv'
  <1> DEFINE n == [user_id |-> tab[r].user_id, facts |-> tab[r].facts]
  <1>1. NewSession \in 1..MaxSessions
    BY NewSessionIsFree DEF CreateSession
  <1>2. SessionHistory(n)
    BY DEF HistoryInv, CreateSession, TabHistory, SessionHistory
  <1>3. sessions' = [sessions EXCEPT ![NewSession] = n]
    BY DEF CreateSession
  <1> HIDE DEF n
  <1>4. \A s \in 1..MaxSessions : SessionHistory(sessions'[s])
    BY <1>1, <1>2, <1>3 DEF TypeInv, HistoryInv
  <1>5. PICK c \in {Cookies(r), SessionCookies(r, NewSession)} : SetCookies(r, c)
    BY DEF CreateSession
  <1>6. c.totp_pending = Cookies(r).totp_pending \/ c.totp_pending = NoPending
    BY TabsHaveBrowsers DEF SessionCookies, GoodJar, Jar
  <1>7. \A b \in Browsers : PendingHistory(jar'[b].totp_pending)
    BY <1>5, <1>6, EmptyHistory, OneJarHistory
  <1>8. (\A q \in Tabs : TabHistory(tab'[q])) /\ OnIsOn'
    BY EndHistory DEF CreateSession
  <1> QED
    BY <1>4, <1>7, <1>8 DEF HistoryInv

\* A session is ended.
LEMMA LogoutHistory ==
    ASSUME TypeInv, HistoryInv, NEW b \in Browsers, Logout(b)
    PROVE  HistoryInv'
  <1>1. \A s \in 1..MaxSessions : SessionHistory(sessions'[s])
    BY EmptyHistory DEF TypeInv, HistoryInv, Logout
  <1>2. \A a \in Browsers : jar'[a].totp_pending = jar[a].totp_pending
    BY DEF TypeInv, Jar, Logout
  <1> QED
    BY <1>1, <1>2 DEF HistoryInv, OnIsOn, Logout

\* The steps of a registration sign nobody in.
LEMMA RegistrationHistory ==
    ASSUME TypeInv, HistoryInv, NEW r \in Tabs,
           \/ passkeyRegisterBegin(r)
           \/ \E c \in Passkeys : MakeCredential(r, c)
           \/ passkeyRegisterFinish(r)
           \/ CreateWebAuthnCredential(r)
    PROVE  HistoryInv'
  <1>a. tab[r] \in Tab /\ TabHistory(tab[r])
    BY DEF TypeInv, HistoryInv
  <1>1. CASE passkeyRegisterBegin(r)
    <2> DEFINE t == [NoTab EXCEPT !.pc = "create", !.user_id = CurrentUser(r)]
    <2>1. TabHistory(t) /\ ~t.facts.on
      BY DEF TabHistory, NoTab, NoFacts
    <2>2. tab' = [tab EXCEPT ![r] = t] /\ totp' = totp
      BY <1>1 DEF passkeyRegisterBegin
    <2> HIDE DEF t
    <2>3. (\A q \in Tabs : TabHistory(tab'[q])) /\ OnIsOn'
      BY <2>1, <2>2, OneTabHistory
    <2>4. \A b \in Browsers : PendingHistory(jar'[b].totp_pending)
      BY <1>1, CeremonyApart, OneJarHistory DEF passkeyRegisterBegin
    <2> QED
      BY <1>1, <2>3, <2>4 DEF HistoryInv, passkeyRegisterBegin
  <1>2. ASSUME NEW c \in Passkeys, MakeCredential(r, c) PROVE HistoryInv'
    <2> DEFINE t == [tab[r] EXCEPT !.key = c]
    <2>1. t.pc = tab[r].pc /\ t.facts = tab[r].facts /\ t.user_id = tab[r].user_id
      BY <1>a DEF Tab
    <2>2. tab' = [tab EXCEPT ![r] = t] /\ totp' = totp
      BY <1>2 DEF TypeInv, MakeCredential
    <2> HIDE DEF t
    <2>3. TabHistory(t)
      BY <1>a, <2>1 DEF TabHistory
    <2>4. (\A q \in Tabs : TabHistory(tab'[q])) /\ OnIsOn'
      BY <2>1, <2>2, <2>3, OneTabHistory DEF HistoryInv, OnIsOn
    <2> QED
      BY <1>2, <2>4 DEF HistoryInv, MakeCredential
  <1>3. CASE passkeyRegisterFinish(r)
    <2>1. CASE /\ CreateCredential(r)
               /\ tab' = [tab EXCEPT ![r].pc = "insert", ![r].user_id = CurrentUser(r)]
               /\ UNCHANGED jar
      <3> DEFINE t == [tab[r] EXCEPT !.pc = "insert", !.user_id = CurrentUser(r)]
      <3>1. t.pc = "insert" /\ t.facts = tab[r].facts /\ t.user_id = CurrentUser(r)
        BY <1>a DEF Tab
      <3>2. tab' = [tab EXCEPT ![r] = t] /\ totp' = totp
        BY <1>3, <2>1 DEF TypeInv, passkeyRegisterFinish
      <3> HIDE DEF t
      <3>3. TabHistory(t)
        BY <1>a, <3>1 DEF TabHistory
      <3>4. (\A q \in Tabs : TabHistory(tab'[q])) /\ OnIsOn'
        BY <1>a, <1>3, <3>1, <3>2, <3>3, OneTabHistory DEF TabHistory, passkeyRegisterFinish
      <3> QED
        BY <1>3, <2>1, <3>4 DEF HistoryInv, passkeyRegisterFinish
    <2>2. CASE /\ SetCookies(r, [Cookies(r) EXCEPT !.passkey_register = NoCeremony])
               /\ End(r)
      <3>1. \A b \in Browsers : PendingHistory(jar'[b].totp_pending)
        BY <2>2, CeremonyApart, OneJarHistory
      <3>2. (\A q \in Tabs : TabHistory(tab'[q])) /\ OnIsOn'
        BY <1>3, <2>2, EndHistory DEF passkeyRegisterFinish
      <3> QED
        BY <1>3, <3>1, <3>2 DEF HistoryInv, passkeyRegisterFinish
    <2> QED
      BY <1>3, <2>1, <2>2 DEF passkeyRegisterFinish
  <1>4. CASE CreateWebAuthnCredential(r)
    <2>1. \A b \in Browsers : PendingHistory(jar'[b].totp_pending)
      BY <1>4, CeremonyApart, OneJarHistory DEF CreateWebAuthnCredential
    <2>2. (\A q \in Tabs : TabHistory(tab'[q])) /\ OnIsOn'
      BY <1>4, EndHistory DEF CreateWebAuthnCredential
    <2> QED
      BY <1>4, <2>1, <2>2 DEF HistoryInv, CreateWebAuthnCredential
  <1> QED
    BY <1>1, <1>2, <1>3, <1>4

\* A sign-in with a passkey asks for no code.
LEMMA PasskeyHistory ==
    ASSUME TypeInv, HistoryInv, NEW r \in Tabs,
           \/ passkeyLoginBegin(r)
           \/ \E c \in Passkeys : Sign(r, c)
           \/ passkeyLoginFinish(r)
           \/ UpdateWebAuthnCredentialOnLogin(r)
    PROVE  HistoryInv'
  <1>a. tab[r] \in Tab /\ TabHistory(tab[r])
    BY DEF TypeInv, HistoryInv
  <1>1. CASE passkeyLoginBegin(r)
    <2> DEFINE t == [NoTab EXCEPT !.pc = "assert"]
    <2>1. TabHistory(t) /\ ~t.facts.on
      BY DEF TabHistory, NoTab, NoFacts
    <2>2. tab' = [tab EXCEPT ![r] = t] /\ totp' = totp
      BY <1>1 DEF passkeyLoginBegin
    <2> HIDE DEF t
    <2>3. (\A q \in Tabs : TabHistory(tab'[q])) /\ OnIsOn'
      BY <2>1, <2>2, OneTabHistory
    <2>4. \A b \in Browsers : PendingHistory(jar'[b].totp_pending)
      BY <1>1, CeremonyApart, OneJarHistory DEF passkeyLoginBegin
    <2> QED
      BY <1>1, <2>3, <2>4 DEF HistoryInv, passkeyLoginBegin
  <1>2. ASSUME NEW c \in Passkeys, Sign(r, c) PROVE HistoryInv'
    <2> DEFINE t == [tab[r] EXCEPT !.pc = "signed", !.key = c, !.count = keys[c].count + 1]
    <2>1. t.pc = "signed" /\ t.facts = tab[r].facts /\ t.user_id = tab[r].user_id
      BY <1>a DEF Tab
    <2>2. tab' = [tab EXCEPT ![r] = t] /\ totp' = totp
      BY <1>2 DEF TypeInv, Sign
    <2> HIDE DEF t
    <2>3. TabHistory(t)
      BY <1>a, <2>1 DEF TabHistory
    <2>4. (\A q \in Tabs : TabHistory(tab'[q])) /\ OnIsOn'
      BY <2>1, <2>2, <2>3, OneTabHistory DEF HistoryInv, OnIsOn
    <2> QED
      BY <1>2, <2>4 DEF HistoryInv, Sign
  <1>3. CASE passkeyLoginFinish(r)
    <2> DEFINE c == tab[r].key
               u == keys[c].handle
               f == [NoFacts EXCEPT !.via = "passkey", !.on = totp[u]]
               t == [NoTab EXCEPT !.pc = "update", !.user_id = u, !.key = c,
                       !.count = tab[r].count, !.stored = credentials[c].sign_count,
                       !.facts = f]
    <2>1. CASE tab' = [tab EXCEPT ![r] = t] /\ UNCHANGED jar
      <3>1. u \in Users /\ totp' = totp
        BY <1>3 DEF TypeInv, passkeyLoginFinish, SignersHaveHandles
      <3> HIDE DEF u
      <3>2. f.via = "passkey" /\ f.on = totp[u] /\ ~f.replaced
        BY DEF NoFacts
      <3> HIDE DEF f
      <3>3. t.pc = "update" /\ t.user_id = u /\ t.facts = f
        BY DEF NoTab
      <3> HIDE DEF t
      <3>4. TabHistory(t)
        BY <3>2, <3>3 DEF TabHistory
      <3>5. (\A q \in Tabs : TabHistory(tab'[q])) /\ OnIsOn'
        BY <2>1, <3>1, <3>2, <3>3, <3>4, OneTabHistory
      <3> QED
        BY <1>3, <2>1, <3>5 DEF HistoryInv, passkeyLoginFinish
    <2>2. CASE /\ SetCookies(r, [Cookies(r) EXCEPT !.passkey_login = NoCeremony])
               /\ End(r)
      <3>1. \A b \in Browsers : PendingHistory(jar'[b].totp_pending)
        BY <2>2, CeremonyApart, OneJarHistory
      <3>2. (\A q \in Tabs : TabHistory(tab'[q])) /\ OnIsOn'
        BY <1>3, <2>2, EndHistory DEF passkeyLoginFinish
      <3> QED
        BY <1>3, <3>1, <3>2 DEF HistoryInv, passkeyLoginFinish
    <2> QED
      BY <1>3, <2>1, <2>2 DEF passkeyLoginFinish
  <1>4. CASE UpdateWebAuthnCredentialOnLogin(r)
    <2> DEFINE t == [tab[r] EXCEPT !.pc = "session", !.key = None, !.count = 0, !.stored = 0]
    <2>1. t.pc = "session" /\ t.facts = tab[r].facts /\ t.user_id = tab[r].user_id
      BY <1>a DEF Tab
    <2>2. tab' = [tab EXCEPT ![r] = t] /\ totp' = totp
      BY <1>4 DEF TypeInv, UpdateWebAuthnCredentialOnLogin
    <2> HIDE DEF t
    <2>3. TabHistory(t)
      BY <1>4, <1>a, <2>1 DEF TabHistory, UpdateWebAuthnCredentialOnLogin
    <2>4. (\A q \in Tabs : TabHistory(tab'[q])) /\ OnIsOn'
      BY <2>1, <2>2, <2>3, OneTabHistory DEF HistoryInv, OnIsOn
    <2> QED
      BY <1>4, <2>4 DEF HistoryInv, UpdateWebAuthnCredentialOnLogin
  <1> QED
    BY <1>1, <1>2, <1>3, <1>4

\* A password is replaced: the change is younger than every pending cookie that did
\* not know one.
LEMMA SetPasswordHistory ==
    ASSUME TypeInv, HistoryInv, NEW u \in Users, SetPassword(u)
    PROVE  HistoryInv'
  <1>1. \A s \in 1..MaxSessions : SessionHistory(sessions'[s])
    BY EmptyHistory DEF TypeInv, HistoryInv, SetPassword
  <1>2. ASSUME NEW r \in Tabs
        PROVE  /\ TabHistory(tab'[r])
               /\ tab'[r].facts.on => tab[r].user_id \in Users /\ totp[tab[r].user_id]
               /\ tab'[r].user_id = tab[r].user_id
    <2>a. GoodTab(tab[r]) /\ tab[r].facts \in SignInFacts /\ TabHistory(tab[r])
      BY DEF TypeInv, HistoryInv, Tab
    <2>1. CASE tab[r].user_id = u /\ tab[r].pc = "totp"
      <3> DEFINE f == [tab[r].facts EXCEPT !.replaced = TRUE]
      <3>1. /\ tab'[r].pc = tab[r].pc /\ tab'[r].facts = f
            /\ tab'[r].user_id = tab[r].user_id
        BY <2>1, <2>a, HistoryOfTab DEF SetPassword
      <3>2. f.on = tab[r].facts.on /\ f.via = tab[r].facts.via
        BY <2>a DEF SignInFacts
      <3> HIDE DEF f
      <3> QED
        BY <2>1, <2>a, <3>1, <3>2 DEF TabHistory, HistoryInv, OnIsOn
    <2>2. CASE ~(tab[r].user_id = u /\ tab[r].pc = "totp")
      <3>1. tab'[r] = tab[r]
        BY <2>2 DEF SetPassword
      <3> QED
        BY <2>a, <3>1 DEF HistoryInv, OnIsOn
    <2> QED
      BY <2>1, <2>2
  <1>3. ASSUME NEW b \in Browsers
        PROVE  PendingHistory(jar'[b].totp_pending)
    <2> DEFINE p == jar[b].totp_pending
    <2>a. GoodJar(jar[b]) /\ p \in Pending /\ PendingHistory(p)
      BY DEF TypeInv, HistoryInv, Jar
    <2>1. CASE p.user_id = u
      <3> DEFINE q == [p EXCEPT !.facts.replaced = TRUE]
      <3>1. p # NoPending
        BY <2>1, NoneAssumption DEF NoPending
      <3>2. jar'[b].totp_pending = q
        BY <2>1, <2>a, <3>1, HistoryOfJar DEF SetPassword
      <3> HIDE DEF p
      <3>3. /\ q.facts.replaced /\ q.age = p.age /\ q.facts.since = p.facts.since
            /\ q.facts.late = p.facts.late
        BY <2>a DEF Pending, SignInFacts
      <3>4. p.age \in Ages /\ p.facts.replaced \in BOOLEAN
        BY <2>a DEF Pending, SignInFacts
      <3> HIDE DEF q
      <3>5. q.facts.late \/ q.facts.since <= q.age
        BY <2>a, <3>3, <3>4, SignInAssumption DEF PendingHistory, Ages
      <3> QED
        BY <3>2, <3>3, <3>5 DEF PendingHistory
    <2>2. CASE p.user_id # u
      <3>1. jar'[b] = jar[b]
        BY <2>2 DEF SetPassword
      <3> QED
        BY <2>a, <3>1
    <2> QED
      BY <2>1, <2>2
  <1>4. OnIsOn'
    BY <1>2 DEF OnIsOn, SetPassword
  <1> QED
    BY <1>1, <1>2, <1>3, <1>4 DEF HistoryInv

\* 2FA that is turned off was not on all along.
LEMMA SwitchHistory ==
    ASSUME TypeInv, HistoryInv, NEW u \in Users, EnableTOTP(u) \/ DisableTOTP(u)
    PROVE  HistoryInv'
  <1>1. CASE EnableTOTP(u)
    BY <1>1 DEF EnableTOTP, TypeInv, HistoryInv, OnIsOn
  <1>2. CASE DisableTOTP(u)
    <2>1. ASSUME NEW r \in Tabs
          PROVE  /\ TabHistory(tab'[r])
                 /\ tab'[r].facts.on => /\ tab'[r].user_id \in Users
                                        /\ totp'[tab'[r].user_id]
      <3>a. GoodTab(tab[r]) /\ tab[r].facts \in SignInFacts /\ TabHistory(tab[r])
        BY DEF TypeInv, HistoryInv, Tab
      <3>1. CASE tab[r].user_id = u
        <4> DEFINE f == [tab[r].facts EXCEPT !.on = FALSE]
        <4>1. tab'[r].pc = tab[r].pc /\ tab'[r].facts = f
          BY <1>2, <3>1, <3>a, HistoryOfTab DEF DisableTOTP
        <4>2. /\ ~f.on /\ f.via = tab[r].facts.via /\ f.late = tab[r].facts.late
              /\ f.replaced = tab[r].facts.replaced /\ f.since = tab[r].facts.since
          BY <3>a DEF SignInFacts
        <4> HIDE DEF f
        <4> QED
          BY <3>a, <4>1, <4>2 DEF TabHistory
      <3>2. CASE tab[r].user_id # u
        <4>1. tab'[r] = tab[r]
          BY <1>2, <3>2 DEF DisableTOTP
        <4> QED
          BY <1>2, <3>a, <3>2, <4>1 DEF HistoryInv, OnIsOn, DisableTOTP, TypeInv
      <3> QED
        BY <3>1, <3>2
    <2>2. OnIsOn'
      BY <2>1 DEF OnIsOn
    <2> QED
      BY <1>2, <2>1, <2>2 DEF HistoryInv, DisableTOTP
  <1> QED
    BY <1>1, <1>2

\* A request fails.
LEMMA AbortHistory ==
    ASSUME TypeInv, HistoryInv, NEW r \in Tabs, Abort(r)
    PROVE  HistoryInv'
  <1>1. PICK c \in {Cookies(r), ErrorCookies(r)} : SetCookies(r, c)
    BY DEF Abort
  <1>2. c.totp_pending = Cookies(r).totp_pending
    BY CeremonyApart DEF ErrorCookies
  <1>3. \A b \in Browsers : PendingHistory(jar'[b].totp_pending)
    BY <1>1, <1>2, OneJarHistory
  <1>4. (\A q \in Tabs : TabHistory(tab'[q])) /\ OnIsOn'
    BY EndHistory DEF Abort
  <1> QED
    BY <1>3, <1>4 DEF HistoryInv, Abort

\* The change of a password and the cookie that does not know of it grow older
\* together.
LEMMA TickHistory == TypeInv /\ HistoryInv /\ Tick => HistoryInv'
  <1> SUFFICES ASSUME TypeInv, HistoryInv, Tick PROVE HistoryInv'
    OBVIOUS
  <1>1. ASSUME NEW b \in Browsers
        PROVE  PendingHistory(jar'[b].totp_pending)
    <2> DEFINE p == jar[b].totp_pending
    <2>1. jar[b] \in Jar /\ p \in Pending /\ PendingHistory(p)
      BY DEF TypeInv, HistoryInv, Jar
    <2>2. jar'[b] = [jar[b] EXCEPT !.totp_pending = AfterTick(p)]
      BY DEF Tick
    <2>3. jar'[b].totp_pending = AfterTick(p)
      <3> HIDE DEF p
      <3> QED
        BY <2>1, <2>2 DEF Jar
    <2> HIDE DEF p
    <2>4. CASE p = NoPending
      BY <2>1, <2>3, <2>4, AfterTickType
    <2>5. CASE p # NoPending
      <3> DEFINE q == AfterTick(p)
      <3>1. /\ q.age = Older(p.age)
            /\ q.facts.replaced = p.facts.replaced
            /\ q.facts.late = p.facts.late
            /\ q.facts.since = IF p.facts.replaced THEN Older(p.facts.since) ELSE 0
        BY <2>1, <2>5, AfterTickType
      <3>2. p.age \in Ages /\ p.facts.since \in Ages
        BY <2>1 DEF Pending, SignInFacts
      <3> HIDE DEF q
      <3>3. PendingHistory(q)
        BY <2>1, <3>1, <3>2, OlderType DEF PendingHistory
      <3> QED
        BY <2>3, <3>3 DEF q
    <2> QED
      BY <2>4, <2>5
  <1> QED
    BY <1>1 DEF HistoryInv, OnIsOn, Tick

\* Removing a passkey leaves the history alone.
LEMMA DeletePasskeyHistory ==
    ASSUME HistoryInv, NEW c \in Passkeys, DeletePasskey(c)
    PROVE  HistoryInv'
  BY DEF HistoryInv, OnIsOn, DeletePasskey

\* Nobody has signed in.
LEMMA InitHistory == Init => HistoryInv
  <1> SUFFICES ASSUME Init PROVE HistoryInv
    OBVIOUS
  <1>1. NoCookies.totp_pending = NoPending
    BY DEF NoCookies
  <1> QED
    BY <1>1, EmptyHistory DEF Init, HistoryInv, OnIsOn

\* Every step keeps the history.
LEMMA NextHistory == TypeInv /\ HistoryInv /\ [Next]_vars => HistoryInv'
  <1> SUFFICES ASSUME TypeInv, HistoryInv, [Next]_vars PROVE HistoryInv'
    OBVIOUS
  <1>1. CASE UNCHANGED vars
    BY <1>1 DEF vars, HistoryInv, OnIsOn
  <1>2. CASE Next
    <2>1. site.totp \subseteq Users
      BY SignInAssumption DEF TypeInv
    <2> QED
      BY <1>2, <2>1, LoginHistory, CheckTOTPHistory, ChallengeHistory, VerifyCodeHistory,
         CreateSessionHistory, LogoutHistory, RegistrationHistory, PasskeyHistory,
         AbortHistory, DeletePasskeyHistory, SetPasswordHistory, SwitchHistory, TickHistory
      DEF Next
  <1> QED
    BY <1>1, <1>2

\* Reachable states have the history.
LEMMA HistoryHolds == Spec => []HistoryInv
  BY TypeInvHolds, InitHistory, NextHistory, PTL DEF Spec

\* A user whose 2FA was on from the beginning of a sign-in to its end gets a session
\* only with a code or a passkey, whatever other tabs and 2FA switches come between
\* the check of the password, the check of 2FA and the new session.
THEOREM SecondFactorIsAsked == Spec => []SecondFactorAsked
  <1>1. TypeInv /\ HistoryInv => SecondFactorAsked
    BY DEF TypeInv, HistoryInv, SessionHistory, SecondFactorAsked
  <1> QED
    BY <1>1, TypeInvHolds, HistoryHolds, PTL

\* The pending cookie, which the server cannot revoke, lets a replaced password open
\* a session for no longer than its time to live after the change, for any lifetime,
\* unless the login was answered only after the change.
THEOREM OldPasswordsDoRunOut == Spec => []OldPasswordsRunOut
  <1>1. TypeInv /\ HistoryInv => OldPasswordsRunOut
    BY DEF TypeInv, HistoryInv, SessionHistory, OldPasswordsRunOut
  <1> QED
    BY <1>1, TypeInvHolds, HistoryHolds, PTL

-----------------------------------------------------------------------------
(* Passkeys.  The authenticator keeps the handle of the options; the row   *)
(* gets the user of the session that finishes the registration.            *)

\* A tab that has made a credential has it for the user it registers.
TabKeys ==
    \A r \in Tabs : \/ tab[r].pc = "create" /\ tab[r].key # None
                    \/ tab[r].pc = "insert"
                    => keys[tab[r].key].handle = tab[r].user_id

\* The ceremony in the cookie of a registering tab is for its user.
TabCeremonies ==
    \A r \in Tabs : tab[r].pc = "create" /\ Cookies(r).passkey_register.challenge = r
                    => Cookies(r).passkey_register.user_id = tab[r].user_id

KeyInv == TabKeys /\ TabCeremonies /\ PasskeysMatchTheirUsers

\* No passkey, no registration.
LEMMA InitKeys == Init => KeyInv
  <1> SUFFICES ASSUME Init PROVE KeyInv
    OBVIOUS
  <1>1. TabKeys /\ TabCeremonies
    BY DEF Init, TabKeys, TabCeremonies, NoTab
  <1>2. PasskeysMatchTheirUsers
    BY DEF Init, PasskeysMatchTheirUsers
  <1> QED
    BY <1>1, <1>2 DEF KeyInv

\* A tab that begins no registration, keeps to the one it is in or gives it up
\* stays right, as long as the handles stay and the cookies of registrations stay
\* or are cleared.
LEMMA TabsStayRight ==
    ASSUME TypeInv, KeyInv, site' = site, keys' = keys,
           \A q \in Tabs : \/ tab'[q].pc \notin {"create", "insert"}
                           \/ /\ tab'[q].pc = tab[q].pc /\ tab'[q].key = tab[q].key
                              /\ tab'[q].user_id = tab[q].user_id,
           \A b \in Browsers : \/ jar'[b].passkey_register = jar[b].passkey_register
                               \/ jar'[b].passkey_register = NoCeremony
    PROVE  TabKeys' /\ TabCeremonies'
  <1>1. TabKeys'
    BY DEF KeyInv, TabKeys
  <1>2. \A q \in Tabs : NoCeremony.challenge # q
    BY NoneAssumption DEF NoCeremony
  <1>3. \A q \in Tabs : site.browser[q] \in Browsers
    BY TabsHaveBrowsers
  <1>4. TabCeremonies'
    BY <1>2, <1>3 DEF KeyInv, TabCeremonies, Cookies
  <1> QED
    BY <1>1, <1>4

\* An answer keeps the cookie of the registration or clears it.
LEMMA RegistrationCookie ==
    ASSUME TypeInv, NEW r \in Tabs, NEW c, SetCookies(r, c),
           c.passkey_register \in {Cookies(r).passkey_register, NoCeremony}
    PROVE  \A b \in Browsers : \/ jar'[b].passkey_register = jar[b].passkey_register
                               \/ jar'[b].passkey_register = NoCeremony
  BY TabsHaveBrowsers DEF TypeInv, SetCookies, Cookies

\* The cookies the answers set.
LEMMA RegistrationApart ==
    ASSUME TypeInv, NEW r \in Tabs, NEW m, NEW s
    PROVE  /\ [Cookies(r) EXCEPT !.totp_pending = m].passkey_register
                = Cookies(r).passkey_register
           /\ [Cookies(r) EXCEPT !.passkey_login = m].passkey_register
                = Cookies(r).passkey_register
           /\ [Cookies(r) EXCEPT !.passkey_register = m].passkey_register = m
           /\ SessionCookies(r, s).passkey_register = Cookies(r).passkey_register
           /\ ErrorCookies(r).passkey_register
                \in {Cookies(r).passkey_register, NoCeremony}
  <1>1. Cookies(r) \in Jar
    BY TabsHaveBrowsers DEF GoodJar
  <1> QED
    BY <1>1 DEF Jar, SessionCookies, ErrorCookies

\* An answer that clears the cookie of the registration.
LEMMA RegistrationCleared ==
    ASSUME TypeInv, NEW r \in Tabs,
           SetCookies(r, [Cookies(r) EXCEPT !.passkey_register = NoCeremony])
    PROVE  \A b \in Browsers : \/ jar'[b].passkey_register = jar[b].passkey_register
                               \/ jar'[b].passkey_register = NoCeremony
  <1> DEFINE c == [Cookies(r) EXCEPT !.passkey_register = NoCeremony]
  <1>1. c.passkey_register = NoCeremony
    BY RegistrationApart
  <1>2. SetCookies(r, c)
    OBVIOUS
  <1> HIDE DEF c
  <1> QED
    BY <1>1, <1>2, RegistrationCookie

\* The steps of a sign-in or a sign-out leave the registrations alone.
LEMMA SignInKeys ==
    ASSUME TypeInv, KeyInv, NEW r \in Tabs,
           \/ \E u \in Users : Login(r, u)
           \/ CheckTOTP(r)
           \/ Challenge(r)
           \/ VerifyCode(r)
           \/ CreateSession(r)
           \/ passkeyLoginBegin(r)
           \/ passkeyLoginFinish(r)
           \/ Abort(r)
    PROVE  KeyInv'
  <1>1. /\ site' = site /\ keys' = keys /\ credentials' = credentials
    BY DEF Login, CheckTOTP, Challenge, VerifyCode, CreateSession, passkeyLoginBegin,
           passkeyLoginFinish, Abort
  <1>2. \A q \in Tabs : \/ tab'[q].pc \notin {"create", "insert"}
                        \/ tab'[q] = tab[q]
    <2>1. tab[r] \in Tab
      BY DEF TypeInv
    <2>2. tab'[r].pc \notin {"create", "insert"}
      <3>1. ASSUME NEW u \in Users, Login(r, u) PROVE tab'[r].pc = "totp"
        BY <3>1 DEF Login, NoTab, TypeInv
      <3>2. CASE CheckTOTP(r)
        BY <3>2, <2>1 DEF CheckTOTP, End, NoTab, TypeInv, Tab
      <3>3. CASE Challenge(r)
        BY <3>3 DEF Challenge, NoTab, TypeInv
      <3>4. CASE VerifyCode(r)
        BY <3>4, <2>1 DEF VerifyCode, TypeInv, Tab
      <3>5. CASE CreateSession(r) \/ Abort(r)
        BY <3>5 DEF CreateSession, Abort, End, NoTab, TypeInv
      <3>6. CASE passkeyLoginBegin(r)
        BY <3>6 DEF passkeyLoginBegin, NoTab, TypeInv
      <3>7. CASE passkeyLoginFinish(r)
        <4> DEFINE c == tab[r].key
                   u == keys[c].handle
                   f == [NoFacts EXCEPT !.via = "passkey", !.on = totp[u]]
                   t == [NoTab EXCEPT !.pc = "update", !.user_id = u, !.key = c,
                           !.count = tab[r].count, !.stored = credentials[c].sign_count,
                           !.facts = f]
        <4>1. tab'[r] = t \/ tab'[r] = NoTab
          BY <3>7 DEF passkeyLoginFinish, End, TypeInv
        <4>2. t.pc = "update"
          BY DEF NoTab
        <4> HIDE DEF t
        <4> QED
          BY <4>1, <4>2 DEF NoTab
      <3> QED
        BY <3>1, <3>2, <3>3, <3>4, <3>5, <3>6, <3>7
    <2>3. \A q \in Tabs \ {r} : tab'[q] = tab[q]
      BY DEF Login, CheckTOTP, Challenge, VerifyCode, CreateSession, passkeyLoginBegin,
             passkeyLoginFinish, Abort, End, TypeInv
    <2> QED
      BY <2>2, <2>3
  <1>3. \/ jar' = jar
        \/ \E c : /\ SetCookies(r, c)
                  /\ c.passkey_register \in {Cookies(r).passkey_register, NoCeremony}
    <2>1. CASE \/ \E u \in Users : Login(r, u)
               \/ Challenge(r) \/ VerifyCode(r)
      BY <2>1 DEF Login, Challenge, VerifyCode
    <2>2. CASE CheckTOTP(r)
      <3> DEFINE f == [NoFacts EXCEPT !.replaced = tab[r].facts.replaced,
                                      !.late = tab[r].facts.replaced]
                 p == [user_id |-> tab[r].user_id, age |-> 0, facts |-> f]
                 c == [Cookies(r) EXCEPT !.totp_pending = p]
      <3>1. jar' = jar \/ SetCookies(r, c)
        BY <2>2 DEF CheckTOTP, setTOTPPendingCookie
      <3> HIDE DEF p
      <3>2. c.passkey_register = Cookies(r).passkey_register
        BY RegistrationApart
      <3> QED
        BY <3>1, <3>2
    <2>3. CASE CreateSession(r)
      BY <2>3, RegistrationApart DEF CreateSession
    <2>4. CASE passkeyLoginBegin(r)
      <3> DEFINE c == [Cookies(r) EXCEPT !.passkey_login = [user_id |-> None, challenge |-> r]]
      <3>1. SetCookies(r, c)
        BY <2>4 DEF passkeyLoginBegin
      <3>2. c.passkey_register = Cookies(r).passkey_register
        BY RegistrationApart
      <3> QED
        BY <3>1, <3>2
    <2>5. CASE passkeyLoginFinish(r)
      BY <2>5, RegistrationApart DEF passkeyLoginFinish
    <2>6. CASE Abort(r)
      BY <2>6, RegistrationApart DEF Abort
    <2> QED
      BY <2>1, <2>2, <2>3, <2>4, <2>5, <2>6
  <1>4. \A b \in Browsers : \/ jar'[b].passkey_register = jar[b].passkey_register
                            \/ jar'[b].passkey_register = NoCeremony
    BY <1>3, RegistrationCookie
  <1>5. TabKeys' /\ TabCeremonies'
    BY <1>1, <1>2, <1>4, TabsStayRight
  <1> QED
    BY <1>1, <1>5 DEF KeyInv, PasskeysMatchTheirUsers

\* A registration begins: its cookie and its tab are of the same user, and the
\* browser's other registrations have lost theirs.
LEMMA RegisterBeginKeys ==
    ASSUME TypeInv, KeyInv, NEW r \in Tabs, passkeyRegisterBegin(r)
    PROVE  KeyInv'
  <1> DEFINE u == CurrentUser(r)
             m == [user_id |-> u, challenge |-> r]
             c == [Cookies(r) EXCEPT !.passkey_register = m]
             t == [NoTab EXCEPT !.pc = "create", !.user_id = u]
  <1>1. /\ tab' = [tab EXCEPT ![r] = t]
        /\ jar' = [jar EXCEPT ![site.browser[r]] = c]
        /\ keys' = keys /\ credentials' = credentials /\ site' = site
    BY DEF passkeyRegisterBegin, SetCookies
  <1> HIDE DEF u
  <1>2. t.pc = "create" /\ t.key = None /\ t.user_id = u
    BY DEF NoTab
  <1>3. c.passkey_register = m
    BY RegistrationApart
  <1> HIDE DEF c, t
  <1>4. TabKeys'
    BY <1>1, <1>2 DEF TypeInv, KeyInv, TabKeys
  <1>5. TabCeremonies'
    <2> SUFFICES ASSUME NEW q \in Tabs, tab'[q].pc = "create",
                        jar'[site.browser[q]].passkey_register.challenge = q
                 PROVE  jar'[site.browser[q]].passkey_register.user_id = tab'[q].user_id
      BY <1>1 DEF TabCeremonies, Cookies
    <2>1. CASE q = r
      BY <2>1, <1>1, <1>2, <1>3, TabsHaveBrowsers DEF TypeInv
    <2>2. CASE q # r
      <3>1. site.browser[q] # site.browser[r]
        BY <2>2, <1>1, <1>3, TabsHaveBrowsers DEF TypeInv
      <3> QED
        BY <2>2, <3>1, <1>1, TabsHaveBrowsers DEF TypeInv, KeyInv, TabCeremonies, Cookies
    <2> QED
      BY <2>1, <2>2
  <1> QED
    BY <1>1, <1>4, <1>5 DEF KeyInv, PasskeysMatchTheirUsers

\* A credential just made has the user of its tab, and no tab or row had it.
LEMMA MakeCredentialKeys ==
    ASSUME TypeInv, KeyInv, NEW r \in Tabs, NEW c \in Passkeys, MakeCredential(r, c)
    PROVE  KeyInv'
  <1> DEFINE t == [tab[r] EXCEPT !.key = c]
             k == [keys[c] EXCEPT !.handle = tab[r].user_id]
  <1>1. /\ tab' = [tab EXCEPT ![r] = t] /\ keys' = [keys EXCEPT ![c] = k]
        /\ jar' = jar /\ site' = site /\ credentials' = credentials
        /\ keys[c].handle = None
    BY DEF TypeInv, MakeCredential
  <1>2. k.handle = tab[r].user_id
    BY DEF TypeInv, Key
  <1>3. t.pc = "create" /\ t.key = c /\ t.user_id = tab[r].user_id /\ tab[r].pc = "create"
    BY DEF TypeInv, MakeCredential, Tab
  <1> HIDE DEF t, k
  <1>4. ASSUME NEW q \in Tabs, tab[q].pc \in {"create", "insert"}, tab[q].key = c
        PROVE  FALSE
    <2>1. tab[q].user_id \in Users /\ c # None
      BY <1>4, NoneAssumption DEF TypeInv, GoodTab
    <2>2. keys[c].handle = tab[q].user_id
      BY <1>4, <2>1 DEF KeyInv, TabKeys
    <2> QED
      BY <1>1, <2>1, <2>2, NoneAssumption
  <1>5. TabKeys'
    <2> SUFFICES ASSUME NEW q \in Tabs,
                        \/ tab'[q].pc = "create" /\ tab'[q].key # None
                        \/ tab'[q].pc = "insert"
                 PROVE  keys'[tab'[q].key].handle = tab'[q].user_id
      BY DEF TabKeys
    <2>1. CASE q = r
      BY <2>1, <1>1, <1>2, <1>3 DEF TypeInv
    <2>2. CASE q # r
      <3>1. tab'[q] = tab[q] /\ tab[q].key \in Passkeys
        BY <2>2, <1>1 DEF TypeInv, GoodTab, Tab
      <3> QED
        BY <3>1, <1>1, <1>4 DEF TypeInv, KeyInv, TabKeys
    <2> QED
      BY <2>1, <2>2
  <1>6. TabCeremonies'
    BY <1>1, <1>3 DEF TypeInv, KeyInv, TabCeremonies, Cookies
  <1>7. credentials[c] = NoCredential
    BY <1>1 DEF TypeInv, KeyInv, PasskeysMatchTheirUsers, GoodCredential
  <1>8. PasskeysMatchTheirUsers'
    BY <1>1, <1>7 DEF TypeInv, KeyInv, PasskeysMatchTheirUsers
  <1> QED
    BY <1>5, <1>6, <1>8 DEF KeyInv

\* The registration is finished for the user it was begun for, whoever has signed in
\* since.
LEMMA RegisterFinishKeys ==
    ASSUME TypeInv, KeyInv, NEW r \in Tabs, passkeyRegisterFinish(r)
    PROVE  KeyInv'
  <1>a. tab[r] \in Tab /\ tab[r].pc = "create" /\ tab[r].key # None
    BY DEF TypeInv, passkeyRegisterFinish
  <1>b. keys' = keys /\ credentials' = credentials /\ site' = site
    BY DEF passkeyRegisterFinish
  <1>1. CASE /\ CreateCredential(r)
             /\ tab' = [tab EXCEPT ![r].pc = "insert", ![r].user_id = CurrentUser(r)]
             /\ UNCHANGED jar
    <2> DEFINE t == [tab[r] EXCEPT !.pc = "insert", !.user_id = CurrentUser(r)]
    <2>1. t.pc = "insert" /\ t.key = tab[r].key /\ t.user_id = CurrentUser(r)
      BY <1>a DEF Tab
    <2>2. tab' = [tab EXCEPT ![r] = t]
      BY <1>1 DEF TypeInv
    <2> HIDE DEF t
    <2>3. CurrentUser(r) = tab[r].user_id
      BY <1>1, <1>a DEF KeyInv, TabCeremonies, CreateCredential
    <2>4. keys[tab[r].key].handle = tab[r].user_id
      BY <1>a DEF KeyInv, TabKeys
    <2>5. TabKeys'
      BY <1>b, <2>1, <2>2, <2>3, <2>4 DEF TypeInv, KeyInv, TabKeys
    <2>6. TabCeremonies'
      BY <1>1, <1>b, <2>1, <2>2 DEF TypeInv, KeyInv, TabCeremonies, Cookies
    <2> QED
      BY <1>b, <2>5, <2>6 DEF KeyInv, PasskeysMatchTheirUsers
  <1>2. CASE /\ SetCookies(r, [Cookies(r) EXCEPT !.passkey_register = NoCeremony])
             /\ End(r)
    <2>1. \A b \in Browsers : \/ jar'[b].passkey_register = jar[b].passkey_register
                              \/ jar'[b].passkey_register = NoCeremony
      BY <1>2, RegistrationCleared
    <2>2. \A q \in Tabs : tab'[q].pc = "idle" \/ tab'[q] = tab[q]
      BY <1>2 DEF End, NoTab, TypeInv
    <2>3. TabKeys' /\ TabCeremonies'
      BY <1>b, <2>1, <2>2, TabsStayRight
    <2> QED
      BY <1>b, <2>3 DEF KeyInv, PasskeysMatchTheirUsers
  <1> QED
    BY <1>1, <1>2 DEF passkeyRegisterFinish

\* The row is stored for the user whose handle the authenticator keeps.
LEMMA CreateCredentialKeys ==
    ASSUME TypeInv, KeyInv, NEW r \in Tabs, CreateWebAuthnCredential(r)
    PROVE  KeyInv'
  <1>1. \A b \in Browsers : \/ jar'[b].passkey_register = jar[b].passkey_register
                            \/ jar'[b].passkey_register = NoCeremony
    BY RegistrationCleared DEF CreateWebAuthnCredential
  <1>2. \A q \in Tabs : tab'[q].pc = "idle" \/ tab'[q] = tab[q]
    BY DEF End, NoTab, TypeInv, CreateWebAuthnCredential
  <1>3. TabKeys' /\ TabCeremonies'
    BY <1>1, <1>2, TabsStayRight DEF CreateWebAuthnCredential
  <1>4. PasskeysMatchTheirUsers'
    BY DEF TypeInv, KeyInv, TabKeys, PasskeysMatchTheirUsers, CreateWebAuthnCredential
  <1> QED
    BY <1>3, <1>4 DEF KeyInv

\* Signing changes a counter of the authenticator and no handle.
LEMMA SignKeys ==
    ASSUME TypeInv, KeyInv, NEW r \in Tabs, NEW c \in Passkeys, Sign(r, c)
    PROVE  KeyInv'
  <1>1. \A d \in Passkeys : keys'[d].handle = keys[d].handle
    BY DEF TypeInv, Sign, Key
  <1>2. tab'[r].pc = "signed" /\ \A q \in Tabs \ {r} : tab'[q] = tab[q]
    BY DEF TypeInv, Sign, Tab
  <1>3. TabKeys'
    BY <1>1, <1>2 DEF TypeInv, GoodTab, Tab, KeyInv, TabKeys
  <1>4. TabCeremonies'
    BY <1>2 DEF KeyInv, TabCeremonies, Cookies, Sign
  <1>5. PasskeysMatchTheirUsers'
    BY <1>1 DEF KeyInv, PasskeysMatchTheirUsers, Sign
  <1> QED
    BY <1>3, <1>4, <1>5 DEF KeyInv

\* Storing a counter changes no user of a row.
LEMMA UpdateKeys ==
    ASSUME TypeInv, KeyInv, NEW r \in Tabs, UpdateWebAuthnCredentialOnLogin(r)
    PROVE  KeyInv'
  <1> DEFINE n == SignCount(tab[r].stored, tab[r].count)
  <1>1. tab[r].key \in Passkeys /\ n \in 0..MaxCount
    BY SignCountType DEF TypeInv, UpdateWebAuthnCredentialOnLogin, GoodTab, Tab
  <1>2. credentials' = StoreCount(tab[r].key, n)
    BY DEF UpdateWebAuthnCredentialOnLogin
  <1> HIDE DEF n
  <1>3. \A c \in Passkeys : /\ credentials'[c].user_id = credentials[c].user_id
                            /\ credentials[c] = NoCredential => credentials'[c] = NoCredential
    <2>1. \A c \in Passkeys : /\ GoodCredential(credentials'[c])
                              /\ credentials'[c].user_id = credentials[c].user_id
      BY <1>1, <1>2, StoreCountType
    <2> QED
      BY <2>1 DEF GoodCredential, NoCredential
  <1>4. PasskeysMatchTheirUsers'
    BY <1>3 DEF KeyInv, PasskeysMatchTheirUsers, UpdateWebAuthnCredentialOnLogin
  <1>5. \A q \in Tabs : tab'[q].pc = "session" \/ tab'[q] = tab[q]
    BY DEF TypeInv, UpdateWebAuthnCredentialOnLogin, Tab
  <1>6. TabKeys' /\ TabCeremonies'
    BY <1>5, TabsStayRight DEF UpdateWebAuthnCredentialOnLogin
  <1> QED
    BY <1>4, <1>6 DEF KeyInv

\* What happens to the accounts leaves the registrations alone.
LEMMA AccountKeys ==
    ASSUME TypeInv, KeyInv,
           \/ \E b \in Browsers : Logout(b)
           \/ \E c \in Passkeys : DeletePasskey(c)
           \/ \E u \in Users : SetPassword(u) \/ EnableTOTP(u) \/ DisableTOTP(u)
           \/ Tick
    PROVE  KeyInv'
  <1>1. site' = site /\ keys' = keys
    BY DEF Logout, DeletePasskey, SetPassword, EnableTOTP, DisableTOTP, Tick
  <1>2. \A q \in Tabs : /\ tab'[q].pc = tab[q].pc /\ tab'[q].key = tab[q].key
                        /\ tab'[q].user_id = tab[q].user_id
    <2>1. CASE \/ \E b \in Browsers : Logout(b)
               \/ \E c \in Passkeys : DeletePasskey(c)
               \/ \E u \in Users : EnableTOTP(u)
               \/ Tick
      BY <2>1 DEF Logout, DeletePasskey, EnableTOTP, Tick
    <2>2. CASE \E u \in Users : SetPassword(u)
      BY <2>2, HistoryOfTab DEF TypeInv, SetPassword
    <2>3. CASE \E u \in Users : DisableTOTP(u)
      BY <2>3, HistoryOfTab DEF TypeInv, DisableTOTP
    <2> QED
      BY <2>1, <2>2, <2>3
  <1>3. \A b \in Browsers : jar'[b].passkey_register = jar[b].passkey_register
    <2> SUFFICES ASSUME NEW b \in Browsers
                 PROVE  jar'[b].passkey_register = jar[b].passkey_register
      OBVIOUS
    <2>a. GoodJar(jar[b]) /\ jar[b] \in Jar
      BY DEF TypeInv
    <2>1. CASE \/ \E c \in Passkeys : DeletePasskey(c)
               \/ \E u \in Users : EnableTOTP(u) \/ DisableTOTP(u)
      BY <2>1 DEF DeletePasskey, EnableTOTP, DisableTOTP
    <2>2. ASSUME NEW a \in Browsers, Logout(a)
          PROVE  jar'[b].passkey_register = jar[b].passkey_register
      BY <2>2, <2>a DEF TypeInv, Logout, Jar
    <2>3. ASSUME NEW u \in Users, SetPassword(u)
          PROVE  jar'[b].passkey_register = jar[b].passkey_register
      <3>1. CASE jar[b].totp_pending.user_id = u
        <4>1. jar[b].totp_pending # NoPending
          BY <3>1, NoneAssumption DEF NoPending
        <4> QED
          BY <2>3, <2>a, <3>1, <4>1, HistoryOfJar DEF SetPassword
      <3>2. CASE jar[b].totp_pending.user_id # u
        BY <2>3, <3>2 DEF SetPassword
      <3> QED
        BY <3>1, <3>2
    <2>4. CASE Tick
      <3> DEFINE p == AfterTick(jar[b].totp_pending)
      <3>1. jar'[b] = [jar[b] EXCEPT !.totp_pending = p]
        BY <2>4 DEF Tick
      <3> HIDE DEF p
      <3> QED
        BY <2>a, <3>1 DEF Jar
    <2> QED
      BY <2>1, <2>2, <2>3, <2>4
  <1>4. TabKeys' /\ TabCeremonies'
    BY <1>1, <1>2, <1>3, TabsStayRight
  <1>5. \A c \in Passkeys : credentials'[c] = credentials[c] \/ credentials'[c] = NoCredential
    BY DEF TypeInv, Logout, DeletePasskey, SetPassword, EnableTOTP, DisableTOTP, Tick
  <1>6. PasskeysMatchTheirUsers'
    BY <1>1, <1>5 DEF KeyInv, PasskeysMatchTheirUsers
  <1> QED
    BY <1>4, <1>6 DEF KeyInv

\* Every step keeps the registrations right.
LEMMA NextKeys == TypeInv /\ KeyInv /\ [Next]_vars => KeyInv'
  <1> SUFFICES ASSUME TypeInv, KeyInv, [Next]_vars PROVE KeyInv'
    OBVIOUS
  <1>1. CASE UNCHANGED vars
    BY <1>1 DEF vars, KeyInv, TabKeys, TabCeremonies, Cookies, PasskeysMatchTheirUsers
  <1>2. CASE Next
    <2>1. site.totp \subseteq Users
      BY SignInAssumption DEF TypeInv
    <2> QED
      BY <1>2, <2>1, SignInKeys, RegisterBeginKeys, MakeCredentialKeys,
         RegisterFinishKeys, CreateCredentialKeys, SignKeys, UpdateKeys, AccountKeys
      DEF Next
  <1> QED
    BY <1>1, <1>2

\* A stored passkey belongs to the user whose handle the authenticator keeps for it,
\* for any number of users who share a browser and its cookie between the two halves
\* of their registrations.
THEOREM PasskeysDoMatch == Spec => []PasskeysMatchTheirUsers
  <1>1. Spec => []KeyInv
    BY TypeInvHolds, InitKeys, NextKeys, PTL DEF Spec
  <1>2. KeyInv => PasskeysMatchTheirUsers
    BY DEF KeyInv
  <1> QED
    BY <1>1, <1>2, PTL

-----------------------------------------------------------------------------
(* The counters of the passkeys.                                           *)

\* A step lowers a stored counter only when it stores that of a sign-in that had
\* read a lower one.
LEMMA CounterFalls ==
    ASSUME TypeInv, Next, NEW c \in Passkeys,
           credentials[c] # NoCredential, credentials'[c] # NoCredential,
           credentials'[c].sign_count < credentials[c].sign_count
    PROVE  \E r \in Tabs : /\ tab[r].pc = "update" /\ tab[r].key = c
                           /\ tab[r].stored < credentials[c].sign_count
  <1>a. credentials[c].sign_count \in 0..MaxCount
    BY DEF TypeInv, Credential
  <1>1. CASE credentials' = credentials
    BY <1>1, <1>a
  <1>2. ASSUME NEW r \in Tabs, CreateWebAuthnCredential(r)
        PROVE  FALSE
    BY <1>2, <1>a DEF TypeInv, CreateWebAuthnCredential
  <1>3. ASSUME NEW d \in Passkeys, DeletePasskey(d)
        PROVE  FALSE
    BY <1>3, <1>a DEF TypeInv, DeletePasskey
  <1>4. ASSUME NEW r \in Tabs, UpdateWebAuthnCredentialOnLogin(r)
        PROVE  /\ tab[r].pc = "update" /\ tab[r].key = c
               /\ tab[r].stored < credentials[c].sign_count
    <2> DEFINE n == SignCount(tab[r].stored, tab[r].count)
    <2>1. /\ tab[r].key \in Passkeys /\ n \in 0..MaxCount
          /\ tab[r].stored \in 0..MaxCount /\ n >= tab[r].stored
      BY <1>4, SignCountType DEF TypeInv, UpdateWebAuthnCredentialOnLogin, GoodTab, Tab
    <2>2. credentials' = StoreCount(tab[r].key, n) /\ tab[r].pc = "update"
      BY <1>4 DEF UpdateWebAuthnCredentialOnLogin
    <2> HIDE DEF n
    <2>3. tab[r].key = c
      BY <1>a, <2>1, <2>2, StoreCountType
    <2>4. credentials'[c].sign_count = n
      BY <2>2, <2>3 DEF StoreCount, TypeInv, Credential
    <2> QED
      BY <1>a, <2>1, <2>2, <2>3, <2>4, SignInAssumption
  <1>5. \/ credentials' = credentials
        \/ \E r \in Tabs : CreateWebAuthnCredential(r) \/ UpdateWebAuthnCredentialOnLogin(r)
        \/ \E d \in Passkeys : DeletePasskey(d)
    BY DEF Next, Login, CheckTOTP, Challenge, VerifyCode, CreateSession, Logout,
           passkeyRegisterBegin, MakeCredential, passkeyRegisterFinish, passkeyLoginBegin,
           Sign, passkeyLoginFinish, Abort, SetPassword, EnableTOTP, DisableTOTP, Tick
  <1> QED
    BY <1>1, <1>2, <1>3, <1>4, <1>5

\* The stored counter of a passkey falls only when two sign-ins with it overlap and
\* the one that read it earlier writes it later.
THEOREM CountersFallInOverlap == Spec => CountersFallOnlyInOverlap
  <1> DEFINE Falls == \A c \in Passkeys :
                /\ credentials[c] # NoCredential /\ credentials'[c] # NoCredential
                /\ credentials'[c].sign_count < credentials[c].sign_count
                => \E r \in Tabs : /\ tab[r].pc = "update" /\ tab[r].key = c
                                   /\ tab[r].stored < credentials[c].sign_count
  <1>1. TypeInv /\ [Next]_vars => [Falls]_vars
    BY CounterFalls
  <1> HIDE DEF Falls
  <1>2. [][Falls]_vars => CountersFallOnlyInOverlap
    BY PTL DEF Falls, CountersFallOnlyInOverlap
  <1> QED
    BY <1>1, <1>2, TypeInvHolds, PTL DEF Spec

=============================================================================
