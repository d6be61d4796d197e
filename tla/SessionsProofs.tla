--------------------------- MODULE SessionsProofs ----------------------------
(***************************************************************************)
(* Sessions, for any logins, browsers and users: who is served as whom.    *)
(***************************************************************************)
EXTENDS Sessions, TLAPS

LEMMA SessionsInvInit == Init => SessionsInv
<1>. SUFFICES ASSUME Init PROVE SessionsInv
  OBVIOUS
<1>1. TypeOK
  BY DEF Init, TypeOK
<1>2. LoginPhases /\ OwnCookies /\ NobodyForACause
  BY LoginInputs DEF Init, LoginPhases, OwnCookies, NobodyForACause
<1> QED
  BY <1>1, <1>2 DEF SessionsInv

LEMMA SessionTypes ==
    ASSUME SessionsInv, [Next]_vars
    PROVE  TypeOK'
<1>. USE LoginInputs DEF SessionsInv, TypeOK, loginVars, browserVars, Go, Return
<1>1. ASSUME NEW l \in Login, StartLogin(l) PROVE TypeOK'
  BY <1>1 DEF StartLogin
<1>2. ASSUME NEW l \in Login, FindUser(l) PROVE TypeOK'
  BY <1>2 DEF FindUser
<1>3. ASSUME NEW l \in Login, LoginFails(l) PROVE TypeOK'
  BY <1>3 DEF LoginFails
<1>4. ASSUME NEW l \in Login, BeginPut(l) PROVE TypeOK'
  BY <1>4 DEF BeginPut
<1>5. ASSUME NEW l \in Login, Put(l) PROVE TypeOK'
  BY <1>5 DEF Put
<1>6. ASSUME NEW l \in Login, Cancel(l) PROVE TypeOK'
  BY <1>6 DEF Cancel
<1>7. ASSUME NEW l \in Login, AnswerResult(l) \/ AnswerTimeout(l) PROVE TypeOK'
  BY <1>7 DEF AnswerResult, AnswerTimeout, Answer, LoginPhases
<1>8. ASSUME NEW l \in Login, TakeCookie(l) PROVE TypeOK'
  BY <1>8 DEF TakeCookie
<1>9. ASSUME NEW b \in Browser, ClearCookie(b) PROVE TypeOK'
  BY <1>9 DEF ClearCookie
<1>10. ASSUME NEW b \in Browser, Request(b) PROVE TypeOK'
  BY <1>10 DEF Request
<1>11. ASSUME NEW b \in Browser, LookUp(b) PROVE TypeOK'
  <2>1. sessions[sent[b]] \in User \cup {Nobody}
    BY <1>11 DEF LookUp, OwnCookies
  <2> QED
    BY <1>11, <2>1 DEF LookUp
<1>12. ASSUME NEW b \in Browser, Done(b) PROVE TypeOK'
  BY <1>12 DEF Done, Over
<1>13. CASE Restart
  BY <1>13 DEF Restart, Over
<1>14. CASE UNCHANGED vars
  BY <1>14 DEF vars
<1> QED
  BY <1>1, <1>2, <1>3, <1>4, <1>5, <1>6, <1>7, <1>8, <1>9, <1>10, <1>11, <1>12,
     <1>13, <1>14 DEF Next, LoginStep, BrowserStep

LEMMA PhasesStep ==
    ASSUME SessionsInv, [Next]_vars
    PROVE  LoginPhases'
<1>. USE LoginInputs DEF SessionsInv, TypeOK, loginVars, Go, Return, LoginPhases,
                         Known, Made
<1>1. ASSUME NEW l \in Login, StartLogin(l) PROVE LoginPhases'
  BY <1>1 DEF StartLogin
<1>2. ASSUME NEW l \in Login, FindUser(l) PROVE LoginPhases'
  BY <1>2 DEF FindUser
<1>3. ASSUME NEW l \in Login, LoginFails(l) PROVE LoginPhases'
  BY <1>3 DEF LoginFails
<1>4. ASSUME NEW l \in Login, BeginPut(l) PROVE LoginPhases'
  BY <1>4 DEF BeginPut
<1>5. ASSUME NEW l \in Login, Put(l) PROVE LoginPhases'
  BY <1>5 DEF Put
<1>6. ASSUME NEW l \in Login, Cancel(l) PROVE LoginPhases'
  BY <1>6 DEF Cancel
<1>7. ASSUME NEW l \in Login, AnswerResult(l) \/ AnswerTimeout(l)
      PROVE  LoginPhases'
  BY <1>7 DEF AnswerResult, AnswerTimeout, Answer
<1>8. ASSUME NEW l \in Login, TakeCookie(l) PROVE LoginPhases'
  BY <1>8 DEF TakeCookie
<1>9. ASSUME NEW b \in Browser, BrowserStep(b) PROVE LoginPhases'
  BY <1>9 DEF BrowserStep, ClearCookie, Request, LookUp, Done
<1>10. CASE Restart
  BY <1>10 DEF Restart
<1>11. CASE UNCHANGED vars
  BY <1>11 DEF vars
<1> QED
  BY <1>1, <1>2, <1>3, <1>4, <1>5, <1>6, <1>7, <1>8, <1>9, <1>10, <1>11
     DEF Next, LoginStep

LEMMA CookiesStep ==
    ASSUME SessionsInv, [Next]_vars
    PROVE  OwnCookies'
<1>. USE LoginInputs DEF SessionsInv, TypeOK, loginVars, browserVars, OwnCookies
\* An answer that was taken stays taken.
<1>1. \A l \in Login : handler[l] = "taken" => handler'[l] = "taken"
  <2>1. ASSUME NEW k \in Login, StartLogin(k) \/ AnswerResult(k)
                                   \/ AnswerTimeout(k) \/ TakeCookie(k)
        PROVE  \A l \in Login : handler[l] = "taken" => handler'[l] = "taken"
    BY <2>1 DEF StartLogin, AnswerResult, AnswerTimeout, Answer, TakeCookie
  <2>2. CASE Restart
    BY <2>2 DEF Restart
  <2> QED
    BY <2>1, <2>2 DEF Next, LoginStep, BrowserStep, FindUser, LoginFails, BeginPut,
         Put, Cancel, ClearCookie, Request, LookUp, Done, vars
<1>2. ASSUME NEW l \in Login, TakeCookie(l) PROVE OwnCookies'
  BY <1>1, <1>2 DEF TakeCookie
<1>3. ASSUME NEW b \in Browser, ClearCookie(b) PROVE OwnCookies'
  BY <1>1, <1>3 DEF ClearCookie
<1>4. ASSUME NEW b \in Browser, Request(b) PROVE OwnCookies'
  BY <1>1, <1>4 DEF Request
<1>5. ASSUME NEW b \in Browser, LookUp(b) PROVE OwnCookies'
  BY <1>1, <1>5 DEF LookUp
<1>6. ASSUME NEW S, Over(S) PROVE OwnCookies'
  BY <1>1, <1>6 DEF Over
<1>7. CASE UNCHANGED <<cookie, page, sent>>
  BY <1>1, <1>7
<1> QED
  BY <1>2, <1>3, <1>4, <1>5, <1>6, <1>7
     DEF Next, LoginStep, BrowserStep, StartLogin, FindUser, LoginFails, BeginPut,
         Put, Cancel, AnswerResult, AnswerTimeout, Answer, Done, Restart, vars

\* What was served stays true: nothing is un-forgotten and nothing un-raced
\* before the request is over.
LEMMA ServedStep ==
    ASSUME SessionsInv, [Next]_vars
    PROVE  NobodyForACause'
<1>. USE LoginInputs DEF SessionsInv, TypeOK, loginVars, browserVars, NobodyForACause
<1>1. forgotten \subseteq forgotten'
  BY DEF Next, LoginStep, BrowserStep, StartLogin, FindUser, LoginFails, BeginPut,
         Put, Cancel, AnswerResult, AnswerTimeout, Answer, TakeCookie, ClearCookie,
         Request, LookUp, Done, Restart, vars
<1>2. ASSUME NEW b \in Browser, LookUp(b) PROVE NobodyForACause'
  <2>. DEFINE l == sent[b]
  <2>1. l \in Login /\ By[l] = b /\ handler[l] = "taken"
    BY <1>2 DEF LookUp, OwnCookies
  <2>2. Known(l) /\ Made(l)
    BY <2>1 DEF LoginPhases
  <2>3. seen'[b] = sessions[l] \/ (seen'[b] = Nobody /\ b \in raced)
    BY <1>2 DEF LookUp
  <2>4. sessions[l] = Name[l] \/ (sessions[l] = Nobody /\ l \in forgotten)
    BY <2>1, <2>2 DEF LoginPhases, Made
  <2>5. ASSUME NEW c \in Browser, c # b
        PROVE  page'[c] = page[c] /\ seen'[c] = seen[c]
    BY <1>2, <2>5 DEF LookUp
  <2>6. UNCHANGED <<forgotten, sent, raced>>
    BY <1>2 DEF LookUp
  <2> QED
    BY <2>1, <2>2, <2>3, <2>4, <2>5, <2>6 DEF Known
<1>3. ASSUME NEW b \in Browser, Request(b) PROVE NobodyForACause'
  BY <1>3 DEF Request
<1>4. ASSUME NEW S, Over(S) PROVE NobodyForACause'
  BY <1>1, <1>4 DEF Over
<1>5. CASE raced \subseteq raced' /\ UNCHANGED <<page, sent, seen>>
  BY <1>1, <1>5
<1> QED
  BY <1>2, <1>3, <1>4, <1>5
     DEF Next, LoginStep, BrowserStep, StartLogin, FindUser, LoginFails, BeginPut,
         Put, Cancel, AnswerResult, AnswerTimeout, Answer, TakeCookie, ClearCookie,
         Done, Restart, vars

\* The inductive invariant: sessions and answers follow from results, results
\* from the steps of the goroutine, and browsers carry their own sessions.
THEOREM SessionsInvariance == Spec => []SessionsInv
<1>1. SessionsInv /\ [Next]_vars => SessionsInv'
  BY SessionTypes, PhasesStep, CookiesStep, ServedStep DEF SessionsInv
<1> QED
  BY SessionsInvInit, <1>1, PTL DEF Spec

\* A request that is served as a user is served as the one whose login its
\* cookie stems from.
THEOREM NobodyServedAsAnother == Spec => []ServedAsNoOther
<1>1. SessionsInv => ServedAsNoOther
  BY DEF SessionsInv, NobodyForACause, ServedAsNoOther
<1> QED
  BY <1>1, SessionsInvariance, PTL

\* A cookie stems from a login of its own browser that made a session.
THEOREM CookiesStayTrue == Spec => []CookiesAreTrue
<1>1. SessionsInv => CookiesAreTrue
  BY DEF SessionsInv, CookiesAreTrue, OwnCookies, LoginPhases, Known
<1> QED
  BY <1>1, SessionsInvariance, PTL

\* Only passwords with the hash of the source make sessions, and an error answered beside a session
\* means that the login was cut.
THEOREM SessionsStayKnown == Spec => []SessionsAreKnown
<1>1. SessionsInv => SessionsAreKnown
  BY DEF SessionsInv, SessionsAreKnown, LoginPhases, Known
<1> QED
  BY <1>1, SessionsInvariance, PTL

\* Sessions last until a restart.
THEOREM SessionsLast == Spec => SessionsStay
<1>1. SessionsInv /\ [Next]_vars =>
          [\A l \in Login : sessions[l] # Nobody /\ sessions'[l] # sessions[l] =>
               l \in forgotten']_vars
  <2>. SUFFICES ASSUME SessionsInv, [Next]_vars, NEW l \in Login,
                       sessions[l] # Nobody, sessions'[l] # sessions[l]
                PROVE  l \in forgotten'
    OBVIOUS
  <2>1. ASSUME NEW k \in Login, Put(k) PROVE FALSE
    <3>1. sessions[k] = Nobody
      BY <2>1 DEF Put, SessionsInv, LoginPhases
    <3> QED
      BY <2>1, <3>1 DEF Put, SessionsInv, TypeOK
  <2>2. CASE Restart
    BY <2>2 DEF Restart
  <2> QED
    BY <2>1, <2>2 DEF Next, LoginStep, BrowserStep, StartLogin, FindUser,
         LoginFails, BeginPut, Cancel, AnswerResult, AnswerTimeout, Answer,
         TakeCookie, ClearCookie, Request, LookUp, Done, vars
<1> QED
  BY <1>1, SessionsInvariance, PTL DEF Spec, SessionsStay
=============================================================================
