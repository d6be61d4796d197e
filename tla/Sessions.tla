------------------------------ MODULE Sessions -------------------------------
(***************************************************************************)
(* Logging in, and knowing again who logged in.                            *)
(*                                                                         *)
(* AuthService.Login looks the user up, compares the password and puts a   *)
(* session into Session_cache, a plain map of the process, in a goroutine  *)
(* of WithTimeout that its handler may abandon.  UserAuthMiddleware takes  *)
(* the user of a request from the map; an id it does not find is user 0,   *)
(* not an error.  Sessions are never removed, a logout only clears the     *)
(* cookie; a restart forgets all of them while the cookies stay.           *)
(*                                                                         *)
(* The password is compared with one MD5 hash that is written in the       *)
(* source; the user's own PasswordHash is read and not looked at.          *)
(*                                                                         *)
(* Nothing guards the map.  If a login writes it while another goroutine   *)
(* is in it, the Go runtime ends the process when it notices (a cause of   *)
(* Restart); when it does not, the reader may miss a session because the   *)
(* writer is moving the entries.  Two writers are assumed to be noticed,   *)
(* so that entries they lose are among those a Restart forgets.            *)
(*                                                                         *)
(* A session id is a fresh UUID; here it is the login that made it.        *)
(* Definitions named Bad... repeat the one that follows with a plausible   *)
(* bug.                                                                    *)
(***************************************************************************)
EXTENDS FiniteSets

CONSTANTS
    Login,      \* POST /api/login requests
    Browser,
    By,         \* the browser of each login
    User,       \* user ids in the users table
    Nobody,     \* user id 0
    Name,       \* the user each login names, Nobody if there is none such
    Right,      \* logins whose password has the one hash of the source
    NoCookie

ASSUME LoginInputs ==
    /\ By \in [Login -> Browser]
    /\ Name \in [Login -> User \cup {Nobody}]
    /\ Nobody \notin User
    /\ Right \subseteq Login
    /\ NoCookie \notin Login

VARIABLES
    sessions,   \* Session_cache: the user of each session, Nobody: no session
    worker,     \* what the goroutine of a login does next
    result,     \* the error it left
    handler,    \* what the handler has answered; "taken": the browser has it
    cancelled,  \* logins whose context is done
    forgotten,  \* sessions that a restart has forgotten
    cookie,     \* session_id cookie of each browser
    page,       \* the request a browser makes beside: "out", "look" or "served"
    sent,       \* the session id it carries
    seen,       \* the user it is served as
    raced       \* browsers whose look-up overlapped a write of the map

loginVars   == <<worker, result, handler, cancelled>>
browserVars == <<cookie, page, sent, seen, raced>>
vars == <<sessions, forgotten, loginVars, browserVars>>

TypeOK ==
    /\ sessions \in [Login -> User \cup {Nobody}]
    /\ worker \in [Login -> {"idle", "find", "create", "put", "done"}]
    /\ result \in [Login -> {"none", "nil", "unauthorized", "err"}]
    /\ handler \in [Login -> {"idle", "waiting", "ok", "unauthorized", "err",
                              "lost", "taken"}]
    /\ cancelled \subseteq Login /\ forgotten \subseteq Login
    /\ cookie \in [Browser -> Login \cup {NoCookie}]
    /\ page \in [Browser -> {"out", "look", "served"}]
    /\ sent \in [Browser -> Login \cup {NoCookie}]
    /\ seen \in [Browser -> User \cup {Nobody}]
    /\ raced \subseteq Browser

Init ==
    /\ sessions = [l \in Login |-> Nobody]
    /\ worker = [l \in Login |-> "idle"]
    /\ result = [l \in Login |-> "none"]
    /\ handler = [l \in Login |-> "idle"]
    /\ cancelled = {} /\ forgotten = {}
    /\ cookie = [b \in Browser |-> NoCookie]
    /\ page = [b \in Browser |-> "out"]
    /\ sent = [b \in Browser |-> NoCookie]
    /\ seen = [b \in Browser |-> Nobody]
    /\ raced = {}

-----------------------------------------------------------------------------
(* The goroutine of a login. *)

Go(l, state)   == worker' = [worker EXCEPT ![l] = state]
Return(l, err) == Go(l, "done") /\ result' = [result EXCEPT ![l] = err]

StartLogin(l) ==
    /\ handler[l] = "idle"
    /\ handler' = [handler EXCEPT ![l] = "waiting"]
    /\ Go(l, "find")
    /\ UNCHANGED <<sessions, forgotten, result, cancelled, browserVars>>

BadKnown(l) == Name[l] \in User         \* the password is not looked at

\* The user exists, and the password sent has the hash of the source.
Known(l) == Name[l] \in User /\ l \in Right

\* FindByUserName, and the hash.  Nothing after it looks at the context.
FindUser(l) ==
    /\ worker[l] = "find"
    /\ l \notin cancelled
    /\ IF Known(l) THEN Go(l, "create") /\ UNCHANGED result
                   ELSE Return(l, "unauthorized")
    /\ UNCHANGED <<sessions, forgotten, handler, cancelled, browserVars>>

\* The query or the making of the UUID fails.
LoginFails(l) ==
    /\ worker[l] \in {"find", "create"}
    /\ Return(l, "err")
    /\ UNCHANGED <<sessions, forgotten, handler, cancelled, browserVars>>

\* The write of the map begins ...
BeginPut(l) ==
    /\ worker[l] = "create"
    /\ Go(l, "put")
    /\ raced' = raced \cup {b \in Browser : page[b] = "look"}
    /\ UNCHANGED <<sessions, forgotten, result, handler, cancelled,
                   cookie, page, sent, seen>>

\* Bug: user belongs to the service, not to the call.
BadPut(l) ==
    /\ worker[l] = "put"
    /\ \E k \in Login : /\ worker[k] # "idle"
                        /\ sessions' = [sessions EXCEPT ![l] = Name[k]]
    /\ Return(l, "nil")
    /\ UNCHANGED <<forgotten, handler, cancelled, browserVars>>

\* Bug: a new map for each login.
BadPutOnly(l) ==
    /\ worker[l] = "put"
    /\ sessions' = [k \in Login |-> IF k = l THEN Name[l] ELSE Nobody]
    /\ Return(l, "nil")
    /\ UNCHANGED <<forgotten, handler, cancelled, browserVars>>

\* ... and ends; with two writers in the map it ends in Restart.
Put(l) ==
    /\ worker[l] = "put"
    /\ \A k \in Login \ {l} : worker[k] # "put"
    /\ sessions' = [sessions EXCEPT ![l] = Name[l]]
    /\ Return(l, "nil")
    /\ UNCHANGED <<forgotten, handler, cancelled, browserVars>>

-----------------------------------------------------------------------------
(* Its handler. *)

\* The client disconnects, or the deadline of WithTimeout passes.
Cancel(l) ==
    /\ handler[l] = "waiting"
    /\ l \notin cancelled
    /\ cancelled' = cancelled \cup {l}
    /\ UNCHANGED <<sessions, forgotten, worker, result, handler, browserVars>>

Answer(l, code) ==
    /\ handler[l] = "waiting"
    /\ handler' = [handler EXCEPT ![l] = code]
    /\ UNCHANGED <<sessions, forgotten, worker, result, cancelled, browserVars>>

AnswerResult(l) ==
    /\ worker[l] = "done"
    /\ Answer(l, IF result[l] = "nil" THEN "ok" ELSE result[l])

\* The goroutine goes on, and may still make a session nobody knows of.
AnswerTimeout(l) == l \in cancelled /\ Answer(l, "err")

-----------------------------------------------------------------------------
(* The browsers. *)

\* Bug: the session id belongs to the service, not to the call.
BadTakeCookie(l) ==
    /\ handler[l] = "ok"
    /\ handler' = [handler EXCEPT ![l] = "taken"]
    /\ \E k \in Login : /\ result[k] = "nil"
                        /\ cookie' = [cookie EXCEPT ![By[l]] = k]
    /\ UNCHANGED <<sessions, forgotten, worker, result, cancelled,
                   page, sent, seen, raced>>

\* The answer to a login arrives, if it does, and brings the cookie.
TakeCookie(l) ==
    /\ handler[l] = "ok"
    /\ handler' = [handler EXCEPT ![l] = "taken"]
    /\ cookie' = [cookie EXCEPT ![By[l]] = l]
    /\ UNCHANGED <<sessions, forgotten, worker, result, cancelled,
                   page, sent, seen, raced>>

\* Logout, or the 24 h of the cookie are over.
ClearCookie(b) ==
    /\ cookie[b] # NoCookie
    /\ cookie' = [cookie EXCEPT ![b] = NoCookie]
    /\ UNCHANGED <<sessions, forgotten, loginVars, page, sent, seen, raced>>

\* Without a cookie the middleware answers 401 and looks nothing up.
Request(b) ==
    /\ page[b] = "out"
    /\ cookie[b] # NoCookie
    /\ page' = [page EXCEPT ![b] = "look"]
    /\ sent' = [sent EXCEPT ![b] = cookie[b]]
    /\ raced' = IF \E l \in Login : worker[l] = "put" THEN raced \cup {b} ELSE raced
    /\ UNCHANGED <<sessions, forgotten, loginVars, cookie, seen>>

\* FindUserBySessionID.
LookUp(b) ==
    /\ page[b] = "look"
    /\ page' = [page EXCEPT ![b] = "served"]
    /\ \E u \in {sessions[sent[b]]} \cup (IF b \in raced THEN {Nobody} ELSE {}) :
         seen' = [seen EXCEPT ![b] = u]
    /\ UNCHANGED <<sessions, forgotten, loginVars, cookie, sent, raced>>

Over(S) ==
    /\ page' = [b \in Browser |-> IF b \in S THEN "out" ELSE page[b]]
    /\ sent' = [b \in Browser |-> IF b \in S THEN NoCookie ELSE sent[b]]
    /\ seen' = [b \in Browser |-> IF b \in S THEN Nobody ELSE seen[b]]
    /\ raced' = raced \ S
    /\ UNCHANGED cookie

Done(b) ==
    /\ page[b] = "served"
    /\ Over({b})
    /\ UNCHANGED <<sessions, forgotten, loginVars>>

\* The process ends, by deployment or by a fatal error, and starts again.
Restart ==
    /\ sessions' = [l \in Login |-> Nobody]
    /\ forgotten' = forgotten \cup {l \in Login : sessions[l] # Nobody}
    /\ worker' = [l \in Login |-> IF worker[l] = "idle" THEN "idle" ELSE "done"]
    /\ handler' = [l \in Login |-> IF handler[l] = "waiting" THEN "lost"
                                                             ELSE handler[l]]
    /\ UNCHANGED <<result, cancelled>>
    /\ Over(Browser)

-----------------------------------------------------------------------------

LoginStep(l) ==
    \/ StartLogin(l) \/ FindUser(l) \/ LoginFails(l) \/ BeginPut(l) \/ Put(l)
    \/ Cancel(l) \/ AnswerResult(l) \/ AnswerTimeout(l) \/ TakeCookie(l)

BrowserStep(b) == ClearCookie(b) \/ Request(b) \/ LookUp(b) \/ Done(b)

Next ==
    \/ \E l \in Login : LoginStep(l)
    \/ \E b \in Browser : BrowserStep(b)
    \/ Restart

Spec == Init /\ [][Next]_vars

-----------------------------------------------------------------------------
(* Properties. *)

\* The session of l was made, and made for a user who logged in.
Made(l) == l \in forgotten \/ sessions[l] = Name[l]

\* A request that is served as a user is served as the one whose login its
\* cookie stems from: a login of the same browser, and an accepted one.
ServedAsNoOther ==
    \A b \in Browser : page[b] = "served" /\ seen[b] # Nobody =>
        LET l == sent[b]
        IN  l \in Right /\ By[l] = b /\ seen[b] = Name[l]

\* Every request that passes the middleware has a session: all endpoints need
\* the token of one (02_Regulation.md:52), and the middleware has a 401 for a
\* session that is not found (auth.go:27-31).  The code serves it as user 0.
ServedWithSession ==
    \A b \in Browser : page[b] = "served" => seen[b] # Nobody

\* Why a request is served as user 0: a restart has forgotten its session, or a
\* login wrote the map while it was looked up.
NobodyForACause ==
    \A b \in Browser : page[b] = "served" =>
        LET l == sent[b]
        IN  /\ l \in Right /\ By[l] = b
            /\ \/ seen[b] = Name[l]
               \/ seen[b] = Nobody /\ (l \in forgotten \/ b \in raced)

\* A cookie stems from a login of its own browser that was answered with
\* success and made the session the cookie names, and a success answer is never
\* given before there is one.
CookiesAreTrue ==
    /\ \A b \in Browser : cookie[b] # NoCookie =>
           By[cookie[b]] = b /\ handler[cookie[b]] = "taken"
    /\ \A l \in Login : handler[l] \in {"ok", "taken"} => l \in Right /\ Made(l)

\* Only a login whose password has the hash of the source makes a session, and
\* one nobody was told of comes from a login that was cut: its context ended,
\* the server was restarted, or the answer has not been given yet.
SessionsAreKnown ==
    \A l \in Login : sessions[l] # Nobody =>
        /\ l \in Right
        /\ handler[l] = "err" => l \in cancelled
        /\ handler[l] # "unauthorized"

\* Only a restart takes sessions away: a user stays logged in whatever others do.
\* (Entries lost by two writers at once are a Restart's, by assumption.)
SessionsStay ==
    [][\A l \in Login : sessions[l] # Nobody /\ sessions'[l] # sessions[l] =>
           l \in forgotten']_vars

\* Why: where a login is, and what its result and its answer say of it.
LoginPhases ==
    \A l \in Login :
        /\ worker[l] = "idle" <=> handler[l] = "idle"
        /\ worker[l] \in {"create", "put"} => Known(l)
        /\ worker[l] # "done" => result[l] = "none"
        /\ worker[l] = "done" /\ handler[l] = "waiting" => result[l] # "none"
        /\ result[l] = "nil" => Known(l) /\ Made(l)
        /\ sessions[l] # Nobody => result[l] = "nil" /\ sessions[l] = Name[l]
        /\ handler[l] \in {"ok", "taken"} => result[l] = "nil"
        /\ handler[l] = "err" => l \in cancelled \/ result[l] = "err"
        /\ handler[l] = "unauthorized" => result[l] = "unauthorized"

\* Browsers carry sessions of their own logins, in cookies and in requests.
OwnCookies ==
    \A b \in Browser :
        /\ cookie[b] # NoCookie => By[cookie[b]] = b /\ handler[cookie[b]] = "taken"
        /\ page[b] # "out" => /\ sent[b] # NoCookie
                              /\ By[sent[b]] = b /\ handler[sent[b]] = "taken"

SessionsInv == TypeOK /\ LoginPhases /\ OwnCookies /\ NobodyForACause
=============================================================================
