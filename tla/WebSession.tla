----------------------------- MODULE WebSession -----------------------------
(***************************************************************************)
(* A browser with several tabs against the server: the CSRF cookie and the *)
(* token in a page (services/csrf.py, main.py), the session cookie and the *)
(* rights of its user (services/auth.py, api/auth_dependencies.py), login  *)
(* and logout (api/auth_pages.py).                                         *)
(*                                                                         *)
(* A request carries the cookies the browser had when it was sent.  A page *)
(* keeps the token it was rendered with; a form or fetch submits it.       *)
(***************************************************************************)
EXTENDS LoginThrottle, FiniteSets

CONSTANTS
  Tabs,
  MaxTime,   \* bound
  Nil

ASSUME TabAssumption == Nil \notin Tabs /\ MaxTime \in Nat \ {0}

(* A new token is named after the tab whose request it answers: only a     *)
(* request without one gets a new one, so a tab gets at most one.          *)
Tokens == Tabs

VARIABLES
  account,  \* what the user may do: nobody (inactive), viewer, editor
  jar,      \* the cookies of the browser
  tab

vars == <<clock, throttle, account, jar, tab>>

Accounts == {"nobody", "viewer", "editor"}
Gets == {"app", "login page"}
Pages == Gets \cup {"none"}
Asks == Gets \cup {"login", "logout", "edit"}
Jars == [csrf : Tokens \cup {Nil}, auth : BOOLEAN]
Points == {"open", "sent", "admitted", "verifying", "editing", "answered"}

(* clean and entitled are histories: the page was loaded while no other    *)
(* request was under way without a CSRF cookie, or with one replaced since;*)
(* the user was an editor at some moment since the request was sent.       *)
TabRec == [at : Points, page : Pages, token : Tokens \cup {Nil}, ask : Asks,
           with : Jars, known : BOOLEAN, set : Tokens \cup {Nil},
           auth : {"keep", "set", "clear"}, then : Pages \cup {"go", "stay"},
           clean : BOOLEAN, entitled : BOOLEAN]

Blank == [at |-> "open", page |-> "none", token |-> Nil, ask |-> "app",
          with |-> [csrf |-> Nil, auth |-> FALSE], known |-> FALSE, set |-> Nil,
          auth |-> "keep", then |-> "stay", clean |-> FALSE, entitled |-> FALSE]

UnderWay(t) == tab[t].at # "open"
Bare(t) == UnderWay(t) /\ tab[t].with.csrf = Nil

(* A request is sent; a page that is left takes its token with it.         *)
Sent(t, ask, cookies) ==
  LET get == ask \in Gets
      alone == \A u \in Tabs \ {t} : ~Bare(u) /\ (UnderWay(u) => tab[u].with.csrf = cookies.csrf)
      sending == [tab[t] EXCEPT !.at = "sent", !.ask = ask, !.with = cookies,
                    !.set = Nil, !.auth = "keep", !.then = "stay", !.known = FALSE,
                    !.clean = IF get THEN alone ELSE @, !.page = IF get THEN "none" ELSE @,
                    !.token = IF get THEN Nil ELSE @, !.entitled = account = "editor"] IN
  [u \in Tabs |-> IF u = t THEN sending
                  ELSE IF cookies.csrf = Nil /\ Bare(u) THEN [tab[u] EXCEPT !.clean = FALSE]
                  ELSE tab[u]]

Send(t, ask) ==
  /\ tab[t].at = "open"
  /\ \/ ask \in Gets
     \/ ask = "login" /\ tab[t].page = "login page"
     \/ ask \in {"logout", "edit"} /\ tab[t].page = "app"
  /\ tab' = Sent(t, ask, jar)
  /\ UNCHANGED <<clock, throttle, account, jar>>

-----------------------------------------------------------------------------
(* A bug: every response brings a new token.                               *)
IssuedAnew(t) == t

(* ensure_request_csrf_token                                               *)
Issued(t) == IF tab[t].with.csrf # Nil THEN tab[t].with.csrf ELSE t

(* A bug: the rights the user had when the page was loaded.                *)
WhoBefore(t) == IF tab[t].with.auth /\ tab[t].page = "app" THEN "editor" ELSE account

(* resolve_auth_user_from_session_cookie: the user as he is now.           *)
Who(t) == IF tab[t].with.auth THEN account ELSE "nobody"

(* require_editor_user                                                     *)
MayEdit(t) == Who(t) = "editor"

(* verify_password                                                         *)
Verdicts == BOOLEAN

(* validate_submitted_csrf_token                                           *)
FormValid(t) == tab[t].token # Nil /\ tab[t].token = tab[t].with.csrf

(* validate_request_csrf                                                   *)
HeaderValid(t) == tab[t].token = Issued(t)

(* An answer: then is the page it brings, which has the token of the       *)
(* request; "go" redirects to another, and "stay" is for fetch.            *)
Answer(t, then, auth, set) ==
  tab' = [tab EXCEPT ![t].at = "answered", ![t].then = then, ![t].auth = auth,
                     ![t].set = set]

(* The middleware sets the CSRF cookie if the request had none, and always *)
(* where it refuses a request itself.                                      *)
Reply(t, then, auth) ==
  Answer(t, then, auth, IF tab[t].with.csrf = Nil THEN Issued(t) ELSE Nil)
Refuse(t, then, auth) == Answer(t, then, auth, Issued(t))

Serving(t, ask) == tab[t].at = "sent" /\ tab[t].ask = ask
Rest == UNCHANGED <<clock, throttle, account, jar>>

(* auth_session_middleware and a page that needs a user.                   *)
ServeApp(t) ==
  /\ Serving(t, "app")
  /\ IF Who(t) # "nobody" THEN Reply(t, "app", "keep") ELSE Refuse(t, "go", "clear")
  /\ Rest

(* login_page                                                              *)
ServeLoginPage(t) ==
  /\ Serving(t, "login page")
  /\ Reply(t, IF Who(t) # "nobody" THEN "go" ELSE "login page", "keep")
  /\ Rest

(* login_submit, up to the throttle.                                       *)
ServeLogin(t) ==
  /\ Serving(t, "login")
  /\ IF FormValid(t) /\ Allowed
     THEN tab' = [tab EXCEPT ![t].at = "admitted"]
     ELSE Reply(t, "login page", "keep")
  /\ Rest

(* authenticate_user, its SELECT.                                          *)
FindUser(t) ==
  /\ tab[t].at = "admitted"
  /\ tab' = [tab EXCEPT ![t].at = "verifying", ![t].known = account # "nobody"]
  /\ Rest

(* authenticate_user, the password, verified in a thread; login_submit.    *)
Verify(t, right) ==
  /\ tab[t].at = "verifying"
  /\ IF right /\ tab[t].known THEN Forget /\ Reply(t, "go", "set")
                              ELSE RecordFailure /\ Reply(t, "login page", "keep")
  /\ UNCHANGED <<clock, account, jar>>

(* logout_submit: a form that has expired is passed over in silence.       *)
ServeLogout(t) ==
  /\ Serving(t, "logout")
  /\ \/ Who(t) = "nobody" /\ Refuse(t, "none", "keep")
     \/ Who(t) # "nobody" /\ Reply(t, "go", IF FormValid(t) THEN "clear" ELSE "keep")
  /\ Rest

(* auth_session_middleware and require_editor_user, for a fetch that       *)
(* changes data; what is refused leaves the page as it is.                 *)
ServeEdit(t) ==
  /\ Serving(t, "edit")
  /\ IF Who(t) = "nobody" \/ ~HeaderValid(t) THEN Refuse(t, "stay", "keep")
     ELSE IF MayEdit(t) THEN tab' = [tab EXCEPT ![t].at = "editing"]
     ELSE Reply(t, "stay", "keep")
  /\ Rest

(* The handler, after its awaits.                                          *)
Edit(t) == tab[t].at = "editing" /\ Reply(t, "stay", "keep") /\ Rest

Shown(t, page, token) ==
  tab' = [tab EXCEPT ![t] = [Blank EXCEPT !.page = page, !.token = token,
                                          !.clean = tab[t].clean]]

(* The browser takes the cookies of the answer, and follows a redirect.    *)
Receive(t) ==
  LET cookies == [csrf |-> IF tab[t].set # Nil THEN tab[t].set ELSE jar.csrf,
                  auth |-> CASE tab[t].auth = "set" -> TRUE
                             [] tab[t].auth = "clear" -> FALSE
                             [] OTHER -> jar.auth] IN
  /\ tab[t].at = "answered"
  /\ jar' = cookies
  /\ \/ tab[t].then = "go"
        /\ tab' = Sent(t, IF tab[t].ask \in {"app", "logout"} THEN "login page" ELSE "app",
                       cookies)
     \/ tab[t].then = "stay" /\ Shown(t, tab[t].page, tab[t].token)
     \/ tab[t].then \in Pages
        /\ Shown(t, tab[t].then, IF tab[t].then = "none" THEN Nil ELSE Issued(t))
  /\ UNCHANGED <<clock, throttle, account>>

(* AUTH_SESSION_MAX_AGE_SECONDS are over.                                  *)
SessionEnds ==
  /\ jar.auth
  /\ jar' = [jar EXCEPT !.auth = FALSE]
  /\ UNCHANGED <<clock, throttle, account, tab>>

(* upsert_auth_user, by manage_app_user.                                   *)
Administer(role) ==
  /\ account # role
  /\ account' = role
  /\ tab' = [t \in Tabs |-> [tab[t] EXCEPT !.entitled = @ \/ (UnderWay(t) /\ role = "editor")]]
  /\ UNCHANGED <<clock, throttle, jar>>

Tick ==
  /\ clock < MaxTime
  /\ clock' = clock + 1
  /\ UNCHANGED <<throttle, account, jar, tab>>

(* The server restarts between requests of this browser.                   *)
Restart ==
  /\ \A t \in Tabs : ~UnderWay(t)
  /\ Forget
  /\ UNCHANGED <<clock, account, jar, tab>>

-----------------------------------------------------------------------------
Init ==
  /\ clock = 1 /\ ThrottleInit
  /\ account \in Accounts
  /\ jar = [csrf |-> Nil, auth |-> FALSE]
  /\ tab = [t \in Tabs |-> Blank]

Serve(t) ==
  \/ ServeApp(t) \/ ServeLoginPage(t) \/ ServeLogin(t) \/ FindUser(t)
  \/ \E right \in Verdicts : Verify(t, right)
  \/ ServeLogout(t) \/ ServeEdit(t) \/ Edit(t)

Next ==
  \/ \E t \in Tabs : (\E ask \in Asks : Send(t, ask)) \/ Serve(t) \/ Receive(t)
  \/ SessionEnds
  \/ \E role \in Accounts : Administer(role)
  \/ Tick \/ Restart

Spec == Init /\ [][Next]_vars

-----------------------------------------------------------------------------
(* The clock, the block, the cookies and the tabs keep their types.        *)
TypeOK ==
  /\ clock \in 1 .. MaxTime
  /\ blockedUntil \in 0 .. MaxTime + Block
  /\ account \in Accounts
  /\ jar \in Jars
  /\ tab \in [Tabs -> TabRec]

(* Once loaded while no other first request, or one that carries a cookie  *)
(* replaced since, was under way, a page has the token of the cookie for   *)
(* good: a form is refused as stale only after two first loads at once,    *)
(* and "refresh the page" helps (login_submit, ensure_request_csrf_token,  *)
(* auth_session_middleware).                                               *)
TokenCurrent ==
  \A t \in Tabs : tab[t].page # "none" /\ tab[t].clean => tab[t].token = jar.csrf

(* Data are changed only for a user who was an active editor at some       *)
(* moment since the request was sent, whatever his session cookie, other   *)
(* tabs and the administrator do (resolve_auth_user_from_session_cookie,   *)
(* require_editor_user).                                                   *)
EditEntitled == \A t \in Tabs : tab[t].at = "editing" => tab[t].entitled
=============================================================================
