-------------------------- MODULE BrowserProofs --------------------------
(***************************************************************************)
(* Proofs about what happens in a browser: its session (WebSession,        *)
(* LoginThrottle), for any tabs, any times and any limits of the throttle; *)
(* a page that shows a table (TablePage), for any rows and choices, any    *)
(* size of a page and any number of requests and of edits; and the pages   *)
(* of statistics (DistributionStats, StatsPages), for any registry, any    *)
(* choices and any number of pages, loads and edits.                       *)
(***************************************************************************)
EXTENDS SitePages, FiniteSetTheorems, WellFoundedInduction, TLAPS

(* The CSRF cookie an answer brings: a new one to a request without, else  *)
(* none or the one that came with the request.                             *)
CookieRight(t, n) ==
  IF n.with.csrf = Nil THEN n.set = t ELSE n.set \in {Nil, n.with.csrf}

(* What a clean tab v relies on, t set aside, when the cookie of the       *)
(* browser is c: as long as it waits for its first token, nobody else does *)
(* anything; from then on, everybody has the same token.                   *)
Relies(v, t, c) ==
  tab[v].clean /\ (tab[v].page # "none" \/ UnderWay(v)) =>
    IF Bare(v)
    THEN c = Nil /\ tab[v].page = "none" /\ \A u \in Tabs \ {v, t} : ~UnderWay(u)
    ELSE /\ c # Nil
         /\ \A u \in Tabs \ {t} : UnderWay(u) => tab[u].with.csrf = c
         /\ tab[v].page # "none" => tab[v].token = c

CookiesRight == \A t \in Tabs : tab[t].at = "answered" => CookieRight(t, tab[t])
TokensRight == \A v \in Tabs : Relies(v, Nil, jar.csrf)
Entitled(n) ==
  /\ n.at # "open" /\ account = "editor" => n.entitled
  /\ n.at = "editing" => n.entitled
RightsRight == \A t \in Tabs : Entitled(tab[t])

IInv == TypeOK /\ CookiesRight /\ TokensRight /\ RightsRight

LEMMA BlankTyped ==
  /\ Blank \in TabRec /\ Blank.at = "open" /\ ~Blank.clean /\ Blank.page = "none"
  BY DEF Blank, TabRec, Points, Pages, Gets, Asks, Jars, Tokens

-----------------------------------------------------------------------------
(* A step of the server for a request of t.                                *)
LEMMA ServeKeeps ==
  ASSUME IInv, NEW t \in Tabs, NEW n \in TabRec, tab' = [tab EXCEPT ![t] = n],
         UNCHANGED <<account, jar>>, clock' \in 1 .. MaxTime,
         blockedUntil' \in 0 .. MaxTime + Block,
         UnderWay(t), n.at # "open",
         n.with = tab[t].with, n.page = tab[t].page, n.token = tab[t].token,
         n.clean = tab[t].clean, n.entitled = tab[t].entitled,
         n.at = "editing" => n.entitled, n.at = "answered" => CookieRight(t, n)
  PROVE  IInv'
<1>1. tab' \in [Tabs -> TabRec] /\ tab'[t] = n /\ \A u \in Tabs \ {t} : tab'[u] = tab[u]
  BY DEF IInv, TypeOK
<1>2. TypeOK' BY <1>1 DEF IInv, TypeOK
<1>3. CookiesRight' BY <1>1 DEF IInv, CookiesRight, CookieRight
<1>4. /\ \A u \in Tabs : UnderWay(u)' = UnderWay(u) /\ Bare(u)' = Bare(u)
      /\ \A u \in Tabs : /\ tab'[u].with = tab[u].with /\ tab'[u].clean = tab[u].clean
                         /\ tab'[u].page = tab[u].page /\ tab'[u].token = tab[u].token
  BY <1>1 DEF UnderWay, Bare
<1>5. TokensRight' BY <1>4 DEF IInv, TokensRight, Relies
<1>6. RightsRight' BY <1>1 DEF IInv, RightsRight, Entitled, UnderWay
<1> QED BY <1>2, <1>3, <1>5, <1>6 DEF IInv

(* An answer.                                                              *)
LEMMA AnswerKeeps ==
  ASSUME IInv, NEW t \in Tabs, NEW then \in Pages \cup {"go", "stay"},
         NEW auth \in {"keep", "set", "clear"}, UnderWay(t),
         Reply(t, then, auth) \/ Refuse(t, then, auth),
         UNCHANGED <<account, jar>>, clock' \in 1 .. MaxTime,
         blockedUntil' \in 0 .. MaxTime + Block
  PROVE  IInv'
<1>1. tab[t] \in TabRec /\ tab[t].with \in Jars BY DEF IInv, TypeOK, TabRec
<1>2. Issued(t) = IF tab[t].with.csrf # Nil THEN tab[t].with.csrf ELSE t BY DEF Issued
<1>3. Issued(t) \in Tokens BY <1>1, <1>2 DEF Jars, Tokens
<1>4. PICK set \in {Nil, Issued(t)} : Answer(t, then, auth, set) /\ (tab[t].with.csrf = Nil => set = t)
  BY <1>2 DEF Reply, Refuse
<1> DEFINE n == [tab[t] EXCEPT !.at = "answered", !.then = then, !.auth = auth, !.set = set]
<1>5. tab' = [tab EXCEPT ![t] = n] BY <1>1, <1>4 DEF Answer, TabRec
<1>6. /\ n \in TabRec /\ n.at = "answered" /\ n.set = set
      /\ n.with = tab[t].with /\ n.page = tab[t].page /\ n.token = tab[t].token
      /\ n.clean = tab[t].clean /\ n.entitled = tab[t].entitled
  <2>1. set \in Tokens \cup {Nil} BY <1>3
  <2>2. n \in TabRec BY <1>1, <2>1 DEF TabRec, Points
  <2> QED BY <1>1, <2>2 DEF TabRec
<1> HIDE DEF n
<1>7. CookieRight(t, n) BY <1>2, <1>4, <1>6 DEF CookieRight
<1> QED BY <1>5, <1>6, <1>7, ServeKeeps

LEMMA AppKeeps == ASSUME IInv, NEW t \in Tabs, ServeApp(t) PROVE IInv'
<1>1. UnderWay(t) BY DEF ServeApp, Serving, UnderWay
<1>2. /\ UNCHANGED <<account, jar>> /\ clock' \in 1 .. MaxTime
      /\ blockedUntil' \in 0 .. MaxTime + Block
  BY DEF ServeApp, Rest, throttle, IInv, TypeOK
<1>3. Reply(t, "app", "keep") \/ Refuse(t, "go", "clear") BY DEF ServeApp
<1> QED BY <1>1, <1>2, <1>3, AnswerKeeps DEF Pages, Gets

LEMMA LoginPageKeeps == ASSUME IInv, NEW t \in Tabs, ServeLoginPage(t) PROVE IInv'
<1>1. UnderWay(t) BY DEF ServeLoginPage, Serving, UnderWay
<1>2. /\ UNCHANGED <<account, jar>> /\ clock' \in 1 .. MaxTime
      /\ blockedUntil' \in 0 .. MaxTime + Block
  BY DEF ServeLoginPage, Rest, throttle, IInv, TypeOK
<1>3. Reply(t, "go", "keep") \/ Reply(t, "login page", "keep") BY DEF ServeLoginPage
<1> QED BY <1>1, <1>2, <1>3, AnswerKeeps DEF Pages, Gets

(* A request that goes on, after login_submit or the middleware.           *)
LEMMA GoesOn ==
  ASSUME IInv, NEW t \in Tabs, UnderWay(t), Rest, NEW at \in {"admitted", "verifying", "editing"},
         NEW known \in BOOLEAN, tab' = [tab EXCEPT ![t].at = at, ![t].known = known],
         at = "editing" => account = "editor"
  PROVE  IInv'
<1>1. /\ UNCHANGED <<account, jar>> /\ clock' \in 1 .. MaxTime
      /\ blockedUntil' \in 0 .. MaxTime + Block
  BY DEF Rest, throttle, IInv, TypeOK
<1> DEFINE n == [tab[t] EXCEPT !.at = at, !.known = known]
<1>2. tab[t] \in TabRec BY DEF IInv, TypeOK
<1>3. tab' = [tab EXCEPT ![t] = n] BY <1>2 DEF TabRec
<1>4. n \in TabRec BY <1>2 DEF TabRec, Points
<1>5. /\ n.at = at /\ n.with = tab[t].with /\ n.page = tab[t].page /\ n.token = tab[t].token
      /\ n.clean = tab[t].clean /\ n.entitled = tab[t].entitled
  BY <1>2 DEF TabRec
<1> HIDE DEF n
<1>6. n.at = "editing" => n.entitled
  BY <1>5 DEF IInv, RightsRight, Entitled, UnderWay
<1> QED BY <1>1, <1>3, <1>4, <1>5, <1>6, ServeKeeps

LEMMA LoginKeeps == ASSUME IInv, NEW t \in Tabs, ServeLogin(t) PROVE IInv'
<1>1. UnderWay(t) BY DEF ServeLogin, Serving, UnderWay
<1>2. tab[t] \in TabRec BY DEF IInv, TypeOK
<1>3. Rest BY DEF ServeLogin
<1>4. CASE tab' = [tab EXCEPT ![t].at = "admitted"]
  <2>1. tab[t] = [tab[t] EXCEPT !.known = tab[t].known] /\ tab[t].known \in BOOLEAN
    BY <1>2 DEF TabRec
  <2>2. tab' = [tab EXCEPT ![t].at = "admitted", ![t].known = tab[t].known]
    BY <1>2, <1>4 DEF TabRec
  <2> QED BY <1>1, <1>3, <2>1, <2>2, GoesOn
<1>5. CASE Reply(t, "login page", "keep")
  BY <1>1, <1>3, <1>5, AnswerKeeps DEF Rest, throttle, IInv, TypeOK, Pages, Gets
<1> QED BY <1>4, <1>5 DEF ServeLogin

LEMMA FindUserKeeps == ASSUME IInv, NEW t \in Tabs, FindUser(t) PROVE IInv'
<1>1. UnderWay(t) /\ Rest BY DEF FindUser, UnderWay
<1>2. tab' = [tab EXCEPT ![t].at = "verifying", ![t].known = (account # "nobody")]
  BY DEF FindUser
<1> QED BY <1>1, <1>2, GoesOn

LEMMA VerifyKeeps ==
  ASSUME IInv, NEW t \in Tabs, NEW right \in Verdicts, Verify(t, right) PROVE IInv'
<1>1. UnderWay(t) BY DEF Verify, UnderWay
<1>2. clock' \in 1 .. MaxTime /\ UNCHANGED <<account, jar>> BY DEF Verify, IInv, TypeOK
<1>3. blockedUntil' \in 0 .. MaxTime + Block
  <2>1. blockedUntil' \in {0, clock + Block, blockedUntil} BY DEF Verify, Forget, RecordFailure
  <2>2. clock \in 1 .. MaxTime /\ blockedUntil \in 0 .. MaxTime + Block BY DEF IInv, TypeOK
  <2>3. MaxTime \in Nat /\ Block \in Nat BY TabAssumption, ThrottleAssumption
  <2> QED BY <2>1, <2>2, <2>3
<1>4. Reply(t, "go", "set") \/ Reply(t, "login page", "keep") BY DEF Verify
<1> QED BY <1>1, <1>2, <1>3, <1>4, AnswerKeeps DEF Pages, Gets

LEMMA LogoutKeeps == ASSUME IInv, NEW t \in Tabs, ServeLogout(t) PROVE IInv'
<1>1. UnderWay(t) BY DEF ServeLogout, Serving, UnderWay
<1>2. /\ UNCHANGED <<account, jar>> /\ clock' \in 1 .. MaxTime
      /\ blockedUntil' \in 0 .. MaxTime + Block
  BY DEF ServeLogout, Rest, throttle, IInv, TypeOK
<1>3. Refuse(t, "none", "keep") \/ Reply(t, "go", "clear") \/ Reply(t, "go", "keep")
  BY DEF ServeLogout
<1> QED BY <1>1, <1>2, <1>3, AnswerKeeps DEF Pages, Gets

LEMMA EditKeeps == ASSUME IInv, NEW t \in Tabs, ServeEdit(t) \/ Edit(t) PROVE IInv'
<1>1. UnderWay(t) BY DEF ServeEdit, Edit, Serving, UnderWay
<1>2. tab[t] \in TabRec /\ Rest BY DEF IInv, TypeOK, ServeEdit, Edit
<1>3. CASE MayEdit(t) /\ tab' = [tab EXCEPT ![t].at = "editing"]
  <2>1. tab[t].known \in BOOLEAN BY <1>2 DEF TabRec
  <2>2. tab' = [tab EXCEPT ![t].at = "editing", ![t].known = tab[t].known]
    BY <1>2, <1>3 DEF TabRec
  <2>3. account = "editor" BY <1>3 DEF MayEdit, Who
  <2> QED BY <1>1, <1>2, <2>1, <2>2, <2>3, GoesOn
<1>4. CASE Refuse(t, "stay", "keep") \/ Reply(t, "stay", "keep")
  BY <1>1, <1>2, <1>4, AnswerKeeps DEF Rest, throttle, IInv, TypeOK
<1> QED BY <1>3, <1>4 DEF ServeEdit, Edit

-----------------------------------------------------------------------------
(* A request leaves t with the cookies the browser then has.               *)
LEMMA SentKeeps ==
  ASSUME IInv, NEW t \in Tabs, NEW ask \in Asks, NEW cookies \in Jars,
         tab' = Sent(t, ask, cookies), jar' = cookies,
         UNCHANGED <<clock, throttle, account>>,
         \A v \in Tabs \ {t} : Relies(v, t, cookies.csrf),
         ask \notin Gets /\ tab[t].page # "none" /\ tab[t].clean =>
           tab[t].token = cookies.csrf /\ cookies.csrf # Nil
             /\ \A u \in Tabs \ {t} : UnderWay(u) => tab[u].with.csrf = cookies.csrf,
         ask \notin Gets => tab[t].page # "none"
  PROVE  IInv'
<1> DEFINE get == ask \in Gets
           c == cookies.csrf
           alone == \A u \in Tabs \ {t} : ~Bare(u) /\ (UnderWay(u) => tab[u].with.csrf = c)
           n == [tab[t] EXCEPT !.at = "sent", !.ask = ask, !.with = cookies,
                   !.set = Nil, !.auth = "keep", !.then = "stay", !.known = FALSE,
                   !.clean = IF get THEN alone ELSE @, !.page = IF get THEN "none" ELSE @,
                   !.token = IF get THEN Nil ELSE @, !.entitled = account = "editor"]
           m(u) == IF c = Nil /\ Bare(u) THEN [tab[u] EXCEPT !.clean = FALSE] ELSE tab[u]
<1>1. tab[t] \in TabRec /\ \A u \in Tabs : tab[u] \in TabRec BY DEF IInv, TypeOK
<1>2. tab' = [u \in Tabs |-> IF u = t THEN n ELSE m(u)] BY DEF Sent
<1>3. /\ n.at = "sent" /\ n.with = cookies
      /\ n.clean = IF get THEN alone ELSE tab[t].clean
      /\ n.page = IF get THEN "none" ELSE tab[t].page
      /\ n.token = IF get THEN Nil ELSE tab[t].token
      /\ account = "editor" => n.entitled
  BY <1>1 DEF TabRec
<1>4. n \in TabRec
  <2> DEFINE clean == IF get THEN alone ELSE tab[t].clean
             page == IF get THEN "none" ELSE tab[t].page
             token == IF get THEN Nil ELSE tab[t].token
             entitled == account = "editor"
  <2>1. clean \in BOOLEAN /\ entitled \in BOOLEAN BY <1>1 DEF TabRec
  <2>2. page \in Pages /\ token \in Tokens \cup {Nil} BY <1>1 DEF TabRec, Pages
  <2> DEFINE n1 == [tab[t] EXCEPT !.at = "sent", !.ask = ask, !.with = cookies, !.set = Nil]
             n2 == [n1 EXCEPT !.auth = "keep", !.then = "stay", !.known = FALSE]
             n3 == [n2 EXCEPT !.clean = clean, !.page = page, !.token = token]
  <2>3. n = [n3 EXCEPT !.entitled = entitled] BY <1>1 DEF TabRec
  <2> HIDE DEF n, clean, page, token, entitled
  <2>4. n1 \in TabRec BY <1>1 DEF TabRec, Points
  <2> HIDE DEF n1
  <2>5. n2 \in TabRec BY <2>4 DEF TabRec
  <2> HIDE DEF n2
  <2>6. n3 \in TabRec BY <2>1, <2>2, <2>5 DEF TabRec
  <2> HIDE DEF n3
  <2> QED BY <2>1, <2>3, <2>6 DEF TabRec
<1> HIDE DEF n
<1>5. ASSUME NEW u \in Tabs \ {t}
      PROVE  /\ m(u) \in TabRec /\ m(u).at = tab[u].at /\ m(u).with = tab[u].with
             /\ m(u).page = tab[u].page /\ m(u).token = tab[u].token /\ m(u).set = tab[u].set
             /\ m(u).entitled = tab[u].entitled
             /\ m(u).clean => tab[u].clean /\ ~(c = Nil /\ Bare(u))
  BY <1>1 DEF TabRec
<1> HIDE DEF m
<1>6. tab' \in [Tabs -> TabRec] /\ tab'[t] = n /\ \A u \in Tabs \ {t} : tab'[u] = m(u)
  BY <1>2, <1>4, <1>5
<1>7. TypeOK' BY <1>6 DEF IInv, TypeOK, throttle
<1>8. CookiesRight' BY <1>3, <1>5, <1>6 DEF IInv, CookiesRight, CookieRight
<1>9. /\ \A u \in Tabs \ {t} : UnderWay(u)' = UnderWay(u) /\ Bare(u)' = Bare(u)
      /\ UnderWay(t)' /\ Bare(t)' = (c = Nil)
  BY <1>3, <1>5, <1>6 DEF UnderWay, Bare
<1>10. TokensRight'
  <2>0. Nil \notin Tabs BY TabAssumption
  <2> SUFFICES ASSUME NEW v \in Tabs, tab'[v].clean, tab'[v].page # "none" \/ UnderWay(v)'
               PROVE  IF Bare(v)'
                      THEN c = Nil /\ tab'[v].page = "none" /\ \A u \in Tabs \ {v} : ~UnderWay(u)'
                      ELSE /\ c # Nil
                           /\ \A u \in Tabs : UnderWay(u)' => tab'[u].with.csrf = c
                           /\ tab'[v].page # "none" => tab'[v].token = c
    BY <2>0 DEF TokensRight, Relies
  <2>1. CASE v = t /\ get
    <3>1. alone /\ tab'[v].page = "none" BY <1>3, <1>6, <2>1
    <3>2. \A u \in Tabs \ {t} : UnderWay(u)' => tab'[u].with.csrf = c /\ c # Nil
      BY <1>5, <1>6, <1>9, <3>1 DEF Bare
    <3> QED BY <1>3, <1>6, <1>9, <2>1, <3>1, <3>2
  <2>2. CASE v = t /\ ~get
    <3>1. tab[t].clean /\ tab[t].page # "none" /\ tab'[t].token = tab[t].token
      BY <1>3, <1>6, <2>2
    <3>2. \A u \in Tabs \ {t} : UnderWay(u)' => tab'[u].with.csrf = c
      BY <1>5, <1>6, <1>9, <2>2, <3>1
    <3> QED BY <1>3, <1>6, <1>9, <2>2, <3>1, <3>2
  <2>3. CASE v # t
    <3>1. tab[v].clean /\ ~(c = Nil /\ Bare(v)) /\ (tab[v].page # "none" \/ UnderWay(v))
      BY <1>5, <1>6, <1>9, <2>3
    <3>2. Relies(v, t, c) BY <2>3
    <3>3. ~Bare(v) BY <3>1, <3>2 DEF Relies
    <3>4. c # Nil /\ \A u \in Tabs \ {t} : UnderWay(u) => tab[u].with.csrf = c
      BY <3>1, <3>2, <3>3 DEF Relies
    <3>5. tab[v].page # "none" => tab[v].token = c BY <3>1, <3>2, <3>3 DEF Relies
    <3> QED BY <1>3, <1>5, <1>6, <1>9, <2>3, <3>3, <3>4, <3>5
  <2> QED BY <2>1, <2>2, <2>3
<1>11. RightsRight' BY <1>3, <1>5, <1>6 DEF IInv, RightsRight, Entitled
<1> QED BY <1>7, <1>8, <1>10, <1>11 DEF IInv

LEMMA SendKeeps == ASSUME IInv, NEW t \in Tabs, NEW ask \in Asks, Send(t, ask) PROVE IInv'
<1>1. tab' = Sent(t, ask, jar) /\ jar' = jar /\ UNCHANGED <<clock, throttle, account>>
  BY DEF Send
<1>2. ~UnderWay(t) /\ (ask \notin Gets => tab[t].page # "none")
  BY DEF Send, UnderWay, Gets
<1>3. jar \in Jars BY DEF IInv, TypeOK
<1>4. \A v \in Tabs : Relies(v, Nil, jar.csrf) BY DEF IInv, TokensRight
<1>5. \A v \in Tabs \ {t} : Relies(v, t, jar.csrf)
  BY <1>4, TabAssumption DEF Relies
<1>6. tab[t].page # "none" /\ tab[t].clean =>
        tab[t].token = jar.csrf /\ jar.csrf # Nil
          /\ \A u \in Tabs \ {t} : UnderWay(u) => tab[u].with.csrf = jar.csrf
  BY <1>2, <1>4, TabAssumption DEF Relies, Bare
<1> QED BY <1>1, <1>2, <1>3, <1>5, <1>6, SentKeeps

-----------------------------------------------------------------------------
(* The browser shows a page in t.                                          *)
LEMMA ShownKeeps ==
  ASSUME IInv, NEW t \in Tabs, NEW page \in Pages, NEW token \in Tokens \cup {Nil},
         NEW cookies \in Jars, Shown(t, page, token), jar' = cookies,
         UNCHANGED <<clock, throttle, account>>,
         \A v \in Tabs \ {t} : Relies(v, t, cookies.csrf),
         tab[t].clean /\ page # "none" =>
           token = cookies.csrf /\ cookies.csrf # Nil
             /\ \A u \in Tabs \ {t} : UnderWay(u) => tab[u].with.csrf = cookies.csrf
  PROVE  IInv'
<1> DEFINE n == [Blank EXCEPT !.page = page, !.token = token, !.clean = tab[t].clean]
<1>1. tab[t] \in TabRec /\ tab[t].clean \in BOOLEAN BY DEF IInv, TypeOK, TabRec
<1>2. n \in TabRec BY <1>1, BlankTyped DEF TabRec
<1>3. /\ n.at = "open" /\ n.page = page /\ n.token = token /\ (n.clean => tab[t].clean)
  BY <1>1, BlankTyped DEF Blank
<1>4. tab' = [tab EXCEPT ![t] = n] BY DEF Shown
<1> HIDE DEF n
<1>5. tab' \in [Tabs -> TabRec] /\ tab'[t] = n /\ \A u \in Tabs \ {t} : tab'[u] = tab[u]
  BY <1>2, <1>4 DEF IInv, TypeOK
<1>6. TypeOK' BY <1>5 DEF IInv, TypeOK, throttle
<1>7. CookiesRight' BY <1>3, <1>5 DEF IInv, CookiesRight, CookieRight
<1>8. /\ \A u \in Tabs \ {t} : UnderWay(u)' = UnderWay(u) /\ Bare(u)' = Bare(u)
      /\ ~UnderWay(t)' /\ ~Bare(t)'
  BY <1>3, <1>5 DEF UnderWay, Bare
<1>9. TokensRight'
  <2>0. Nil \notin Tabs BY TabAssumption
  <2> SUFFICES ASSUME NEW v \in Tabs, tab'[v].clean, tab'[v].page # "none" \/ UnderWay(v)'
               PROVE  IF Bare(v)'
                      THEN /\ cookies.csrf = Nil /\ tab'[v].page = "none"
                           /\ \A u \in Tabs \ {v} : ~UnderWay(u)'
                      ELSE /\ cookies.csrf # Nil
                           /\ \A u \in Tabs : UnderWay(u)' => tab'[u].with.csrf = cookies.csrf
                           /\ tab'[v].page # "none" => tab'[v].token = cookies.csrf
    BY <2>0 DEF TokensRight, Relies
  <2>1. CASE v = t BY <1>3, <1>5, <1>8, <2>1
  <2>2. CASE v # t
    <3>1. tab'[v] = tab[v] /\ Relies(v, t, cookies.csrf) BY <1>5, <2>2
    <3>2. CASE Bare(v) BY <1>8, <2>2, <3>1, <3>2 DEF Relies
    <3>3. CASE ~Bare(v) BY <1>5, <1>8, <2>2, <3>1, <3>3 DEF Relies
    <3> QED BY <3>2, <3>3
  <2> QED BY <2>1, <2>2
<1>10. RightsRight' BY <1>3, <1>5 DEF IInv, RightsRight, Entitled
<1> QED BY <1>6, <1>7, <1>9, <1>10 DEF IInv

LEMMA ReceiveKeeps == ASSUME IInv, NEW t \in Tabs, Receive(t) PROVE IInv'
<1> DEFINE c == IF tab[t].set # Nil THEN tab[t].set ELSE jar.csrf
           cookies == [csrf |-> c,
                       auth |-> CASE tab[t].auth = "set" -> TRUE
                                  [] tab[t].auth = "clear" -> FALSE
                                  [] OTHER -> jar.auth]
<1>1. /\ tab[t] \in TabRec /\ tab[t].with \in Jars /\ jar \in Jars
      /\ tab[t].at = "answered" /\ UnderWay(t)
  BY DEF IInv, TypeOK, TabRec, Receive, UnderWay
<1>2. jar' = cookies /\ UNCHANGED <<clock, throttle, account>> BY DEF Receive
<1>3. cookies \in Jars /\ cookies.csrf = c
  <2>1. (CASE tab[t].auth = "set" -> TRUE [] tab[t].auth = "clear" -> FALSE
           [] OTHER -> jar.auth) \in BOOLEAN
    BY <1>1 DEF Jars
  <2>2. c \in Tokens \cup {Nil} BY <1>1 DEF Jars, TabRec
  <2> QED BY <2>1, <2>2 DEF Jars
<1> HIDE DEF cookies
<1>4. CookieRight(t, tab[t]) BY <1>1 DEF IInv, CookiesRight
<1>5. t # Nil /\ Nil \notin Tabs BY TabAssumption
<1>6. Issued(t) = (IF tab[t].with.csrf # Nil THEN tab[t].with.csrf ELSE t)
      /\ Issued(t) \in Tokens
  BY <1>1 DEF Issued, Jars, Tokens
<1>7. ASSUME NEW v \in Tabs \ {t} PROVE Relies(v, t, c)
  <2>1. Relies(v, Nil, jar.csrf) BY DEF IInv, TokensRight
  <2> SUFFICES ASSUME tab[v].clean, tab[v].page # "none" \/ UnderWay(v)
               PROVE  Relies(v, t, c)
    BY DEF Relies
  <2>2. ~Bare(v) BY <1>1, <1>5, <2>1 DEF Relies
  <2>3. jar.csrf # Nil /\ tab[t].with.csrf = jar.csrf BY <1>1, <1>5, <2>1, <2>2 DEF Relies
  <2>4. c = jar.csrf BY <1>4, <2>3 DEF CookieRight
  <2> QED BY <1>5, <2>1, <2>2, <2>4 DEF Relies
<1>8. ASSUME tab[t].clean
      PROVE  /\ c # Nil /\ Issued(t) = c
             /\ \A u \in Tabs \ {t} : UnderWay(u) => tab[u].with.csrf = c
             /\ tab[t].page # "none" => tab[t].token = c
  <2>1. Relies(t, Nil, jar.csrf) BY DEF IInv, TokensRight
  <2>2. CASE Bare(t)
    <3>1. /\ tab[t].with.csrf = Nil /\ tab[t].page = "none"
          /\ \A u \in Tabs \ {t} : ~UnderWay(u)
      BY <1>1, <1>5, <1>8, <2>1, <2>2 DEF Relies, Bare
    <3>2. c = t BY <1>4, <1>5, <3>1 DEF CookieRight
    <3> QED BY <1>5, <1>6, <3>1, <3>2
  <2>3. CASE ~Bare(t)
    <3>1. /\ jar.csrf # Nil /\ tab[t].with.csrf = jar.csrf
          /\ \A u \in Tabs \ {t} : UnderWay(u) => tab[u].with.csrf = jar.csrf
          /\ tab[t].page # "none" => tab[t].token = jar.csrf
      BY <1>1, <1>5, <1>8, <2>1, <2>3 DEF Relies
    <3>2. c = jar.csrf BY <1>4, <3>1 DEF CookieRight
    <3> QED BY <1>6, <3>1, <3>2
  <2> QED BY <2>2, <2>3
<1> HIDE DEF c
<1>9. CASE tab[t].then = "go"
  <2> DEFINE ask == IF tab[t].ask \in {"app", "logout"} THEN "login page" ELSE "app"
  <2>1. ask \in Gets /\ ask \in Asks BY DEF Gets, Asks
  <2>2. "go" \notin Pages /\ "go" # "stay" BY DEF Pages, Gets
  <2>3. tab' = Sent(t, ask, cookies) BY <1>9, <2>2 DEF Receive, cookies, c
  <2> HIDE DEF ask
  <2> QED BY <1>2, <1>3, <1>7, <2>1, <2>3, SentKeeps
<1>10. CASE Shown(t, tab[t].page, tab[t].token)
  <2>1. tab[t].page \in Pages /\ tab[t].token \in Tokens \cup {Nil} BY <1>1 DEF TabRec
  <2> QED BY <1>2, <1>3, <1>7, <1>8, <1>10, <2>1, ShownKeeps
<1>11. CASE tab[t].then \in Pages
            /\ Shown(t, tab[t].then, IF tab[t].then = "none" THEN Nil ELSE Issued(t))
  <2> DEFINE token == IF tab[t].then = "none" THEN Nil ELSE Issued(t)
  <2>1. token \in Tokens \cup {Nil} BY <1>6
  <2>2. tab[t].clean /\ tab[t].then # "none" =>
          token = cookies.csrf /\ cookies.csrf # Nil
            /\ \A u \in Tabs \ {t} : UnderWay(u) => tab[u].with.csrf = cookies.csrf
    BY <1>3, <1>8
  <2>3. Shown(t, tab[t].then, token) BY <1>11
  <2> HIDE DEF token
  <2> QED BY <1>2, <1>3, <1>7, <1>11, <2>1, <2>2, <2>3, ShownKeeps
<1> QED BY <1>9, <1>10, <1>11 DEF Receive

-----------------------------------------------------------------------------
(* What the administrator, the clock and the lapse of a session change,    *)
(* no tab relies on.                                                       *)
LEMMA OthersKeep ==
  ASSUME IInv, \/ SessionEnds \/ Tick \/ Restart \/ \E role \in Accounts : Administer(role)
  PROVE  IInv'
<1> DEFINE Kept(u) ==
             /\ tab'[u].at = tab[u].at /\ tab'[u].with = tab[u].with
             /\ tab'[u].page = tab[u].page /\ tab'[u].token = tab[u].token
             /\ tab'[u].clean = tab[u].clean /\ tab'[u].set = tab[u].set
             /\ tab[u].entitled => tab'[u].entitled
             /\ UnderWay(u) /\ account' = "editor" =>
                  tab'[u].entitled \/ (account = "editor" /\ tab'[u] = tab[u])
           AllKept == /\ tab' \in [Tabs -> TabRec] /\ jar' \in Jars /\ jar'.csrf = jar.csrf
                      /\ account' \in Accounts /\ \A u \in Tabs : Kept(u)
<1>1. AllKept
  <2>0. tab \in [Tabs -> TabRec] /\ jar \in Jars /\ account \in Accounts BY DEF IInv, TypeOK
  <2>1. CASE SessionEnds
    <3>1. jar' \in Jars /\ jar'.csrf = jar.csrf BY <2>0, <2>1 DEF SessionEnds, Jars
    <3> QED BY <2>0, <2>1, <3>1 DEF SessionEnds
  <2>2. CASE Tick \/ Restart BY <2>0, <2>2 DEF Tick, Restart
  <2>3. ASSUME NEW role \in Accounts, Administer(role)
        PROVE  AllKept
    <3>1. jar' = jar /\ account' = role BY <2>3 DEF Administer
    <3>2. ASSUME NEW u \in Tabs
          PROVE  /\ tab'[u] \in TabRec
                 /\ tab'[u].at = tab[u].at /\ tab'[u].with = tab[u].with
                 /\ tab'[u].page = tab[u].page /\ tab'[u].token = tab[u].token
                 /\ tab'[u].clean = tab[u].clean /\ tab'[u].set = tab[u].set
                 /\ tab[u].entitled => tab'[u].entitled
                 /\ UnderWay(u) /\ role = "editor" => tab'[u].entitled
      <4> DEFINE e == tab[u].entitled \/ (UnderWay(u) /\ role = "editor")
      <4>1. tab'[u] = [tab[u] EXCEPT !.entitled = e] BY <2>0, <2>3 DEF Administer
      <4>2. e \in BOOLEAN /\ (tab[u].entitled => e) /\ (UnderWay(u) /\ role = "editor" => e)
        BY <2>0 DEF TabRec
      <4>3. tab[u] \in TabRec BY <2>0
      <4> HIDE DEF e
      <4> QED BY <4>1, <4>2, <4>3 DEF TabRec
    <3>3. tab' \in [Tabs -> TabRec]
      <4>1. \A u \in Tabs : tab'[u] \in TabRec BY <3>2
      <4> QED BY <2>3, <4>1 DEF Administer
    <3> QED BY <2>0, <3>1, <3>2, <3>3
  <2> QED BY <2>1, <2>2, <2>3
<1>2. clock' \in 1 .. MaxTime /\ blockedUntil' \in 0 .. MaxTime + Block
  <2>1. clock \in 1 .. MaxTime /\ blockedUntil \in 0 .. MaxTime + Block BY DEF IInv, TypeOK
  <2>2. MaxTime \in Nat \ {0} /\ Block \in Nat BY TabAssumption, ThrottleAssumption
  <2>3. clock' = clock \/ (clock < MaxTime /\ clock' = clock + 1)
    BY DEF SessionEnds, Tick, Restart, Administer
  <2>4. blockedUntil' \in {0, blockedUntil}
    BY DEF SessionEnds, Tick, Restart, Administer, Forget, throttle
  <2> QED BY <2>1, <2>2, <2>3, <2>4
<1>3. TypeOK' BY <1>1, <1>2 DEF TypeOK
<1>4. \A u \in Tabs : UnderWay(u)' = UnderWay(u) /\ Bare(u)' = Bare(u)
  BY <1>1 DEF UnderWay, Bare
<1>5. CookiesRight' BY <1>1 DEF IInv, CookiesRight, CookieRight
<1>6. TokensRight' BY <1>1, <1>4 DEF IInv, TokensRight, Relies
<1>7. RightsRight' BY <1>1, <1>4 DEF IInv, RightsRight, Entitled, UnderWay
<1> QED BY <1>3, <1>5, <1>6, <1>7 DEF IInv

LEMMA InitOK == Init => IInv
<1> SUFFICES ASSUME Init PROVE IInv OBVIOUS
<1>1. TypeOK
  <2>1. MaxTime \in Nat \ {0} /\ Block \in Nat BY TabAssumption, ThrottleAssumption
  <2>2. clock \in 1 .. MaxTime /\ blockedUntil \in 0 .. MaxTime + Block
    BY <2>1 DEF Init, ThrottleInit
  <2>3. jar \in Jars BY DEF Init, Jars
  <2> QED BY <2>2, <2>3, BlankTyped DEF Init, TypeOK
<1>2. \A t \in Tabs : tab[t] = Blank BY DEF Init
<1>3. CookiesRight BY <1>2, BlankTyped DEF CookiesRight
<1>4. TokensRight BY <1>2, BlankTyped DEF TokensRight, Relies
<1>5. RightsRight BY <1>2, BlankTyped DEF RightsRight, Entitled
<1> QED BY <1>1, <1>3, <1>4, <1>5 DEF IInv

LEMMA NextOK == IInv /\ [Next]_vars => IInv'
<1> SUFFICES ASSUME IInv, [Next]_vars PROVE IInv' OBVIOUS
<1>1. CASE UNCHANGED vars
  BY <1>1 DEF vars, throttle, IInv, TypeOK, CookiesRight, CookieRight, TokensRight, Relies,
              RightsRight, Entitled, UnderWay, Bare
<1>2. ASSUME NEW t \in Tabs, Serve(t) PROVE IInv'
  BY <1>2, AppKeeps, LoginPageKeeps, LoginKeeps, FindUserKeeps, VerifyKeeps, LogoutKeeps, EditKeeps
  DEF Serve
<1> QED BY <1>1, <1>2, SendKeeps, ReceiveKeeps, OthersKeep DEF Next

(* Types.                                                                  *)
THEOREM TypeCorrect == Spec => []TypeOK
<1>1. IInv => TypeOK BY DEF IInv
<1> QED BY <1>1, InitOK, NextOK, PTL DEF Spec

(* A page that was loaded while no other first request was under way keeps *)
(* a token that the server accepts, in any number of tabs.                 *)
THEOREM TokensCurrent == Spec => []TokenCurrent
<1>1. IInv => TokenCurrent
  BY TabAssumption DEF IInv, TokensRight, Relies, TokenCurrent
<1> QED BY <1>1, InitOK, NextOK, PTL DEF Spec

(* Nobody edits who was at no moment of the request an active editor.      *)
THEOREM EditsEntitled == Spec => []EditEntitled
<1>1. IInv => EditEntitled BY DEF IInv, RightsRight, Entitled, EditEntitled
<1> QED BY <1>1, InitOK, NextOK, PTL DEF Spec

-----------------------------------------------------------------------------
(* A set of naturals that is not empty has a least element.                *)
LEMMA LeastNatural ==
  ASSUME NEW S \in SUBSET Nat, S # {}
  PROVE  \E m \in S : \A n \in S : m <= n
<1> DEFINE R == OpToRel(<, Nat)
<1>1. IsWellFoundedOn(R, Nat)
  BY NatLessThanWellFounded, Zenon
<1>2. \A m, n \in Nat : n < m => <<n, m>> \in R
  BY DEF OpToRel
<1> HIDE DEF R
<1>3. PICK m \in S : \A n \in S : <<n, m>> \notin R
  BY <1>1, WFMin
<1>4. \A n \in S : n \in Nat /\ m \in Nat /\ ~(n < m)
  BY <1>2, <1>3
<1> QED BY <1>4

LEMMA Throttle == Window \in Nat \ {0} /\ MaxFailures \in Nat \ {0} /\ Block \in Nat /\ Block >= Window
  BY ThrottleAssumption

(* The failures that are popped are the oldest ones, up to the first that  *)
(* has not lapsed.                                                         *)
LEMMA LapsedIs ==
  ASSUME NEW times \in Seq(Int), clock \in Int
  PROVE  /\ Lapsed(times) \in 0 .. Len(times)
         /\ \A i \in 1 .. Lapsed(times) : times[i] <= clock - Window
         /\ Lapsed(times) < Len(times) => times[Lapsed(times) + 1] > clock - Window
<1> DEFINE S == {n \in 0 .. Len(times) : n < Len(times) => times[n + 1] > clock - Window}
<1>1. Len(times) \in S /\ S \in SUBSET Nat
  OBVIOUS
<1>2. PICK m \in S : \A n \in S : m <= n
  BY <1>1, LeastNatural
<1>3. \A i \in 1 .. m : times[i] <= clock - Window
  <2> SUFFICES ASSUME NEW i \in 1 .. m PROVE times[i] <= clock - Window
    OBVIOUS
  <2>0. m \in 0 .. Len(times) /\ Len(times) \in Nat
    OBVIOUS
  <2>1. i - 1 \notin S /\ i - 1 \in 0 .. Len(times) /\ i \in 1 .. Len(times)
    <3>1. i \in 1 .. Len(times) /\ i - 1 \in 0 .. Len(times) /\ ~(m <= i - 1)
      BY <2>0
    <3>2. i - 1 \notin S
      BY <1>2, <3>1
    <3> QED BY <3>1, <3>2
  <2>2. ~(times[i] > clock - Window) /\ times[i] \in Int
    BY <2>1
  <2> QED BY <2>2, Throttle
<1>4. m \in 0 .. Len(times) /\ (m < Len(times) => times[m + 1] > clock - Window)
  BY <1>2
<1> HIDE DEF S
<1> QED BY <1>3, <1>4 DEF Lapsed

LEMMA RecentIs ==
  ASSUME NEW times \in Seq(Int), clock \in Int
  PROVE  /\ Recent(times) \in Seq(Int)
         /\ Len(Recent(times)) = Len(times) - Lapsed(times)
         /\ \A i \in 1 .. Len(times) - Lapsed(times) : Recent(times)[i] = times[Lapsed(times) + i]
<1>1. PICK n \in 0 .. Len(times) : n = Lapsed(times)
  BY LapsedIs
<1>2. Recent(times) = SubSeq(times, n + 1, Len(times))
  BY <1>1 DEF Recent
<1>3. /\ SubSeq(times, n + 1, Len(times)) \in Seq(Int)
      /\ Len(SubSeq(times, n + 1, Len(times))) = Len(times) - n
      /\ \A i \in 1 .. Len(times) - n : SubSeq(times, n + 1, Len(times))[i] = times[n + i]
  OBVIOUS
<1> QED BY <1>1, <1>2, <1>3

-----------------------------------------------------------------------------
(* The throttle.  The failures in memory are the latest of those recorded, *)
(* too few for a block; what came before them has lapsed, or led to a      *)
(* block that has been reckoned from it or from a later one.               *)
Ordered ==
  /\ \A i, j \in 1 .. Len(recorded) : i <= j => recorded[i] <= recorded[j]
  /\ \A i \in 1 .. Len(recorded) : recorded[i] <= clock

LastFails ==
  LET gone == Len(recorded) - Len(failures) IN
  /\ gone >= 0
  /\ \A i \in 1 .. Len(failures) : failures[i] = recorded[gone + i]
  /\ Len(failures) < MaxFailures
  /\ gone > 0 => \/ recorded[gone] <= clock - Window
                 \/ recorded[gone] + Block <= blockedUntil

BlockEarned ==
  blockedUntil > clock => \E i \in MaxFailures .. Len(recorded) :
    /\ recorded[i] - recorded[i - MaxFailures + 1] < Window
    /\ blockedUntil <= recorded[i] + Block

TInv ==
  /\ clock \in Nat /\ blockedUntil \in Int /\ recorded \in Seq(Int) /\ failures \in Seq(Int)
  /\ blockedUntil <= clock + Block
  /\ Ordered /\ LastFails /\ BlockEarned

LEMMA ThrottleHolds == TInv => ThrottleRight
<1> SUFFICES ASSUME TInv PROVE ThrottleRight
  OBVIOUS
<1> DEFINE n == Len(recorded)
           f == Lapsed(recorded)
           gone == n - Len(failures)
<1>1. /\ recorded \in Seq(Int) /\ failures \in Seq(Int) /\ clock \in Int /\ blockedUntil \in Int
      /\ n \in Nat /\ Len(failures) \in Nat
  BY DEF TInv
<1>2. ASSUME Len(Recent(recorded)) >= MaxFailures, Allowed PROVE FALSE
  <2>1. /\ f \in 0 .. n /\ n - f >= MaxFailures
        /\ f < n => recorded[f + 1] > clock - Window
    BY <1>1, <1>2, LapsedIs, RecentIs
  <2>2. Len(failures) < MaxFailures /\ gone >= 0
    BY DEF TInv, LastFails
  <2>3. f + 1 \in 1 .. n /\ gone \in 1 .. n /\ f + 1 <= gone
    BY <1>1, <2>1, <2>2, Throttle
  <2>4. recorded[f + 1] <= recorded[gone] /\ recorded[f + 1] \in Int /\ recorded[gone] \in Int
    <3>1. recorded[f + 1] \in Int /\ recorded[gone] \in Int
      BY <1>1, <2>3
    <3>2. Ordered
      BY DEF TInv
    <3> HIDE DEF f, gone
    <3> QED BY <2>3, <3>1, <3>2 DEF Ordered
  <2>5. recorded[gone] <= clock - Window \/ recorded[gone] + Block <= blockedUntil
    BY <2>3 DEF TInv, LastFails
  <2>6. recorded[f + 1] > clock - Window
    BY <2>1, <2>3
  <2>7. blockedUntil <= clock
    BY <1>2 DEF Allowed
  <2> HIDE DEF n, f, gone
  <2> QED BY <1>1, <2>4, <2>5, <2>6, <2>7, Throttle
<1>3. ~Allowed => blockedUntil > clock
  BY <1>1 DEF Allowed
<1>4. ASSUME ~Allowed
      PROVE  \E i \in MaxFailures .. Len(recorded) :
               /\ recorded[i] - recorded[i - MaxFailures + 1] < Window
               /\ blockedUntil <= recorded[i] + Block
  BY <1>3, <1>4 DEF TInv, BlockEarned
<1>5. Len(Recent(recorded)) >= MaxFailures => ~Allowed
  BY <1>2
<1> QED BY <1>4, <1>5 DEF ThrottleRight

LEMMA ThrottleStarts == Init => TInv
<1> SUFFICES ASSUME Init PROVE TInv
  OBVIOUS
<1>1. clock = 1 /\ failures = <<>> /\ recorded = <<>> /\ blockedUntil = 0
  BY DEF Init, ThrottleInit
<1> QED BY <1>1, Throttle DEF TInv, Ordered, LastFails, BlockEarned

LEMMA ForgetKeeps == ASSUME TInv, Forget, clock' = clock PROVE TInv'
<1>1. failures' = <<>> /\ recorded' = <<>> /\ blockedUntil' = 0
  BY DEF Forget
<1>2. clock \in Nat
  BY DEF TInv
<1> QED BY <1>1, <1>2, Throttle DEF TInv, Ordered, LastFails, BlockEarned

LEMMA FailureKeeps == ASSUME TInv, RecordFailure, clock' = clock PROVE TInv'
<1> DEFINE n == Len(recorded)
           l == Lapsed(failures)
           gone == n - Len(failures)
           all == Counted(failures)
<1>1. /\ recorded \in Seq(Int) /\ failures \in Seq(Int) /\ clock \in Nat /\ blockedUntil \in Int
      /\ n \in Nat /\ Len(failures) \in Nat /\ blockedUntil <= clock + Block
  BY DEF TInv
<1>2. /\ recorded' \in Seq(Int) /\ Len(recorded') = n + 1 /\ recorded'[n + 1] = clock
      /\ \A i \in 1 .. n : recorded'[i] = recorded[i]
  BY <1>1 DEF RecordFailure
<1>3. l \in 0 .. Len(failures) /\ \A i \in 1 .. l : failures[i] <= clock - Window
  BY <1>1, LapsedIs
<1>4. /\ all \in Seq(Int) /\ Len(all) = Len(failures) - l + 1 /\ all[Len(failures) - l + 1] = clock
      /\ \A i \in 1 .. Len(failures) - l : all[i] = failures[l + i]
  <2> DEFINE kept == Recent(failures)
  <2>1. /\ kept \in Seq(Int) /\ Len(kept) = Len(failures) - l
        /\ \A i \in 1 .. Len(failures) - l : kept[i] = failures[l + i]
    <3>1. failures \in Seq(Int) /\ clock \in Int
      BY <1>1
    <3> QED BY <3>1, RecentIs
  <2>2. all = Append(kept, clock)
    BY DEF Counted
  <2> HIDE DEF kept, all, l
  <2> QED BY <1>1, <1>3, <2>1, <2>2
<1>5. Ordered'
  BY <1>1, <1>2 DEF RecordFailure, TInv, Ordered
<1>6. /\ gone >= 0 /\ Len(failures) < MaxFailures
      /\ \A i \in 1 .. Len(failures) : failures[i] = recorded[gone + i]
      /\ gone > 0 => recorded[gone] <= clock - Window \/ recorded[gone] + Block <= blockedUntil
  BY DEF TInv, LastFails
<1>d. n = Len(recorded) /\ gone = n - Len(failures) /\ gone \in 0 .. n
  BY <1>1, <1>6
<1> HIDE DEF n, l, gone, all
<1>7. CASE Len(all) >= MaxFailures
  <2>1. blockedUntil' = clock + Block /\ failures' = <<>>
    BY <1>7 DEF RecordFailure, all
  <2>2. l = 0 /\ Len(failures) = MaxFailures - 1
    BY <1>1, <1>3, <1>4, <1>6, <1>7, Throttle
  <2>3. LastFails'
    BY <1>1, <1>2, <2>1, Throttle DEF LastFails
  <2>4. ASSUME NEW i \in Nat, i = n + 2 - MaxFailures
        PROVE  i \in 1 .. n + 1 /\ recorded'[i] > clock - Window
    <3>1. CASE MaxFailures = 1
      BY <1>1, <1>2, <2>4, <3>1, Throttle
    <3>2. CASE MaxFailures > 1
      <4>1. failures[1] > clock - Window
        <5>1. l = 0 /\ l < Len(failures)
          BY <2>2, <3>2, Throttle
        <5>2. l < Len(failures) => failures[l + 1] > clock - Window
          BY <1>1, LapsedIs DEF l
        <5> QED BY <5>1, <5>2
      <4>2. i = gone + 1 /\ 1 \in 1 .. Len(failures) /\ i \in 1 .. n
        BY <1>d, <1>1, <2>2, <2>4, <3>2, Throttle
      <4>3. recorded'[i] = failures[1]
        BY <1>2, <1>6, <4>2
      <4> QED BY <1>1, <4>1, <4>2, <4>3
    <3> QED BY <3>1, <3>2, Throttle
  <2>5. n + 1 \in MaxFailures .. Len(recorded') /\ n + 2 - MaxFailures \in Nat
    BY <1>d, <1>1, <1>2, <2>2, Throttle
  <2>6. recorded'[n + 1] - recorded'[n + 1 - MaxFailures + 1] < Window
    BY <1>1, <1>2, <2>4, <2>5, Throttle
  <2>7. PICK i \in MaxFailures .. Len(recorded') : i = n + 1
    BY <2>5
  <2>8. BlockEarned'
    <3>1. recorded'[i] - recorded'[i - MaxFailures + 1] < Window
      <4>1. i - MaxFailures + 1 = n + 1 - MaxFailures + 1
        BY <1>d, <2>7, Throttle
      <4> QED BY <2>6, <2>7, <4>1
    <3>2. blockedUntil' <= recorded'[i] + Block
      BY <1>1, <1>2, <2>1, <2>7, Throttle
    <3> QED BY <2>7, <3>1, <3>2 DEF BlockEarned
  <2> QED BY <1>1, <1>2, <1>5, <2>1, <2>3, <2>8, Throttle DEF TInv
<1>8. CASE ~(Len(all) >= MaxFailures)
  <2>1. blockedUntil' = blockedUntil /\ failures' = all
    BY <1>8 DEF RecordFailure, all
  <2>2. LastFails'
    <3> DEFINE past == gone + l
    <3>1. past \in Nat /\ past = Len(recorded') - Len(all) /\ Len(all) < MaxFailures
      BY <1>d, <1>1, <1>2, <1>3, <1>4, <1>8, Throttle, SMTT(20)
    <3>2. ASSUME NEW i \in 1 .. Len(all) PROVE all[i] = recorded'[past + i]
      <4>1. CASE i = Len(all)
        <5>1. past + i = n + 1
          BY <1>1, <1>2, <1>4, <3>1, <4>1
        <5> QED BY <1>2, <1>4, <4>1, <5>1
      <4>2. CASE i < Len(all)
        <5>1. i \in 1 .. Len(failures) - l /\ l + i \in 1 .. Len(failures)
          BY <1>1, <1>3, <1>4, <4>2
        <5>2. all[i] = recorded[gone + (l + i)]
          BY <1>4, <1>6, <5>1
        <5>3. past + i = gone + (l + i) /\ past + i \in 1 .. n
          BY <1>d, <1>1, <1>3, <5>1, SMTT(20)
        <5> QED BY <1>2, <5>2, <5>3
      <4> QED BY <1>4, <4>1, <4>2
    <3>3. ASSUME past > 0
          PROVE  recorded'[past] <= clock - Window \/ recorded'[past] + Block <= blockedUntil
      <4>1. past \in 1 .. n /\ recorded'[past] = recorded[past]
        <5>1. past \in 1 .. n
          BY <1>d, <1>1, <1>3, <3>3
        <5> HIDE DEF past
        <5> QED BY <1>2, <5>1
      <4>2. CASE l = 0
        <5>1. past = gone /\ gone > 0
          BY <1>d, <3>3, <4>2
        <5> HIDE DEF past
        <5> QED BY <1>6, <4>1, <5>1
      <4>3. CASE l > 0
        <5>1. l \in 1 .. Len(failures) /\ failures[l] = recorded[past] /\ failures[l] <= clock - Window
          BY <1>3, <1>6, <4>3
        <5> QED BY <4>1, <5>1
      <4> QED BY <1>3, <4>2, <4>3
    <3> HIDE DEF past
    <3> QED BY <2>1, <3>1, <3>2, <3>3 DEF LastFails
  <2>3. BlockEarned'
    <3> SUFFICES ASSUME blockedUntil > clock PROVE BlockEarned'
      BY <2>1 DEF BlockEarned
    <3>1. PICK i \in MaxFailures .. n :
            /\ recorded[i] - recorded[i - MaxFailures + 1] < Window
            /\ blockedUntil <= recorded[i] + Block
      BY DEF TInv, BlockEarned, n
    <3>2. i \in 1 .. n /\ i - MaxFailures + 1 \in 1 .. n /\ i \in MaxFailures .. Len(recorded')
      BY <1>1, <1>2, <3>1, Throttle
    <3>3. recorded'[i] = recorded[i] /\ recorded'[i - MaxFailures + 1] = recorded[i - MaxFailures + 1]
      BY <1>2, <3>2
    <3> QED BY <2>1, <3>1, <3>2, <3>3 DEF BlockEarned
  <2> QED BY <1>1, <1>2, <1>4, <1>5, <2>1, <2>2, <2>3, Throttle DEF TInv
<1> QED BY <1>7, <1>8

LEMMA TimePasses == ASSUME TInv, UNCHANGED throttle, clock' = clock \/ clock' = clock + 1 PROVE TInv'
<1>1. failures' = failures /\ recorded' = recorded /\ blockedUntil' = blockedUntil
  BY DEF throttle
<1>2. clock \in Nat /\ clock' \in Nat /\ clock' >= clock /\ blockedUntil \in Int /\ recorded \in Seq(Int)
  BY DEF TInv
<1>a. blockedUntil <= clock + Block
  BY DEF TInv
<1>3. Ordered'
  <2>1. \A i \in 1 .. Len(recorded) : recorded[i] \in Int /\ recorded[i] <= clock
    BY <1>2 DEF TInv, Ordered
  <2>2. \A i \in 1 .. Len(recorded) : recorded[i] <= clock'
    BY <1>2, <2>1
  <2> QED BY <1>1, <2>2 DEF TInv, Ordered
<1>4. LastFails'
  <2> DEFINE gone == Len(recorded) - Len(failures)
  <2>1. /\ gone >= 0 /\ Len(failures) < MaxFailures
        /\ \A i \in 1 .. Len(failures) : failures[i] = recorded[gone + i]
        /\ gone > 0 => recorded[gone] <= clock - Window \/ recorded[gone] + Block <= blockedUntil
    BY DEF TInv, LastFails
  <2>2. gone > 0 => recorded[gone] \in Int
    BY <1>2, <2>1 DEF TInv
  <2>3. gone > 0 => recorded[gone] <= clock' - Window \/ recorded[gone] + Block <= blockedUntil
    BY <1>2, <2>1, <2>2, Throttle, SMTT(20)
  <2> QED BY <1>1, <2>1, <2>3 DEF LastFails
<1>5. BlockEarned'
  BY <1>1, <1>2 DEF TInv, BlockEarned
<1>6. blockedUntil <= clock' + Block
  <2>1. \A now \in Nat : now >= clock => blockedUntil <= now + Block
    BY <1>2, <1>a, Throttle
  <2> QED BY <1>2, <2>1
<1> QED BY <1>1, <1>2, <1>3, <1>4, <1>5, <1>6 DEF TInv

LEMMA ThrottleKept == TInv /\ [Next]_vars => TInv'
<1> SUFFICES ASSUME TInv, [Next]_vars PROVE TInv'
  OBVIOUS
<1>1. ASSUME NEW t \in Tabs, NEW right \in Verdicts, Verify(t, right) PROVE TInv'
  BY <1>1, ForgetKeeps, FailureKeeps DEF Verify
<1>2. CASE Restart
  BY <1>2, ForgetKeeps DEF Restart
<1>3. CASE UNCHANGED throttle /\ (clock' = clock \/ clock' = clock + 1)
  BY <1>3, TimePasses
<1>4. ASSUME NEW t \in Tabs,
             \/ \E ask \in Asks : Send(t, ask)
             \/ Receive(t) \/ ServeApp(t) \/ ServeLoginPage(t) \/ ServeLogin(t) \/ FindUser(t)
             \/ ServeLogout(t) \/ ServeEdit(t) \/ Edit(t)
      PROVE  UNCHANGED throttle /\ clock' = clock
  BY <1>4 DEF Send, Receive, ServeApp, ServeLoginPage, ServeLogin, FindUser, ServeLogout,
     ServeEdit, Edit, Rest
<1>5. CASE SessionEnds \/ Tick \/ \E role \in Accounts : Administer(role)
  BY <1>3, <1>5 DEF SessionEnds, Tick, Administer
<1>6. CASE UNCHANGED vars
  BY <1>3, <1>6 DEF vars
<1>7. ASSUME NEW t \in Tabs, Serve(t) PROVE TInv'
  BY <1>1, <1>3, <1>4, <1>7 DEF Serve
<1> QED BY <1>2, <1>3, <1>4, <1>5, <1>6, <1>7 DEF Next

(* However many logins are under way together, as soon as there are        *)
(* MaxFailures failures within a window the next ones are refused; and     *)
(* nobody is shut out without as many failures close enough together, or   *)
(* for longer than a block after the last of them: for any limits and      *)
(* times, with any overlap, success, restart and number of tabs.           *)
THEOREM ThrottleCorrect == Spec => []ThrottleRight
BY ThrottleStarts, ThrottleHolds, ThrottleKept, PTL DEF Spec

-----------------------------------------------------------------------------
(* A finite set of naturals that is not empty has a greatest element.      *)
LEMMA GreatestNatural ==
  ASSUME NEW S \in SUBSET Nat, IsFiniteSet(S), S # {}
  PROVE  \E m \in S : \A n \in S : n <= m
<1> DEFINE Above(m) == {n \in S : n > m}
           Sizes == {Cardinality(Above(m)) : m \in S}
<1>1. \A m \in S : IsFiniteSet(Above(m)) /\ Cardinality(Above(m)) \in Nat
  BY FS_Subset, FS_CardinalityType
<1>2. Sizes \in SUBSET Nat /\ Sizes # {}
  BY <1>1
<1>3. PICK m \in S : \A n \in S : Cardinality(Above(m)) <= Cardinality(Above(n))
  <2>1. PICK c \in Sizes : \A d \in Sizes : c <= d
    BY <1>2, LeastNatural
  <2> QED BY <2>1
<1>4. SUFFICES ASSUME NEW n \in S, n > m PROVE FALSE
  BY <1>3
<1>5. Above(n) \in SUBSET Above(m) /\ n \in Above(m) /\ n \notin Above(n)
  <2>1. n \in Above(m) /\ n \notin Above(n)
    BY <1>4
  <2>2. ASSUME NEW k \in Above(n) PROVE k \in Above(m)
    BY <1>4, <2>2
  <2> QED BY <2>1, <2>2
<1>6. /\ Cardinality(Above(n)) \in Nat /\ Cardinality(Above(m)) \in Nat
      /\ Cardinality(Above(n)) <= Cardinality(Above(m))
      /\ Cardinality(Above(n)) # Cardinality(Above(m))
  <2> HIDE DEF Above
  <2> QED BY <1>1, <1>5, FS_Subset
<1> HIDE DEF Above
<1> QED BY <1>3, <1>6

(* Rows that do not tie come in one order.                                 *)
LEMMA OneOrder ==
  ASSUME NEW rows, IsFiniteSet(rows), NEW key, ~Tied(rows, key),
         NEW s \in Orders(rows, key), NEW z \in Orders(rows, key)
  PROVE  s = z
<1> DEFINE N == Cardinality(rows)
           Differ == {i \in 1 .. N : s[i] # z[i]}
<1>1. N \in Nat /\ s \in [1 .. N -> rows] /\ z \in [1 .. N -> rows]
  BY FS_CardinalityType DEF Orders
<1>2. SUFFICES ASSUME Differ # {} PROVE FALSE
  BY <1>1
<1>3. PICK i \in Differ : \A j \in Differ : i <= j
  <2>1. Differ \in SUBSET Nat
    BY <1>1
  <2> HIDE DEF Differ
  <2> QED BY <1>2, <2>1, LeastNatural
<1>4. /\ \A j, k \in 1 .. N : j < k => s[j] # s[k] /\ ~Before(s[k], s[j], key)
      /\ \A j, k \in 1 .. N : j < k => z[j] # z[k] /\ ~Before(z[k], z[j], key)
  BY <1>1 DEF Orders
<1>a. /\ IsFiniteSet(1 .. N) /\ Cardinality(1 .. N) = N
  <2> HIDE DEF N
  <2> QED BY <1>1, FS_Interval
<1>5. s \in Injection(1 .. N, rows) /\ z \in Injection(1 .. N, rows)
  BY <1>1, <1>4 DEF Injection, IsInjective
<1>6. s \in Surjection(1 .. N, rows) /\ z \in Surjection(1 .. N, rows)
  BY <1>5, <1>a, FS_Injection
<1>7. PICK k \in 1 .. N : s[k] = z[i]
  BY <1>1, <1>3, <1>6 DEF Surjection
<1>8. PICK l \in 1 .. N : z[l] = s[i]
  BY <1>1, <1>3, <1>6 DEF Surjection
<1> HIDE DEF N
<1>9. i \in 1 .. N /\ s[i] # z[i] /\ \A j \in 1 .. N : j < i => s[j] = z[j]
  BY <1>1, <1>3
<1>10. k > i
  <2>1. k # i
    BY <1>7, <1>9
  <2>2. ~(k < i)
    BY <1>4, <1>7, <1>9
  <2> QED BY <1>9, <2>1, <2>2
<1>11. l > i
  <2>1. l # i
    BY <1>8, <1>9
  <2>2. ~(l < i)
    BY <1>4, <1>8, <1>9
  <2> QED BY <1>9, <2>1, <2>2
<1>12. ~Before(z[i], s[i], key) /\ ~Before(s[i], z[i], key) /\ s[i] \in rows /\ z[i] \in rows
  BY <1>1, <1>4, <1>7, <1>8, <1>9, <1>10, <1>11
<1> QED BY <1>9, <1>12 DEF Tied

-----------------------------------------------------------------------------
(* A choice that is resolved stays as it is.                               *)
LEMMA ResolvedIs ==
  ASSUME NEW t \in Tables, NEW v \in Selections[t], NEW rows
  PROVE  /\ Resolved(t, v, rows) \in Selections[t]
         /\ Resolved(t, Resolved(t, v, rows), rows) = Resolved(t, v, rows)
         /\ t # "groups" => Resolved(t, v, rows) = v
<1>1. CASE t # "groups" \/ Semesters = {} \/ v.picked.semester \cap Semesters # {}
  BY <1>1 DEF Resolved
<1>2. CASE ~(t # "groups" \/ Semesters = {} \/ v.picked.semester \cap Semesters # {})
  <2> DEFINE d == Default(rows)
             r == [v EXCEPT !.picked.semester = {d}]
  <2>1. d \in Semesters
    <3> DEFINE full == {s \in Semesters : \E row \in rows : row.semester = s}
               set == IF full = {} THEN Semesters ELSE full
    <3>1. set \in SUBSET Nat /\ IsFiniteSet(set) /\ set # {} /\ set \subseteq Semesters
      <4>1. IsFiniteSet(full)
        BY FS_Subset, TableAssumption
      <4> QED BY <1>2, <4>1, TableAssumption
    <3> HIDE DEF set
    <3>2. PICK m \in set : \A n \in set : n <= m
      BY <3>1, GreatestNatural
    <3>3. Latest(set) \in set
      BY <3>2 DEF Latest
    <3> QED BY <3>1, <3>3 DEF Default, set
  <2>2. d \in Nat
    BY <2>1, TableAssumption
  <2> HIDE DEF d
  <2>3. Resolved(t, v, rows) = r
    BY <1>2 DEF Resolved, d
  <2>4. r \in Selections[t] /\ r.picked.semester = {d}
    <3>1. t = "groups" /\ v \in [by : GroupsColumns \cup {""}, down : BOOLEAN,
                                  picked : [{"semester"} -> SUBSET Nat]]
      <4>1. t = "groups"
        BY <1>2
      <4>2. Selections.groups = [by : GroupsColumns \cup {""}, down : BOOLEAN,
                              picked : [{"semester"} -> SUBSET Nat]]
        BY DEF Selections
      <4> QED BY <4>1, <4>2
    <3>2. r.picked = [v.picked EXCEPT !["semester"] = {d}]
      BY <3>1
    <3>3. r.picked \in [{"semester"} -> SUBSET Nat] /\ r.picked.semester = {d}
      BY <2>2, <3>1, <3>2
    <3> HIDE DEF r
    <3>4. r = [v EXCEPT !.picked = r.picked]
      BY <3>1 DEF r
    <3> QED BY <3>1, <3>3, <3>4 DEF Selections
  <2>5. Resolved(t, r, rows) = r
    BY <2>1, <2>4 DEF Resolved
  <2> QED BY <1>2, <2>3, <2>4, <2>5
<1> QED BY <1>1, <1>2

(* The page p holds members o + 1 to m of the export s.                    *)
IsPage(p, s, o, m, S) ==
  /\ m \in o .. Len(s) /\ p.rows \in Seq(S) /\ Len(p.rows) = m - o
  /\ \A i \in 1 .. m - o : p.rows[i] = s[o + i]
  /\ p.next = IF m < Len(s) THEN m ELSE 0

(* A page of an export.                                                    *)
LEMMA PageIs ==
  ASSUME NEW S, NEW s \in Seq(S), NEW o \in 0 .. Len(s),
         NEW p, p = Page(s, o, Limit), NEW m, m = Upto(s, o + Limit)
  PROVE  IsPage(p, s, o, m, S)
<1> SUFFICES /\ m \in o .. Len(s) /\ p.rows \in Seq(S) /\ Len(p.rows) = m - o
             /\ \A i \in 1 .. m - o : p.rows[i] = s[o + i]
             /\ p.next = IF m < Len(s) THEN m ELSE 0
  BY DEF IsPage
<1> DEFINE e == Upto(s, o + Limit + 1)
           got == SubSeq(s, o + 1, e)
<1>1. Limit \in Nat /\ Limit > 0 /\ Len(s) \in Nat /\ o \in Nat /\ o <= Len(s)
  BY TableAssumption
<1>a. e \in Nat /\ e <= Len(s) /\ e >= o
  BY <1>1 DEF Upto
<1>2. /\ e = IF o + Limit + 1 < Len(s) THEN o + Limit + 1 ELSE Len(s)
      /\ m = IF o + Limit < Len(s) THEN o + Limit ELSE Len(s)
  BY <1>1 DEF Upto
<1> HIDE DEF e
<1>3. /\ got \in Seq(S) /\ Len(got) = e - o
      /\ \A i \in 1 .. e - o : got[i] = s[o + i]
  BY <1>1, <1>a
<1>4. p = IF Len(got) > Limit THEN [rows |-> SubSeq(got, 1, Limit), next |-> o + Limit]
          ELSE [rows |-> got, next |-> 0]
  BY DEF Page, e
<1> HIDE DEF got
<1>5. CASE o + Limit < Len(s)
  <2>1. Len(got) = Limit + 1 /\ m = o + Limit
    <3>1. e = o + Limit + 1 /\ m = o + Limit
      BY <1>1, <1>2, <1>5
    <3> QED BY <1>1, <1>3, <1>a, <3>1
  <2>2. p.rows = SubSeq(got, 1, Limit) /\ p.next = o + Limit
    BY <1>1, <1>4, <2>1
  <2>3. SubSeq(got, 1, Limit) \in Seq(S) /\ Len(SubSeq(got, 1, Limit)) = Limit
        /\ \A i \in 1 .. Limit : SubSeq(got, 1, Limit)[i] = got[i]
    BY <1>1, <1>3, <2>1
  <2> QED BY <1>1, <1>3, <1>5, <2>1, <2>2, <2>3
<1>6. CASE ~(o + Limit < Len(s))
  <2>1. e = Len(s) /\ m = Len(s)
    BY <1>1, <1>2, <1>6
  <2>2. p = [rows |-> got, next |-> 0]
    BY <1>1, <1>3, <1>4, <1>6, <2>1
  <2> QED BY <1>1, <1>3, <2>1, <2>2
<1> QED BY <1>5, <1>6

(* Lists that are alike.                                                   *)
LEMMA Alike ==
  ASSUME NEW S, NEW a \in Seq(S), NEW b \in Seq(S), Len(a) = Len(b),
         \A i \in 1 .. Len(a) : a[i] = b[i]
  PROVE  a = b
OBVIOUS

(* The first o members of a sequence and those up to the m-th.             *)
LEMMA Appended ==
  ASSUME NEW S, NEW s \in Seq(S), NEW o \in 0 .. Len(s), NEW m \in o .. Len(s),
         NEW r \in Seq(S), Len(r) = m - o, \A i \in 1 .. m - o : r[i] = s[o + i]
  PROVE  SubSeq(s, 1, o) \o r = SubSeq(s, 1, m) /\ Len(SubSeq(s, 1, m)) = m
<1>1. o \in Nat /\ m \in Nat /\ Len(s) \in Nat /\ o <= m /\ m <= Len(s)
  OBVIOUS
<1>2. /\ SubSeq(s, 1, o) \in Seq(S) /\ Len(SubSeq(s, 1, o)) = o
      /\ \A i \in 1 .. o : SubSeq(s, 1, o)[i] = s[i]
  BY <1>1
<1>3. /\ SubSeq(s, 1, m) \in Seq(S) /\ Len(SubSeq(s, 1, m)) = m
      /\ \A i \in 1 .. m : SubSeq(s, 1, m)[i] = s[i]
  BY <1>1
<1> DEFINE a == SubSeq(s, 1, o)
           all == a \o r
<1>4. a \in Seq(S) /\ Len(a) = o /\ \A i \in 1 .. o : a[i] = s[i]
  BY <1>2
<1> HIDE DEF a
<1>5. /\ all \in Seq(S) /\ Len(all) = m
      /\ \A i \in 1 .. m : all[i] = IF i <= o THEN a[i] ELSE r[i - o]
  BY <1>1, <1>4
<1>6. \A i \in 1 .. m : all[i] = s[i]
  <2> HIDE DEF all
  <2> SUFFICES ASSUME NEW i \in 1 .. m PROVE all[i] = s[i]
    OBVIOUS
  <2>1. CASE i <= o
    <3>1. i \in 1 .. o /\ a[i] = s[i]
      BY <1>1, <1>4, <2>1
    <3> QED BY <1>5, <2>1, <3>1
  <2>2. CASE ~(i <= o)
    <3>1. i - o \in 1 .. m - o /\ o + (i - o) = i
      BY <1>1, <2>2
    <3> QED BY <1>5, <2>2, <3>1
  <2> QED BY <2>1, <2>2
<1> HIDE DEF all
<1>7. all = SubSeq(s, 1, m)
  <2> DEFINE b == SubSeq(s, 1, m)
  <2>1. b \in Seq(S) /\ Len(b) = m /\ \A i \in 1 .. m : b[i] = s[i]
    BY <1>3
  <2> HIDE DEF b
  <2>2. all = b
    BY <1>5, <1>6, <2>1, Alike
  <2> QED BY <2>2 DEF b
<1> QED BY <1>3, <1>7 DEF all, a

(* A page says where the next one begins, if there is one.                 *)
LEMMA PageNext ==
  ASSUME NEW S, NEW s \in Seq(S), NEW o \in Nat, NEW p, p = Page(s, o, Limit)
  PROVE  /\ p.rows \in Seq(S) /\ (p.next = 0 \/ p.next = o + Len(p.rows))
<1> DEFINE got == SubSeq(s, o + 1, Upto(s, o + Limit + 1))
<1>1. Limit \in Nat /\ Limit > 0
  BY TableAssumption
<1>2. got \in Seq(S)
  BY <1>1 DEF Upto
<1>3. p = IF Len(got) > Limit THEN [rows |-> SubSeq(got, 1, Limit), next |-> o + Limit]
          ELSE [rows |-> got, next |-> 0]
  BY DEF Page
<1> HIDE DEF got
<1>4. CASE Len(got) > Limit
  <2>1. SubSeq(got, 1, Limit) \in Seq(S) /\ Len(SubSeq(got, 1, Limit)) = Limit
    BY <1>1, <1>2, <1>4
  <2> QED BY <1>3, <1>4, <2>1
<1>5. CASE ~(Len(got) > Limit)
  BY <1>2, <1>3, <1>5
<1> QED BY <1>4, <1>5

-----------------------------------------------------------------------------
(* A choice in which one column is picked anew.                            *)
LEMMA AloneIn ==
  ASSUME NEW f, f = [d \in DOMAIN f |-> f[d]], NEW c \in DOMAIN f, NEW o,
         NEW g, g = [f EXCEPT ![c] = {o}]
  PROVE  /\ DOMAIN g = DOMAIN f
         /\ \A d \in DOMAIN f \ {c} : g[d] = f[d]
         /\ \A x : x \in g[c] <=> x = o
  OBVIOUS

(* A choice whose column c is narrowed to o.                               *)
LEMMA NarrowedIs ==
  ASSUME NEW t \in Tables, NEW v \in Selections[t], NEW c \in DOMAIN v.picked, NEW o
  PROVE  /\ DOMAIN Alone(v, c, o).picked = DOMAIN v.picked
         /\ \A d \in DOMAIN v.picked \ {c} : Alone(v, c, o).picked[d] = v.picked[d]
         /\ \A x : x \in Alone(v, c, o).picked[c] <=> x = o
         /\ t = "active" => /\ Alone(v, c, o).dept = v.dept
                            /\ Alone(v, c, o).active = v.active
                            /\ Alone(v, c, o).actual = v.actual
                            /\ DOMAIN v.picked = {"name", "number", "type"}
<1> DEFINE w == Alone(v, c, o)
<1>1. CASE t = "active"
  <2>1. v \in [by : ActiveColumns \cup {""}, down : BOOLEAN,
               dept : BOOLEAN, active : BOOLEAN, actual : BOOLEAN,
               picked : [{"name", "number", "type"} -> SUBSET Nat]]
    <3>1. Selections.active = [by : ActiveColumns \cup {""}, down : BOOLEAN,
               dept : BOOLEAN, active : BOOLEAN, actual : BOOLEAN,
               picked : [{"name", "number", "type"} -> SUBSET Nat]]
      BY DEF Selections
    <3> QED BY <1>1, <3>1
  <2>2. w.picked = [v.picked EXCEPT ![c] = {o}]
    BY <2>1 DEF Alone
  <2>3. w.dept = v.dept /\ w.active = v.active /\ w.actual = v.actual
    BY <2>1 DEF Alone
  <2>4. DOMAIN v.picked = {"name", "number", "type"} /\ v.picked = [d \in DOMAIN v.picked |-> v.picked[d]]
    BY <2>1
  <2> QED BY <2>2, <2>3, <2>4, AloneIn
<1>2. CASE t = "directions"
  <2>1. v \in [by : DirectionsColumns \cup {""}, down : BOOLEAN,
               picked : [DirectionsColumns \ {"id"} -> SUBSET Nat]]
    <3>1. Selections.directions = [by : DirectionsColumns \cup {""}, down : BOOLEAN,
               picked : [DirectionsColumns \ {"id"} -> SUBSET Nat]]
      BY DEF Selections
    <3> QED BY <1>2, <3>1
  <2>2. w.picked = [v.picked EXCEPT ![c] = {o}]
    BY <2>1 DEF Alone
  <2>3. v.picked = [d \in DOMAIN v.picked |-> v.picked[d]]
    BY <2>1
  <2> QED BY <1>2, <2>2, <2>3, AloneIn
<1>3. CASE t = "groups"
  <2>1. v \in [by : GroupsColumns \cup {""}, down : BOOLEAN, picked : [{"semester"} -> SUBSET Nat]]
    <3>1. Selections.groups = [by : GroupsColumns \cup {""}, down : BOOLEAN,
                            picked : [{"semester"} -> SUBSET Nat]]
      BY DEF Selections
    <3> QED BY <1>3, <3>1
  <2>2. w.picked = [v.picked EXCEPT ![c] = {o}]
    BY <2>1 DEF Alone
  <2>3. v.picked = [d \in DOMAIN v.picked |-> v.picked[d]]
    BY <2>1
  <2> QED BY <1>3, <2>2, <2>3, AloneIn
<1> QED BY <1>1, <1>2, <1>3 DEF Tables

(* A choice of organizations is made of its fields.                        *)
LEMMA SelectionIs ==
  ASSUME NEW v \in Selections["active"]
  PROVE  v \in [by : ActiveColumns \cup {""}, down : BOOLEAN,
               dept : BOOLEAN, active : BOOLEAN, actual : BOOLEAN,
               picked : [{"name", "number", "type"} -> SUBSET Nat]]
BY DEF Selections

(* A menu is what the other columns leave: the rows of a value on it are   *)
(* those found with the value alone, apart from what the contracts ask.    *)
LEMMA MenuLeads ==
  ASSUME NEW t \in Tables, t # "groups", NEW v \in Selections[t], NEW c \in DOMAIN v.picked,
         c # "type", NEW o, NEW row
  PROVE  /\ row \in Found(t, Alone(v, c, o), {row}) =>
              row[c] = o /\ IF t = "active" THEN ActiveMatches(row, v, {c}) ELSE Matches(row, v, {c})
         /\ /\ row[c] = o /\ o # Null
            /\ IF t = "active" THEN ActiveMatches(row, v, {c}) ELSE Matches(row, v, {c})
            => \/ row \in Found(t, Alone(v, c, o), {row})
               \/ t = "active" /\ v.dept /\ c = "number" /\ ~row.signed
<1> DEFINE w == Alone(v, c, o)
<1>1. /\ DOMAIN w.picked = DOMAIN v.picked
      /\ \A d \in DOMAIN v.picked \ {c} : w.picked[d] = v.picked[d]
      /\ \A x : x \in w.picked[c] <=> x = o
      /\ t = "active" => /\ w.dept = v.dept /\ w.active = v.active /\ w.actual = v.actual
                         /\ DOMAIN v.picked = {"name", "number", "type"}
  BY NarrowedIs
<1> HIDE DEF w
<1>2. Matches(row, w, {}) <=> row[c] = o /\ Matches(row, v, {c})
  BY <1>1 DEF Matches
<1>a. t = "active" => (Matches(row, Known(w), {}) <=> row[c] = o /\ Matches(row, Known(v), {c}))
  <2> SUFFICES ASSUME t = "active"
               PROVE  Matches(row, Known(w), {}) <=> row[c] = o /\ Matches(row, Known(v), {c})
    OBVIOUS
  <2>1. /\ DOMAIN Known(v).picked = DOMAIN v.picked
        /\ \A d \in DOMAIN v.picked \ {"type"} : Known(v).picked[d] = v.picked[d]
        /\ Known(v).picked["type"] = v.picked["type"] \cap Types
    BY SelectionIs DEF Known
  <2>2. /\ DOMAIN Known(w).picked = DOMAIN w.picked
        /\ \A d \in DOMAIN w.picked \ {"type"} : Known(w).picked[d] = w.picked[d]
        /\ Known(w).picked["type"] = w.picked["type"] \cap Types
    BY SelectionIs DEF Known, w, Alone
  <2>3. /\ DOMAIN Known(w).picked = DOMAIN Known(v).picked
        /\ \A d \in DOMAIN v.picked \ {c} : Known(w).picked[d] = Known(v).picked[d]
        /\ \A x : x \in Known(w).picked[c] <=> x = o
    BY <1>1, <2>1, <2>2
  <2> QED BY <2>1, <2>3 DEF Matches
<1>3. CASE t = "directions"
  BY <1>2, <1>3 DEF Found, w
<1>4. CASE t = "active"
  <2>1. Detailed(v, {c}) => Detailed(w, {})
    BY <1>1, <1>4 DEF Detailed
  <2>2. c # "number" => (Detailed(w, {}) => Detailed(v, {c}))
    BY <1>1, <1>4 DEF Detailed
  <2>3. ~v.dept => Detailed(v, {c})
    BY DEF Detailed
  <2>4. ActiveMatches(row, w, {}) => row[c] = o /\ ActiveMatches(row, v, {c})
    BY <1>1, <1>a, <1>4, <2>1 DEF ActiveMatches
  <2>5. row[c] = o /\ o # Null /\ ActiveMatches(row, v, {c}) =>
          ActiveMatches(row, w, {}) \/ (v.dept /\ c = "number" /\ ~row.signed)
    BY <1>1, <1>a, <1>4, <2>2, <2>3 DEF ActiveMatches
  <2> QED BY <1>4, <2>4, <2>5 DEF Found, w
<1> QED BY <1>3, <1>4 DEF Tables

(* Whatever the view, the menus lead.                                      *)
LEMMA MenusLeadFor ==
  ASSUME table \in Tables, view \in Selections[table]
  PROVE  MenusLead
<1> SUFFICES ASSUME table # "groups", NEW c \in DOMAIN view.picked \ {"type"}
             PROVE  /\ \A o \in Offered(table, view, data, c) : Leads(c, o) \/ Unsigned(c, o)
                    /\ \A r \in data : r[c] # Null /\ Leads(c, r[c])
                                       => r[c] \in Offered(table, view, data, c)
  BY DEF MenusLead
<1> DEFINE Narrow(o) == Alone(view, c, o)
           Kept(r) == IF table = "active" THEN ActiveMatches(r, view, {c})
                      ELSE Matches(r, view, {c})
<1>2. ASSUME NEW o, NEW r
      PROVE  /\ r \in Found(table, Narrow(o), {r}) => r[c] = o /\ Kept(r)
             /\ r[c] = o /\ o # Null /\ Kept(r) =>
                  \/ r \in Found(table, Narrow(o), {r})
                  \/ table = "active" /\ view.dept /\ c = "number" /\ ~r.signed
  <2>1. c \in DOMAIN view.picked /\ c # "type"
    OBVIOUS
  <2> QED BY <2>1, MenuLeads
<1>3. \A o, r : r \in Found(table, Narrow(o), data)
                  <=> r \in data /\ r \in Found(table, Narrow(o), {r})
  BY DEF Found
<1>4. \A o : o \in Offered(table, view, data, c) <=> o # Null /\ \E r \in data : Kept(r) /\ o = r[c]
  BY DEF Offered
<1>5. \A o : Leads(c, o) <=> \E r \in data : r \in Found(table, Narrow(o), {r})
  BY <1>3 DEF Leads
<1> HIDE DEF Narrow, Kept
<1>6. ASSUME NEW o \in Offered(table, view, data, c) PROVE Leads(c, o) \/ Unsigned(c, o)
  <2>1. PICK r \in data : o # Null /\ Kept(r) /\ o = r[c]
    BY <1>4
  <2>2. CASE r \in Found(table, Narrow(o), {r})
    BY <1>5, <2>2
  <2>3. CASE table = "active" /\ view.dept /\ c = "number" /\ ~r.signed
    BY <2>1, <2>3 DEF Unsigned
  <2> QED BY <1>2, <2>1, <2>2, <2>3
<1>7. ASSUME NEW r \in data, r[c] # Null, Leads(c, r[c])
      PROVE  r[c] \in Offered(table, view, data, c)
  BY <1>2, <1>4, <1>5, <1>7
<1> QED BY <1>6, <1>7

-----------------------------------------------------------------------------
(* The invariant.  A choice the server has resolved stays resolved.        *)
Fixed(v) == v \in Selections[table] /\ Resolved(table, v, data) = v

PagesOf(v, d, o) == {Page(s, o, Limit) : s \in Exports(table, v, d)}

Pending(i) == Under(i, {"sent", "served"})
Ended(g) == g = 0 \/ (g \in Requests /\ Under(g, {"over"}))

(* Requests are numbered as they are sent.                                 *)
Numbered ==
  /\ DOMAIN reqs = 1 .. MaxSends
  /\ \E n \in 0 .. MaxSends : Requests = 1 .. n /\ last \in 0 .. n

Read(i) ==
  /\ reqs[i].kind \in {"refresh", "more"}
  /\ Under(i, {"sent"}) => Fixed(reqs[i].view) /\ reqs[i].offset \in Nat
  /\ Under(i, {"served"}) =>
       /\ reqs[i].data \subseteq Rows[table]
       /\ \E o \in Nat : reqs[i].page \in PagesOf(reqs[i].view, reqs[i].data, o)

(* The answer to a refresh begins an export; that to the last refresh is   *)
(* for the choice of now.                                                  *)
Refreshes(i) ==
  /\ i = last => reqs[i].view = view
  /\ Under(i, {"sent"}) => reqs[i].offset = 0
  /\ Under(i, {"served"}) => reqs[i].page \in PagesOf(reqs[i].view, reqs[i].data, 0)

(* Among the requests for more, only one was asked for from this table:    *)
(* the one its button waits for.                                           *)
Continues(i) ==
  /\ Ended(reqs[i].gen)
  /\ own /\ reqs[i].gen = gen =>
       /\ button.waits = i
       /\ Under(i, {"sent"}) => reqs[i].offset = Len(shown)
       /\ Under(i, {"served"}) => reqs[i].page \in PagesOf(reqs[i].view, reqs[i].data, Len(shown))

RequestOK(i) ==
  Pending(i) =>
    /\ Read(i)
    /\ reqs[i].kind = "refresh" => Refreshes(i)
    /\ reqs[i].kind = "more" => Continues(i)

PageTyped ==
  /\ table \in Tables /\ data \subseteq Rows[table] /\ Fixed(view)
  /\ shown \in Seq(Rows[table]) /\ button \in [next : Nat, waits : Nat]
  /\ head.data \subseteq Rows[table]

ShownOK ==
  /\ Ended(gen)
  /\ own => button.next = 0 \/ button.next = Len(shown)
  /\ gen = last => head.view = view \/ JustOpened

LastOK ==
  \/ gen = last
  \/ last \in Requests /\ Under(last, {"failed"})
  \/ last \in Requests /\ Pending(last) /\ reqs[last].kind = "refresh"

(* Rows, and where the next ones begin, are those of the export s.         *)
Agrees(rows, next, s) ==
  /\ Len(rows) <= Len(s) /\ rows = SubSeq(s, 1, Len(rows))
  /\ next = IF Len(rows) < Len(s) THEN Len(rows) ELSE 0

Scrolled ==
  own /\ ~Tied(Found(table, head.view, head.data), Key(table, head.view)) =>
    \E s \in Exports(table, head.view, head.data) : Agrees(shown, button.next, s)

PageInv == /\ Numbered /\ PageTyped /\ (\A i \in Requests : RequestOK(i))
           /\ ShownOK /\ LastOK /\ Scrolled

(* What a choice finds, and its exports.                                   *)
LEMMA FoundFinite ==
  ASSUME NEW t \in Tables, NEW v, NEW d \in SUBSET Rows[t]
  PROVE  /\ IsFiniteSet(Found(t, v, d)) /\ Found(t, v, d) \subseteq Rows[t]
         /\ \A s \in Exports(t, v, d) : s \in Seq(Rows[t])
<1>1. Found(t, v, d) \in SUBSET Rows[t] /\ IsFiniteSet(Rows[t])
  BY TableAssumption DEF Found
<1>2. IsFiniteSet(Found(t, v, d))
  BY <1>1, FS_Subset
<1>3. Cardinality(Found(t, v, d)) \in Nat
  BY <1>2, FS_CardinalityType
<1> QED BY <1>1, <1>2, <1>3 DEF Exports, Orders

(* The rows of a page, and where the next one begins.                      *)
LEMMA PageTypes ==
  ASSUME NEW v, NEW d, table \in Tables, d \subseteq Rows[table], NEW o \in Nat,
         NEW p \in PagesOf(v, d, o)
  PROVE  p.rows \in Seq(Rows[table]) /\ (p.next = 0 \/ p.next = o + Len(p.rows)) /\ p.next \in Nat
<1>1. PICK s \in Exports(table, v, d) : p = Page(s, o, Limit)
  BY DEF PagesOf
<1>2. s \in Seq(Rows[table])
  BY FoundFinite
<1>3. p.rows \in Seq(Rows[table]) /\ (p.next = 0 \/ p.next = o + Len(p.rows))
  BY <1>1, <1>2, PageNext
<1> QED BY <1>3

(* The next request has a number of its own.                               *)
LEMMA SentAnother ==
  ASSUME Numbered, Number <= MaxSends
  PROVE  /\ Number \in 1 .. MaxSends /\ Number \notin Requests /\ Requests = 1 .. Number - 1
         /\ last \in 0 .. Number - 1
<1>1. PICK n \in 0 .. MaxSends : Requests = 1 .. n /\ last \in 0 .. n
  BY DEF Numbered
<1>2. MaxSends \in Nat /\ Number = n + 1
  <2>1. Cardinality(1 .. n) = n
    BY FS_Interval
  <2> QED BY <1>1, <2>1, TableAssumption DEF Number
<1> HIDE DEF Number
<1> QED BY <1>1, <1>2

(* One request is replaced, by one that was sent too.                      *)
LEMMA RequestMoves ==
  ASSUME Numbered, NEW i \in Requests, NEW r, r.at # "unsent", reqs' = [reqs EXCEPT ![i] = r],
         UNCHANGED last
  PROVE  /\ Numbered' /\ Requests' = Requests
         /\ reqs'[i] = r /\ \A j \in Requests \ {i} : reqs'[j] = reqs[j]
         /\ \A g : Ended(g) /\ (Under(i, {"over"}) => r.at = "over") => Ended(g)'
<1>1. /\ DOMAIN reqs' = DOMAIN reqs /\ i \in DOMAIN reqs
      /\ reqs'[i] = r /\ \A j \in DOMAIN reqs \ {i} : reqs'[j] = reqs[j]
  BY DEF Requests, Under
<1>2. Requests' = Requests
  BY <1>1 DEF Requests
<1> QED BY <1>1, <1>2 DEF Numbered, Ended, Under, Requests

(* A page goes on where the rows of the export end: without ties it is the *)
(* same export.                                                            *)
LEMMA PageGoesOn ==
  ASSUME table \in Tables, NEW v, NEW d \in SUBSET Rows[table],
         ~Tied(Found(table, v, d), Key(table, v)), NEW s \in Exports(table, v, d),
         NEW rows, NEW o \in 0 .. Len(s), rows = SubSeq(s, 1, o),
         NEW p \in PagesOf(v, d, o)
  PROVE  Agrees(rows \o p.rows, p.next, s)
<1> DEFINE all == SubSeq(s, 1, o) \o p.rows
<1>1. PICK z \in Exports(table, v, d) : p = Page(z, o, Limit)
  BY DEF PagesOf
<1>2. z = s /\ s \in Seq(Rows[table])
  BY <1>1, FoundFinite, OneOrder DEF Exports
<1>3. PICK m : m = Upto(s, o + Limit)
  OBVIOUS
<1>4. /\ m \in o .. Len(s) /\ p.rows \in Seq(Rows[table]) /\ Len(p.rows) = m - o
      /\ \A i \in 1 .. m - o : p.rows[i] = s[o + i]
      /\ p.next = IF m < Len(s) THEN m ELSE 0
  <2>1. p = Page(s, o, Limit) /\ s \in Seq(Rows[table])
    BY <1>1, <1>2
  <2> DEFINE S == Rows[table]
  <2>2. s \in Seq(S)
    BY <2>1
  <2> HIDE DEF S
  <2>3. IsPage(p, s, o, m, S)
    BY <1>3, <2>1, <2>2, PageIs
  <2> QED BY <2>3 DEF IsPage, S
<1>5. all = SubSeq(s, 1, m) /\ Len(all) = m
  <2>1. SubSeq(s, 1, o) \o p.rows = SubSeq(s, 1, m) /\ Len(SubSeq(s, 1, m)) = m
    BY <1>2, <1>4, Appended
  <2> QED BY <2>1
<1>6. rows \o p.rows = all
  OBVIOUS
<1> HIDE DEF all
<1>7. Agrees(all, p.next, s)
  BY <1>4, <1>5 DEF Agrees
<1> QED BY <1>6, <1>7, Zenon

(* The first page begins an export.                                        *)
LEMMA Begins ==
  ASSUME table \in Tables, NEW v, NEW d \in SUBSET Rows[table],
         ~Tied(Found(table, v, d), Key(table, v)), NEW p \in PagesOf(v, d, 0)
  PROVE  \E s \in Exports(table, v, d) : Agrees(p.rows, p.next, s)
<1>1. PICK s \in Exports(table, v, d) : p = Page(s, 0, Limit)
  BY DEF PagesOf
<1>2. s \in Seq(Rows[table]) /\ p.rows \in Seq(Rows[table])
  BY <1>1, FoundFinite, PageTypes
<1>3. PICK o : o = 0
  OBVIOUS
<1>4. o \in 0 .. Len(s) /\ <<>> = SubSeq(s, 1, o) /\ p \in PagesOf(v, d, o)
  BY <1>2, <1>3
<1>5. Agrees(<<>> \o p.rows, p.next, s)
  BY <1>4, PageGoesOn, Zenon
<1>6. <<>> \o p.rows = p.rows
  BY <1>2
<1> QED BY <1>5, <1>6, Zenon

(* A choice that is resolved is answered with pages from its own offset.   *)
LEMMA FixedAnswers ==
  ASSUME NEW v, Fixed(v), NEW o
  PROVE  Answers(table, v, data, o, Limit) = PagesOf(v, data, o)
  BY DEF Fixed, Answers, PagesOf

LEMMA InitPage == TableInit => PageInv
<1> SUFFICES ASSUME TableInit PROVE PageInv
  OBVIOUS
<1> DEFINE opening == [at |-> "sent", kind |-> "refresh", view |-> view, offset |-> 0, gen |-> 0]
<1>1. /\ table \in Tables /\ data \in SUBSET Rows[table] /\ gen = 0
      /\ last = (IF table # "groups" /\ view # head.view THEN 1 ELSE 0)
      /\ last \in {0, 1} /\ last <= MaxSends
      /\ reqs = [i \in 1 .. MaxSends |-> IF i = last THEN opening ELSE Req]
      /\ head.data = data
  BY DEF TableInit
<1>2. Fixed(view) /\ Fixed(head.view)
  <2>1. PICK named, chosen \in Views[table] :
          /\ head = [view |-> Resolved(table, named, data), data |-> data]
          /\ view = Resolved(table, chosen, data)
    BY DEF TableInit
  <2>2. table \in Tables /\ named \in Selections[table] /\ chosen \in Selections[table]
    BY <1>1, <2>1, TableAssumption
  <2>3. head.view = Resolved(table, named, data)
    BY <2>1
  <2> QED BY <2>1, <2>2, <2>3, ResolvedIs DEF Fixed
<1>3. PICK p \in PagesOf(head.view, data, 0) :
        shown = p.rows /\ button = [next |-> p.next, waits |-> 0]
  BY <1>2, FixedAnswers DEF TableInit
<1>4. p.rows \in Seq(Rows[table]) /\ (p.next = 0 \/ p.next = 0 + Len(p.rows)) /\ p.next \in Nat
  BY <1>1, PageTypes
<1> HIDE DEF opening
<1>5. Requests = 1 .. last /\ \A i \in Requests : i = last /\ reqs[i] = opening
  <2>1. MaxSends \in Nat
    BY TableAssumption
  <2>2. \A i \in 1 .. MaxSends : i = last => reqs[i] = opening /\ reqs[i].at # "unsent"
    BY <1>1 DEF opening
  <2>3. \A i \in 1 .. MaxSends : i # last => reqs[i].at = "unsent"
    BY <1>1 DEF Req
  <2>4. DOMAIN reqs = 1 .. MaxSends
    BY <1>1
  <2>5. Requests = {i \in 1 .. MaxSends : i = last}
    BY <2>2, <2>3, <2>4 DEF Requests
  <2> QED BY <1>1, <2>1, <2>2, <2>5
<1>6. Numbered
  BY <1>1, <1>5, TableAssumption DEF Numbered
<1>7. PageTyped
  BY <1>1, <1>2, <1>3, <1>4 DEF PageTyped
<1>8. ASSUME NEW i \in Requests PROVE RequestOK(i)
  BY <1>2, <1>5 DEF RequestOK, Read, Refreshes, Pending, Under, opening
<1>9. ShownOK
  BY <1>1, <1>3, <1>4 DEF ShownOK, Ended, JustOpened
<1>10. LastOK
  <2>1. CASE last = 0
    BY <1>1, <2>1 DEF LastOK
  <2>2. CASE last = 1
    BY <1>5, <2>2 DEF LastOK, Pending, Under, opening
  <2> QED BY <1>1, <2>1, <2>2
<1>11. Scrolled
  BY <1>1, <1>3, Begins DEF Scrolled
<1> QED BY <1>6, <1>7, <1>8, <1>9, <1>10, <1>11 DEF PageInv

-----------------------------------------------------------------------------
(* Steps that leave what the page shows.                                   *)
LEMMA ShownStays ==
  ASSUME PageInv, UNCHANGED <<table, shown, button, head, own, gen, view, last>>,
         Numbered', data' \subseteq Rows[table], Fixed(view)',
         \A i \in Requests' : RequestOK(i)', Ended(gen)', LastOK'
  PROVE  PageInv'
<1>1. PageTyped' /\ ShownOK'
  BY DEF PageInv, PageTyped, ShownOK, JustOpened
<1>2. Scrolled'
  BY DEF PageInv, Scrolled
<1> QED BY <1>1, <1>2 DEF PageInv

LEMMA ChooseKeepsPage ==
  ASSUME PageInv, NEW v \in Views[table], Choose(v)
  PROVE PageInv'
<1> DEFINE n == Number
           r == [at |-> "sent", kind |-> "refresh", view |-> view', offset |-> 0, gen |-> gen]
<1>1. /\ n \in 1 .. MaxSends /\ n \notin Requests /\ Requests = 1 .. n - 1 /\ last \in 0 .. n - 1
  BY SentAnother DEF PageInv, Choose
<1>2. /\ view' = Resolved(table, v, data) /\ last' = n /\ reqs' = [reqs EXCEPT ![n] = r]
      /\ UNCHANGED <<table, data, shown, button, gen, head, own>>
  BY DEF Choose
<1> HIDE DEF n, r
<1>3. /\ DOMAIN reqs' = 1 .. MaxSends /\ reqs'[n] = r
      /\ \A i \in (1 .. MaxSends) \ {n} : reqs'[i] = reqs[i]
  BY <1>1, <1>2 DEF PageInv, Numbered
<1>4. Requests' = Requests \cup {n} /\ Requests \subseteq 1 .. MaxSends
  BY <1>1, <1>3 DEF Requests, r, PageInv, Numbered
<1>5. Numbered'
  <2>1. Requests' = 1 .. n
    BY <1>1, <1>4
  <2> QED BY <1>1, <1>2, <1>3, <2>1 DEF Numbered
<1>6. Fixed(view)'
  <2>1. table \in Tables /\ v \in Selections[table]
    BY TableAssumption DEF PageInv, PageTyped
  <2> QED BY <1>2, <2>1, ResolvedIs DEF Fixed
<1>7. \A g : Ended(g) => Ended(g)' /\ g # n
  BY <1>1, <1>3, <1>4 DEF Ended, Under
<1>8. ASSUME NEW i \in Requests' PROVE RequestOK(i)'
  <2>1. CASE i = n
    BY <1>2, <1>3, <1>6, <2>1 DEF RequestOK, Read, Refreshes, Pending, Under, r
  <2>2. CASE i # n
    <3>1. i \in Requests /\ reqs'[i] = reqs[i] /\ RequestOK(i)
      BY <1>3, <1>4, <1>8, <2>2 DEF PageInv
    <3> QED BY <1>2, <1>7, <2>2, <3>1
            DEF RequestOK, Read, Refreshes, Continues, Pending, Under, Fixed, PagesOf
  <2> QED BY <2>1, <2>2
<1>9. PageTyped' /\ ShownOK' /\ LastOK'
  BY <1>1, <1>2, <1>3, <1>4, <1>6, <1>7
  DEF PageInv, PageTyped, ShownOK, LastOK, JustOpened, Pending, Under, r
<1>10. Scrolled'
  BY <1>2 DEF PageInv, Scrolled
<1> QED BY <1>5, <1>8, <1>9, <1>10 DEF PageInv

LEMMA LoadMoreKeepsPage == ASSUME PageInv, LoadMore PROVE PageInv'
<1> DEFINE n == Number
           r == [at |-> "sent", kind |-> "more", view |-> view, offset |-> button.next, gen |-> gen]
<1>1. /\ n \in 1 .. MaxSends /\ n \notin Requests /\ Requests = 1 .. n - 1 /\ last \in 0 .. n - 1
  BY SentAnother DEF PageInv, LoadMore
<1>2. /\ reqs' = [reqs EXCEPT ![n] = r] /\ button' = [button EXCEPT !.waits = n]
      /\ button.next # 0 /\ button.waits = 0
      /\ UNCHANGED <<table, data, view, shown, last, gen, head, own>>
  BY DEF LoadMore
<1> HIDE DEF n, r
<1>3. /\ DOMAIN reqs' = 1 .. MaxSends /\ reqs'[n] = r
      /\ \A i \in (1 .. MaxSends) \ {n} : reqs'[i] = reqs[i]
  BY <1>1, <1>2 DEF PageInv, Numbered
<1>4. Requests' = Requests \cup {n} /\ Requests \subseteq 1 .. MaxSends
  BY <1>1, <1>3 DEF Requests, r, PageInv, Numbered
<1>5. Numbered'
  <2>1. Requests' = 1 .. n
    BY <1>1, <1>4
  <2> QED BY <1>1, <1>2, <1>3, <2>1 DEF Numbered
<1>6. \A g : Ended(g) => Ended(g)' /\ g # n
  BY <1>1, <1>3, <1>4 DEF Ended, Under
<1>7. button'.next = button.next /\ button'.waits = n /\ button' \in [next : Nat, waits : Nat]
  BY <1>1, <1>2 DEF PageInv, PageTyped
<1>8. ASSUME NEW i \in Requests' PROVE RequestOK(i)'
  <2>1. CASE i = n
    <3>1. own => button.next = Len(shown)
      BY <1>2 DEF PageInv, ShownOK
    <3>2. Fixed(view)' /\ button.next \in Nat /\ Ended(gen)'
      BY <1>2, <1>6 DEF PageInv, PageTyped, ShownOK, Fixed
    <3> QED BY <1>2, <1>3, <1>7, <2>1, <3>1, <3>2
            DEF RequestOK, Read, Continues, Pending, Under, r, Fixed
  <2>2. CASE i # n
    <3>1. i \in Requests /\ reqs'[i] = reqs[i] /\ RequestOK(i) /\ i # 0
      BY <1>1, <1>3, <1>4, <1>8, <2>2 DEF PageInv
    <3> QED BY <1>2, <1>6, <2>2, <3>1
            DEF RequestOK, Read, Refreshes, Continues, Pending, Under, Fixed, PagesOf
  <2> QED BY <2>1, <2>2
<1>9. PageTyped' /\ ShownOK' /\ LastOK'
  BY <1>1, <1>2, <1>3, <1>4, <1>6, <1>7
  DEF PageInv, PageTyped, ShownOK, LastOK, JustOpened, Pending, Under, Fixed
<1>10. Scrolled'
  BY <1>2, <1>7 DEF PageInv, Scrolled
<1> QED BY <1>5, <1>8, <1>9, <1>10 DEF PageInv

LEMMA ServeKeepsPage == ASSUME PageInv, NEW i \in Requests, ServeRows(i) PROVE PageInv'
<1>1. /\ Under(i, {"sent"}) /\ Pending(i) /\ RequestOK(i)
      /\ UNCHANGED <<table, data, view, shown, button, last, gen, head, own>>
  BY DEF ServeRows, PageInv, Pending, Under
<1>2. PICK page \in Answers(table, reqs[i].view, data, reqs[i].offset, Limit) :
        reqs' = [reqs EXCEPT ![i] =
          [at |-> "served", kind |-> reqs[i].kind, view |-> reqs[i].view, gen |-> reqs[i].gen,
           data |-> data, page |-> page]]
  BY DEF ServeRows
<1> DEFINE r == [at |-> "served", kind |-> reqs[i].kind, view |-> reqs[i].view,
                 gen |-> reqs[i].gen, data |-> data, page |-> page]
<1>3. /\ Numbered' /\ Requests' = Requests
      /\ reqs'[i] = r /\ \A j \in Requests \ {i} : reqs'[j] = reqs[j]
      /\ \A g : Ended(g) => Ended(g)'
  <2>1. r.at # "unsent" /\ ~Under(i, {"over"})
    BY <1>1 DEF Under
  <2>2. reqs' = [reqs EXCEPT ![i] = r]
    BY <1>2
  <2> HIDE DEF r
  <2> QED BY <1>1, <2>1, <2>2, RequestMoves DEF PageInv
<1>4. page \in PagesOf(reqs[i].view, data, reqs[i].offset) /\ reqs[i].offset \in Nat
  BY <1>1, FixedAnswers DEF RequestOK, Read
<1>5. RequestOK(i)'
  BY <1>1, <1>3, <1>4
  DEF RequestOK, Read, Refreshes, Continues, Pending, Under, PagesOf, PageInv, PageTyped
<1>6. ASSUME NEW j \in Requests' PROVE RequestOK(j)'
  <2>1. CASE j # i
    <3>1. j \in Requests /\ reqs'[j] = reqs[j] /\ RequestOK(j)
      BY <1>3, <1>6, <2>1 DEF PageInv
    <3> QED BY <1>1, <1>3, <3>1
            DEF RequestOK, Read, Refreshes, Continues, Pending, Under, Fixed, PagesOf
  <2> QED BY <1>5, <2>1
<1>7. data' \subseteq Rows[table] /\ Fixed(view)' /\ Ended(gen)'
  BY <1>1, <1>3 DEF PageInv, PageTyped, ShownOK, Fixed
<1>8. LastOK'
  BY <1>1, <1>3 DEF PageInv, LastOK, Pending, Under
<1> QED BY <1>1, <1>3, <1>6, <1>7, <1>8, ShownStays

LEMMA FailKeepsPage == ASSUME PageInv, NEW i \in Requests, Fail(i) PROVE PageInv'
<1> DEFINE r == [at |-> "failed"]
<1>1. /\ Pending(i) /\ RequestOK(i) /\ reqs' = [reqs EXCEPT ![i] = r]
      /\ UNCHANGED <<table, data, view, shown, last, gen, head, own>>
      /\ button' = [button EXCEPT !.waits = IF @ = i THEN 0 ELSE @]
  BY DEF Fail, PageInv, Pending
<1>2. /\ Numbered' /\ Requests' = Requests
      /\ reqs'[i] = r /\ \A j \in Requests \ {i} : reqs'[j] = reqs[j]
      /\ \A g : Ended(g) => Ended(g)'
  <2>1. r.at # "unsent" /\ ~Under(i, {"over"})
    BY <1>1 DEF Pending, Under
  <2> HIDE DEF r
  <2> QED BY <1>1, <2>1, RequestMoves DEF PageInv
<1>3. /\ button'.next = button.next /\ button' \in [next : Nat, waits : Nat]
      /\ button'.waits = IF button.waits = i THEN 0 ELSE button.waits
  BY <1>1 DEF PageInv, PageTyped
<1>4. ASSUME NEW j \in Requests' PROVE RequestOK(j)'
  <2>1. CASE j = i
    BY <1>2, <2>1 DEF RequestOK, Pending, Under
  <2>2. CASE j # i
    <3>1. j \in Requests /\ reqs'[j] = reqs[j] /\ RequestOK(j)
      BY <1>2, <1>4, <2>2 DEF PageInv
    <3> QED BY <1>1, <1>2, <1>3, <2>2, <3>1
            DEF RequestOK, Read, Refreshes, Continues, Pending, Under, Fixed, PagesOf
  <2> QED BY <2>1, <2>2
<1>5. PageTyped' /\ ShownOK'
  BY <1>1, <1>2, <1>3 DEF PageInv, PageTyped, ShownOK, JustOpened, Fixed
<1>6. LastOK'
  BY <1>1, <1>2 DEF PageInv, LastOK, Pending, Under
<1>7. Scrolled'
  BY <1>1, <1>3 DEF PageInv, Scrolled
<1> QED BY <1>2, <1>4, <1>5, <1>6, <1>7 DEF PageInv

LEMMA ReplaceKeepsPage ==
  ASSUME PageInv, NEW i \in Requests, Replace(i)
  PROVE PageInv'
<1> DEFINE r == [at |-> "over"]
<1>1. /\ Under(i, {"served"}) /\ Pending(i) /\ RequestOK(i) /\ reqs[i].kind = "refresh"
      /\ reqs' = [reqs EXCEPT ![i] = r] /\ UNCHANGED <<table, data, edits, view, last>>
  BY DEF Replace, Over, PageInv, Pending, Under
<1>2. /\ Numbered' /\ Requests' = Requests
      /\ reqs'[i] = r /\ \A j \in Requests \ {i} : reqs'[j] = reqs[j]
      /\ \A g : Ended(g) => Ended(g)'
  <2>1. r.at # "unsent" /\ r.at = "over"
    OBVIOUS
  <2> HIDE DEF r
  <2> QED BY <1>1, <2>1, RequestMoves DEF PageInv
<1>3. ASSUME NEW j \in Requests', j # i PROVE j \in Requests /\ reqs'[j] = reqs[j] /\ RequestOK(j)
  BY <1>2, <1>3 DEF PageInv
<1>4. ~Pending(i)' /\ Ended(i)'
  BY <1>2 DEF Pending, Under, Ended
<1>5. CASE i # last
  <2>1. UNCHANGED <<shown, button, gen, head, own>>
    BY <1>5 DEF Replace, IsLatest
  <2>2. ASSUME NEW j \in Requests' PROVE RequestOK(j)'
    <3>1. CASE j = i
      BY <1>4, <3>1 DEF RequestOK
    <3>2. CASE j # i
      BY <1>1, <1>2, <1>3, <2>1, <3>2
         DEF RequestOK, Read, Refreshes, Continues, Pending, Under, Fixed, PagesOf
    <3> QED BY <3>1, <3>2
  <2>3. LastOK' /\ Ended(gen)'
    BY <1>1, <1>2, <1>5, <2>1 DEF PageInv, LastOK, Pending, Under, ShownOK
  <2>4. data' \subseteq Rows[table] /\ Fixed(view)'
    BY <1>1 DEF PageInv, PageTyped, Fixed
  <2> QED BY <1>1, <1>2, <2>1, <2>2, <2>3, <2>4, ShownStays
<1>6. CASE i = last
  <2>1. /\ shown' = reqs[i].page.rows /\ button' = [next |-> reqs[i].page.next, waits |-> 0]
        /\ gen' = i /\ own' = TRUE
        /\ head' = [view |-> reqs[i].view, data |-> reqs[i].data]
    BY <1>6 DEF Replace, IsLatest
  <2>2. /\ reqs[i].page \in PagesOf(reqs[i].view, reqs[i].data, 0)
        /\ reqs[i].data \in SUBSET Rows[table] /\ reqs[i].view = view
    BY <1>1, <1>6 DEF RequestOK, Read, Refreshes
  <2>3. PICK p : p = reqs[i].page
    OBVIOUS
  <2>4. p.rows \in Seq(Rows[table]) /\ (p.next = 0 \/ p.next = 0 + Len(p.rows)) /\ p.next \in Nat
    BY <2>2, <2>3, PageTypes DEF PageInv, PageTyped
  <2>5. ASSUME NEW j \in Requests' PROVE RequestOK(j)'
    <3>1. CASE j = i
      BY <1>4, <3>1 DEF RequestOK
    <3>2. CASE j # i
      <4>1. Ended(reqs[j].gen) => reqs[j].gen # i
        <5>1. i # 0
          BY DEF PageInv, Numbered
        <5> QED BY <1>1, <5>1 DEF Ended, Under
      <4> QED BY <1>1, <1>2, <1>3, <2>1, <3>2, <4>1
              DEF RequestOK, Read, Refreshes, Continues, Pending, Under, Fixed, PagesOf
    <3> QED BY <3>1, <3>2
  <2>6. PageTyped'
    BY <1>1, <2>1, <2>2, <2>3, <2>4 DEF PageInv, PageTyped, Fixed
  <2>7. ShownOK' /\ LastOK'
    BY <1>1, <1>4, <1>6, <2>1, <2>2, <2>3, <2>4 DEF ShownOK, LastOK
  <2>8. Scrolled'
    <3>1. SUFFICES ASSUME ~Tied(Found(table, head'.view, head'.data), Key(table, head'.view))
                   PROVE  \E s \in Exports(table, head'.view, head'.data) :
                            Agrees(shown', button'.next, s)
      BY <1>1 DEF Scrolled
    <3> QED BY <2>1, <2>2, <2>3, <3>1, Begins DEF PageInv, PageTyped
  <2> QED BY <1>2, <2>5, <2>6, <2>7, <2>8 DEF PageInv
<1> QED BY <1>5, <1>6

(* A list with another after it.                                            *)
LEMMA Joined ==
  ASSUME NEW S, NEW a \in Seq(S), NEW b \in Seq(S)
  PROVE  a \o b \in Seq(S) /\ Len(a \o b) = Len(a) + Len(b)
OBVIOUS

LEMMA ExtendKeepsPage ==
  ASSUME PageInv, NEW i \in Requests, Extend(i)
  PROVE PageInv'
<1> DEFINE r == [at |-> "over"]
<1>1. /\ Under(i, {"served"}) /\ Pending(i) /\ RequestOK(i) /\ reqs[i].kind = "more"
      /\ reqs' = [reqs EXCEPT ![i] = r]
      /\ UNCHANGED <<table, data, view, last, gen, head>>
  BY DEF Extend, Over, PageInv, Pending, Under
<1>2. /\ Numbered' /\ Requests' = Requests
      /\ reqs'[i] = r /\ \A j \in Requests \ {i} : reqs'[j] = reqs[j]
      /\ \A g : Ended(g) => Ended(g)'
  <2>1. r.at # "unsent" /\ r.at = "over"
    OBVIOUS
  <2> HIDE DEF r
  <2> QED BY <1>1, <2>1, RequestMoves DEF PageInv
<1>3. ASSUME NEW j \in Requests', j # i PROVE j \in Requests /\ reqs'[j] = reqs[j] /\ RequestOK(j)
  BY <1>2, <1>3 DEF PageInv
<1>4. ~Pending(i)'
  BY <1>2 DEF Pending, Under
<1>5. LastOK' /\ Ended(gen)'
  BY <1>1, <1>2 DEF PageInv, LastOK, Pending, Under, ShownOK
<1>6. CASE shown = <<>>
  <2>1. UNCHANGED <<shown, button, own>>
    BY <1>6 DEF Extend
  <2>2. ASSUME NEW j \in Requests' PROVE RequestOK(j)'
    <3>1. CASE j = i
      BY <1>4, <3>1 DEF RequestOK
    <3>2. CASE j # i
      BY <1>1, <1>2, <1>3, <2>1, <3>2
         DEF RequestOK, Read, Refreshes, Continues, Pending, Under, Fixed, PagesOf
    <3> QED BY <3>1, <3>2
  <2>3. data' \subseteq Rows[table] /\ Fixed(view)'
    BY <1>1 DEF PageInv, PageTyped, Fixed
  <2> QED BY <1>1, <1>2, <1>5, <2>1, <2>2, <2>3, ShownStays
<1>7. CASE shown # <<>>
  <2>1. PICK p : p = reqs[i].page
    OBVIOUS
  <2>2. /\ shown' = shown \o p.rows /\ button' = [next |-> p.next, waits |-> 0]
        /\ own' = (own /\ reqs[i].gen = gen
                       /\ reqs[i].view = head.view /\ reqs[i].data = head.data)
    BY <1>7, <2>1 DEF Extend
  <2>3. /\ reqs[i].data \subseteq Rows[table] /\ table \in Tables
        /\ \E o \in Nat : p \in PagesOf(reqs[i].view, reqs[i].data, o)
        /\ own' => button.waits = i /\ p \in PagesOf(head.view, head.data, Len(shown))
    BY <1>1, <2>1, <2>2 DEF RequestOK, Read, Continues, PageInv, PageTyped
  <2>4. p.rows \in Seq(Rows[table]) /\ p.next \in Nat
    BY <2>3, PageTypes
  <2>5. shown \in Seq(Rows[table]) /\ Len(shown) \in Nat
    BY DEF PageInv, PageTyped
  <2>6. shown' \in Seq(Rows[table]) /\ Len(shown') = Len(shown) + Len(p.rows)
    <3>1. shown \o p.rows \in Seq(Rows[table]) /\ Len(shown \o p.rows) = Len(shown) + Len(p.rows)
      BY <2>4, <2>5, Joined
    <3> QED BY <2>2, <3>1, Zenon
  <2>7. own' => p.next = 0 \/ p.next = Len(shown')
    BY <2>3, <2>5, <2>6, PageTypes DEF PageInv, PageTyped
  <2>8. ASSUME NEW j \in Requests' PROVE RequestOK(j)'
    <3>1. CASE j = i
      BY <1>4, <3>1 DEF RequestOK
    <3>2. CASE j # i
      <4>1. reqs[j].kind = "more" /\ Pending(j) /\ own' => reqs[j].gen # gen
        BY <1>3, <2>2, <2>3, <3>2 DEF RequestOK, Continues
      <4> HIDE DEF Pending
      <4>2. Pending(j)' = Pending(j)
        BY <1>3, <3>2 DEF Pending, Under
      <4>3. reqs'[j] = reqs[j] /\ (Pending(j) =>
                                      /\ Read(j)
                                      /\ reqs[j].kind = "refresh" => Refreshes(j)
                                      /\ reqs[j].kind = "more" => Continues(j))
        BY <1>3, <3>2 DEF RequestOK
      <4>4. Pending(j) => Read(j)'
        BY <1>1, <4>3 DEF Read, Under, Fixed, PagesOf
      <4>5. Pending(j) /\ reqs[j].kind = "refresh" => Refreshes(j)'
        BY <1>1, <4>3 DEF Refreshes, Under, PagesOf
      <4>6. Pending(j) /\ reqs[j].kind = "more" => Continues(j)'
        BY <1>1, <1>2, <2>2, <4>1, <4>3 DEF Continues
      <4> QED BY <4>2, <4>3, <4>4, <4>5, <4>6 DEF RequestOK
    <3> QED BY <3>1, <3>2
  <2>9. PageTyped'
    BY <1>1, <2>2, <2>4, <2>6 DEF PageInv, PageTyped, Fixed
  <2>10. ShownOK'
    BY <1>1, <1>5, <2>2, <2>7 DEF PageInv, ShownOK, JustOpened
  <2>11. Scrolled'
    <3>1. SUFFICES ASSUME own', ~Tied(Found(table, head.view, head.data), Key(table, head.view))
                   PROVE  \E s \in Exports(table, head.view, head.data) :
                            Agrees(shown', button'.next, s)
      BY <1>1 DEF Scrolled
    <3>2. PICK s \in Exports(table, head.view, head.data) : Agrees(shown, button.next, s)
      BY <2>2, <3>1 DEF PageInv, Scrolled
    <3>3. PICK o : o = Len(shown)
      OBVIOUS
    <3>4. /\ shown = SubSeq(s, 1, o) /\ o <= Len(s)
      BY <3>2, <3>3 DEF Agrees
    <3>5. s \in Seq(Rows[table]) /\ head.data \in SUBSET Rows[table]
      BY FoundFinite DEF PageInv, PageTyped
    <3>6. o \in 0 .. Len(s) /\ p \in PagesOf(head.view, head.data, o)
      BY <2>3, <2>5, <3>1, <3>3, <3>4, <3>5
    <3>7. Agrees(shown \o p.rows, p.next, s)
      BY <2>3, <3>1, <3>4, <3>5, <3>6, PageGoesOn, Zenon
    <3>8. button'.next = p.next
      BY <2>2
    <3> QED BY <2>2, <3>7, <3>8, Zenon
  <2> QED BY <1>2, <1>5, <2>8, <2>9, <2>10, <2>11 DEF PageInv
<1> QED BY <1>6, <1>7

LEMMA EditKeepsPage ==
  ASSUME PageInv, NEW row \in Rows[table], EditRows(row)
  PROVE PageInv'
<1>1. /\ table # "groups" /\ data' \subseteq Rows[table]
      /\ UNCHANGED <<table, view, shown, button, reqs, last, gen, head, own>>
  BY DEF EditRows, PageInv, PageTyped
<1>2. \A v : Fixed(v) => Fixed(v)'
  BY <1>1, ResolvedIs DEF Fixed, PageInv, PageTyped
<1>3. Requests' = Requests /\ Numbered' /\ Ended(gen)' /\ LastOK'
  BY <1>1 DEF Requests, Numbered, PageInv, Ended, ShownOK, Under, LastOK, Pending
<1>4. ASSUME NEW i \in Requests' PROVE RequestOK(i)'
  <2>1. RequestOK(i) /\ reqs'[i] = reqs[i]
    BY <1>1, <1>3, <1>4 DEF PageInv
  <2> QED BY <1>1, <1>2, <1>3, <2>1 DEF RequestOK, Read, Refreshes, Continues, Pending, Under,
                                       PagesOf, Ended
<1>5. Fixed(view)'
  BY <1>1, <1>2 DEF PageInv, PageTyped
<1> QED BY <1>1, <1>3, <1>4, <1>5, ShownStays

LEMMA NextPage ==
  PageInv /\ [TableNext]_tableVars => PageInv'
<1> SUFFICES ASSUME PageInv, [TableNext]_tableVars PROVE PageInv'
  OBVIOUS
<1>1. CASE UNCHANGED tableVars
  <2>1. UNCHANGED <<table, data, edits, view, shown, button, reqs, last, gen, head, own>>
    BY <1>1 DEF tableVars
  <2> QED BY <2>1
          DEF PageInv, Numbered, Requests, PageTyped, Fixed, RequestOK, Read, Refreshes, Continues,
                      Pending, Under, PagesOf, Ended, ShownOK, JustOpened, LastOK, Scrolled
<1> QED BY <1>1, ChooseKeepsPage, LoadMoreKeepsPage, ServeKeepsPage, ReplaceKeepsPage,
           ExtendKeepsPage, FailKeepsPage,
           EditKeepsPage DEF TableNext

LEMMA PageShows == PageInv => ShowsChoice
<1> SUFFICES ASSUME PageInv PROVE ShowsChoice
  OBVIOUS
<1>1. LastChoiceShown
  BY DEF PageInv, ShownOK, LastOK, LastChoiceShown, Pending, Under
<1>2. ScrolledIsExport
  BY DEF PageInv, Scrolled, ScrolledIsExport, Agrees
<1> QED BY <1>1, <1>2 DEF ShowsChoice

(* For any answers, in any order, some of which fail, and any edits by     *)
(* others: the page comes to show the last choice made, be it stored or    *)
(* made on it, but a page of the groups shows the semester of its address  *)
(* until another is chosen; and the rows that are scrolled into it under   *)
(* one choice are those of the export, unless they tie (refreshTable,      *)
(* loadMoreRows, fetch_...).                                               *)
THEOREM ChoiceShown == TableSpec => []ShowsChoice
<1>1. TableInit => PageInv
  BY InitPage
<1>2. PageInv /\ [TableNext]_tableVars => PageInv'
  BY NextPage
<1> QED BY <1>1, <1>2, PageShows, PTL DEF TableSpec

(* A menu offers the values that lead to rows, and of the others only      *)
(* numbers of contracts that are not signed, whatever the rows and the     *)
(* choice of the user (_build_filter_options_query).                       *)
THEOREM MenusLeadToRows == TableSpec => []MenusLead
<1>1. TableInit => PageInv
  BY InitPage
<1>2. PageInv /\ [TableNext]_tableVars => PageInv'
  BY NextPage
<1>3. PageInv => MenusLead
  BY MenusLeadFor DEF PageInv, PageTyped, Fixed
<1> QED BY <1>1, <1>2, <1>3, PTL DEF TableSpec

-----------------------------------------------------------------------------
(* The statistics.  A finite set can be listed in any strict total order.  *)
StrictOrder(L, S) ==
  /\ \A x \in S : <<x, x>> \notin L
  /\ \A x, y \in S : x # y => (<<x, y>> \in L \/ <<y, x>> \in L)
  /\ \A x, y, z \in S : <<x, y>> \in L /\ <<y, z>> \in L => <<x, z>> \in L
Listing(s, L, S) ==
  /\ s \in [1 .. Cardinality(S) -> S]
  /\ \A i, j \in 1 .. Cardinality(S) : i < j => <<s[i], s[j]>> \in L

LEMMA Listed ==
  ASSUME NEW S, IsFiniteSet(S), NEW L, StrictOrder(L, S)
  PROVE  \E s : Listing(s, L, S)
<1> DEFINE N == Cardinality(S)
           Below(x) == {y \in S : <<y, x>> \in L}
           Rank == [x \in S |-> Cardinality(Below(x)) + 1]
<1>1. N \in Nat /\ IsFiniteSet(1 .. N) /\ Cardinality(1 .. N) = N
  <2>1. N \in Nat
    BY FS_CardinalityType
  <2> HIDE DEF N
  <2> QED BY <2>1, FS_Interval
<1>2. \A x \in S : IsFiniteSet(Below(x)) /\ Cardinality(Below(x)) \in Nat
  BY FS_Subset, FS_CardinalityType
<1>3. \A x \in S : Cardinality(Below(x)) < N
  <2> TAKE x \in S
  <2>1. Below(x) \in SUBSET S /\ Below(x) # S
    BY DEF StrictOrder
  <2> HIDE DEF Below, N
  <2>2. Cardinality(Below(x)) <= Cardinality(S) /\ Cardinality(S) # Cardinality(Below(x))
    BY <2>1, FS_Subset
  <2> QED BY <1>1, <1>2, <2>2 DEF N
<1>4. \A x, y \in S : <<x, y>> \in L => Cardinality(Below(x)) < Cardinality(Below(y))
  <2> SUFFICES ASSUME NEW x \in S, NEW y \in S, <<x, y>> \in L
               PROVE  Cardinality(Below(x)) < Cardinality(Below(y))
    OBVIOUS
  <2>1. Below(x) \in SUBSET Below(y) /\ Below(x) # Below(y)
    BY DEF StrictOrder
  <2> HIDE DEF Below
  <2>2. /\ Cardinality(Below(x)) <= Cardinality(Below(y))
        /\ Cardinality(Below(x)) # Cardinality(Below(y))
    BY <1>2, <2>1, FS_Subset
  <2> QED BY <1>2, <2>2
<1>5. Rank \in Injection(S, 1 .. N)
  <2>1. Rank \in [S -> 1 .. N]
    <3> HIDE DEF Below, N
    <3> QED BY <1>1, <1>2, <1>3
  <2>2. ASSUME NEW x \in S, NEW y \in S, x # y PROVE Rank[x] # Rank[y]
    <3>1. Rank[x] = Cardinality(Below(x)) + 1 /\ Rank[y] = Cardinality(Below(y)) + 1
      OBVIOUS
    <3>2. <<x, y>> \in L \/ <<y, x>> \in L
      BY <2>2 DEF StrictOrder
    <3> HIDE DEF Below, Rank
    <3>3. Cardinality(Below(x)) # Cardinality(Below(y))
      BY <1>2, <1>4, <3>2
    <3> QED BY <1>2, <3>1, <3>3
  <2> QED BY <2>1, <2>2 DEF Injection, IsInjective
<1> HIDE DEF Rank
<1>6. Rank \in Surjection(S, 1 .. N)
  BY <1>1, <1>5, FS_Injection
<1> DEFINE s == [i \in 1 .. N |-> CHOOSE x \in S : Rank[x] = i]
<1>7. \A i \in 1 .. N : s[i] \in S /\ Rank[s[i]] = i
  <2> TAKE i \in 1 .. N
  <2>1. \E x \in S : Rank[x] = i
    BY <1>6 DEF Surjection
  <2> QED BY <2>1
<1>8. \A i, j \in 1 .. N : i < j => <<s[i], s[j]>> \in L
  <2> SUFFICES ASSUME NEW i \in 1 .. N, NEW j \in 1 .. N, i < j
               PROVE  <<s[i], s[j]>> \in L
    OBVIOUS
  <2> HIDE DEF s, N
  <2>1. s[i] # s[j] /\ s[i] \in S /\ s[j] \in S
    BY <1>1, <1>7
  <2>2. ~(<<s[j], s[i]>> \in L)
    <3> SUFFICES ASSUME <<s[j], s[i]>> \in L PROVE FALSE
      OBVIOUS
    <3>1. Cardinality(Below(s[j])) < Cardinality(Below(s[i]))
      BY <1>4, <2>1
    <3>2. Rank[s[j]] = Cardinality(Below(s[j])) + 1 /\ Rank[s[i]] = Cardinality(Below(s[i])) + 1
      BY <2>1 DEF Rank
    <3> HIDE DEF Below
    <3> QED BY <1>1, <1>2, <1>7, <2>1, <3>1, <3>2
  <2> QED BY <2>1, <2>2 DEF StrictOrder
<1>9. s \in [1 .. N -> S]
  BY <1>7
<1> HIDE DEF s
<1> QED BY <1>8, <1>9 DEF Listing

LEMMA ListsAll ==
  ASSUME NEW S, IsFiniteSet(S), NEW L, StrictOrder(L, S), NEW s, Listing(s, L, S)
  PROVE  /\ DOMAIN s = 1 .. Cardinality(S) /\ Cardinality(S) \in Nat
         /\ \A i, j \in DOMAIN s : s[i] = s[j] => i = j
         /\ \A x \in S : \E i \in DOMAIN s : s[i] = x
<1> DEFINE N == Cardinality(S)
<1>1. N \in Nat
  BY FS_CardinalityType
<1>2. s \in [1 .. N -> S] /\ \A i, j \in 1 .. N : i < j => <<s[i], s[j]>> \in L
  BY DEF Listing
<1> HIDE DEF N
<1>3. \A i, j \in 1 .. N : s[i] = s[j] => i = j
  <2> SUFFICES ASSUME NEW i \in 1 .. N, NEW j \in 1 .. N, s[i] = s[j] PROVE i = j
    OBVIOUS
  <2>1. ~(i < j) /\ ~(j < i)
    BY <1>2 DEF StrictOrder
  <2> QED BY <1>1, <2>1
<1>4. IsFiniteSet(1 .. N) /\ Cardinality(1 .. N) = N
  BY <1>1, FS_Interval
<1>5. s \in Injection(1 .. N, S)
  BY <1>2, <1>3 DEF Injection, IsInjective
<1>6. s \in Surjection(1 .. N, S)
  BY <1>4, <1>5, FS_Injection DEF N
<1> QED BY <1>1, <1>2, <1>3, <1>6 DEF N, Surjection

(* One of them comes first.                                                *)
LEMMA FirstOfAll ==
  ASSUME NEW S, IsFiniteSet(S), S # {}, NEW L, StrictOrder(L, S)
  PROVE  \E x \in S : \A y \in S \ {x} : <<x, y>> \in L
<1>1. PICK s : Listing(s, L, S)
  BY Listed
<1>2. /\ DOMAIN s = 1 .. Cardinality(S) /\ Cardinality(S) \in Nat
      /\ \A x \in S : \E i \in DOMAIN s : s[i] = x
  BY <1>1, ListsAll
<1>3. Cardinality(S) # 0
  BY FS_EmptySet
<1>4. 1 \in 1 .. Cardinality(S) /\ s[1] \in S
  BY <1>1, <1>2, <1>3 DEF Listing
<1>5. ASSUME NEW y \in S \ {s[1]} PROVE <<s[1], y>> \in L
  <2>1. PICK i \in 1 .. Cardinality(S) : s[i] = y
    BY <1>2
  <2>2. i # 1
    BY <2>1, <1>5
  <2>3. 1 < i
    BY <2>2, <1>2
  <2> QED BY <1>1, <1>4, <2>1, <2>3 DEF Listing
<1> QED BY <1>4, <1>5

-----------------------------------------------------------------------------
(* Sums, as SumFunction folds them.                                        *)
Some(s) == CHOOSE x \in s : TRUE
Step(F, f, s) == IF s = {} THEN 0 ELSE F[Some(s)] + f[s \ {Some(s)}]
UpTo(S, n) == {s \in SUBSET S : Cardinality(s) <= n}
Sums(F, S, f) ==
  /\ f \in [SUBSET S -> Nat] /\ f[{}] = 0
  /\ \A s \in SUBSET S : \A x \in s : f[s] = F[x] + f[s \ {x}]

LEMMA SmallerSet ==
  ASSUME NEW S, IsFiniteSet(S), NEW s \in SUBSET S, NEW x \in s
  PROVE  /\ Cardinality(s) \in Nat /\ Cardinality(s \ {x}) \in Nat
         /\ Cardinality(s \ {x}) = Cardinality(s) - 1
         /\ s \ {x} \in SUBSET S
<1>1. IsFiniteSet(s)
  BY FS_Subset
<1>2. IsFiniteSet(s \ {x}) /\ Cardinality(s \ {x}) = Cardinality(s) - 1
  BY <1>1, FS_RemoveElement
<1> QED BY <1>1, <1>2, FS_CardinalityType

LEMMA FoldExists ==
  ASSUME NEW S, IsFiniteSet(S), NEW F
  PROVE  \E f : f = [s \in SUBSET S |-> Step(F, f, s)]
<1> DEFINE Good(n) == \E f : f = [s \in UpTo(S, n) |-> Step(F, f, s)]
           Bad == {n \in Nat : ~Good(n)}
<1>1. Good(0)
  <2> DEFINE f == [s \in UpTo(S, 0) |-> 0]
  <2>1. \A s \in UpTo(S, 0) : s = {}
    <3> TAKE s \in UpTo(S, 0)
    <3>1. IsFiniteSet(s) /\ Cardinality(s) \in Nat
      BY FS_Subset, FS_CardinalityType DEF UpTo
    <3>2. Cardinality(s) = 0
      BY <3>1 DEF UpTo
    <3> QED BY <3>1, <3>2, FS_EmptySet
  <2>2. f = [s \in UpTo(S, 0) |-> Step(F, f, s)]
    <3>1. \A s \in UpTo(S, 0) : Step(F, f, s) = 0
      BY <2>1 DEF Step
    <3> QED BY <3>1
  <2> QED BY <2>2
<1>2. ASSUME NEW n \in Nat, Good(n) PROVE Good(n + 1)
  <2>1. PICK g : g = [s \in UpTo(S, n) |-> Step(F, g, s)]
    BY <1>2
  <2> DEFINE f == [s \in UpTo(S, n + 1) |-> Step(F, g, s)]
  <2>2. ASSUME NEW s \in UpTo(S, n + 1), s # {} PROVE f[s \ {Some(s)}] = g[s \ {Some(s)}]
    <3>1. Some(s) \in s
      BY <2>2 DEF Some
    <3>2. s \ {Some(s)} \in UpTo(S, n) /\ s \ {Some(s)} \in UpTo(S, n + 1)
      BY <3>1, SmallerSet DEF UpTo
    <3> HIDE DEF f
    <3>3. f[s \ {Some(s)}] = Step(F, g, s \ {Some(s)})
      BY <3>2 DEF f
    <3>4. g[s \ {Some(s)}] = Step(F, g, s \ {Some(s)})
      BY <2>1, <3>2
    <3> QED BY <3>3, <3>4
  <2>3. \A s \in UpTo(S, n + 1) : Step(F, g, s) = Step(F, f, s)
    <3> HIDE DEF f
    <3> QED BY <2>2 DEF Step
  <2>4. f = [s \in UpTo(S, n + 1) |-> Step(F, f, s)]
    <3> DEFINE h == [s \in UpTo(S, n + 1) |-> Step(F, f, s)]
    <3>1. \A s \in UpTo(S, n + 1) : f[s] = h[s]
      <4> TAKE s \in UpTo(S, n + 1)
      <4>1. f[s] = Step(F, g, s)
        OBVIOUS
      <4>2. h[s] = Step(F, f, s)
        OBVIOUS
      <4> HIDE DEF f, h
      <4> QED BY <2>3, <4>1, <4>2
    <3> QED BY <3>1
  <2> QED BY <2>4
<1>3. \A n \in Nat : Good(n)
  <2> SUFFICES ASSUME Bad # {} PROVE FALSE
    OBVIOUS
  <2>1. PICK n \in Bad : \A m \in Bad : n <= m
    <3> HIDE DEF Good
    <3> QED BY LeastNatural
  <2> HIDE DEF Good
  <2>2. n # 0
    BY <1>1
  <2>3. n - 1 \in Nat /\ n - 1 \notin Bad
    BY <2>1, <2>2
  <2>4. Good(n - 1 + 1)
    BY <1>2, <2>3
  <2>5. n - 1 + 1 = n
    BY <2>1
  <2> QED BY <2>1, <2>4, <2>5
<1>4. Cardinality(S) \in Nat /\ SUBSET S = UpTo(S, Cardinality(S))
  BY FS_CardinalityType, FS_Subset DEF UpTo
<1> QED BY <1>3, <1>4

LEMMA Summing ==
  ASSUME NEW S, IsFiniteSet(S), NEW F \in [S -> Nat]
  PROVE  \E f : Sums(F, S, f) /\ SumFunction(F) = f[S]
<1> DEFINE f == CHOOSE f : f = [s \in SUBSET S |-> Step(F, f, s)]
<1>1. f = [s \in SUBSET S |-> Step(F, f, s)]
  BY FoldExists
<1>2. SumFunction(F) = f[S]
  BY DEF SumFunction, SumFunctionOnSet, FoldFunctionOnSet, MapThenFoldSet, Step, Some
<1> HIDE DEF f
<1>3. f[{}] = 0
  BY <1>1 DEF Step
<1>4. ASSUME NEW s \in SUBSET S, s # {}
      PROVE  f[s] = F[Some(s)] + f[s \ {Some(s)}] /\ Some(s) \in s
  BY <1>1, <1>4 DEF Step, Some
<1>5. \A s \in SUBSET S : f[s] \in Nat
  <2> DEFINE Bad == {Cardinality(s) : s \in {s \in SUBSET S : f[s] \notin Nat}}
  <2>1. \A s \in SUBSET S : Cardinality(s) \in Nat
    BY FS_Subset, FS_CardinalityType
  <2> SUFFICES ASSUME Bad # {} PROVE FALSE
    OBVIOUS
  <2>2. PICK n \in Bad : \A m \in Bad : n <= m
    <3>1. Bad \in SUBSET Nat
      BY <2>1
    <3> HIDE DEF Bad
    <3> QED BY <3>1, LeastNatural
  <2>3. PICK s \in SUBSET S : n = Cardinality(s) /\ f[s] \notin Nat
    BY <2>2
  <2>4. s # {}
    BY <1>3, <2>3
  <2>5. Some(s) \in s /\ f[s] = F[Some(s)] + f[s \ {Some(s)}]
    BY <1>4, <2>4
  <2>6. /\ s \ {Some(s)} \in SUBSET S
        /\ Cardinality(s \ {Some(s)}) < n
    BY <2>1, <2>3, <2>5, SmallerSet
  <2>7. f[s \ {Some(s)}] \in Nat
    <3> SUFFICES ASSUME f[s \ {Some(s)}] \notin Nat PROVE FALSE
      OBVIOUS
    <3>1. Cardinality(s \ {Some(s)}) \in Bad
      BY <2>6
    <3> QED BY <2>1, <2>2, <2>3, <2>6, <3>1
  <2> QED BY <2>3, <2>5, <2>7
<1>6. ASSUME NEW s \in SUBSET S, NEW x \in s PROVE f[s] = F[x] + f[s \ {x}]
  <2> DEFINE Right(t) == \A y \in t : f[t] = F[y] + f[t \ {y}]
             Bad == {Cardinality(t) : t \in {t \in SUBSET S : ~Right(t)}}
  <2>1. \A t \in SUBSET S : Cardinality(t) \in Nat
    BY FS_Subset, FS_CardinalityType
  <2> SUFFICES ASSUME Bad # {} PROVE FALSE
    BY <1>6
  <2>2. PICK n \in Bad : \A m \in Bad : n <= m
    <3>1. Bad \in SUBSET Nat
      BY <2>1
    <3> HIDE DEF Bad
    <3> QED BY <3>1, LeastNatural
  <2>3. PICK t \in SUBSET S : n = Cardinality(t) /\ ~Right(t)
    BY <2>2
  <2>4. PICK y \in t : f[t] # F[y] + f[t \ {y}]
    BY <2>3
  <2> DEFINE c == Some(t)
  <2>5. c \in t /\ f[t] = F[c] + f[t \ {c}] /\ c # y
    BY <1>4, <2>4
  <2>6. ASSUME NEW z \in t PROVE Right(t \ {z}) /\ t \ {z} \in SUBSET S
    <3>1. Cardinality(t \ {z}) < n /\ t \ {z} \in SUBSET S
      BY <2>1, <2>3, <2>6, SmallerSet
    <3>2. Cardinality(t \ {z}) \notin Bad
      BY <2>1, <2>2, <2>3, <3>1
    <3> HIDE DEF Right
    <3> QED BY <3>1, <3>2
  <2>7. f[t \ {c}] = F[y] + f[(t \ {c}) \ {y}]
    BY <2>5, <2>6
  <2>8. f[t \ {y}] = F[c] + f[(t \ {y}) \ {c}]
    BY <2>5, <2>6
  <2>9. (t \ {c}) \ {y} = (t \ {y}) \ {c} /\ (t \ {c}) \ {y} \in SUBSET S
    BY <2>5
  <2> DEFINE v == f[(t \ {c}) \ {y}]
  <2>10. F[c] \in Nat /\ F[y] \in Nat /\ v \in Nat
    BY <1>5, <2>5, <2>9
  <2>11. f[t \ {y}] = F[c] + v /\ f[t \ {c}] = F[y] + v
    BY <2>7, <2>8, <2>9
  <2> HIDE DEF c, Bad, v
  <2> QED BY <2>4, <2>5, <2>10, <2>11
<1>7. f \in [SUBSET S -> Nat]
  BY <1>1, <1>5
<1> QED BY <1>2, <1>3, <1>6, <1>7 DEF Sums

LEMMA SumIsNatural ==
  ASSUME NEW S, IsFiniteSet(S), NEW F \in [S -> Nat]
  PROVE  SumFunction(F) \in Nat
<1>1. PICK f : Sums(F, S, f) /\ SumFunction(F) = f[S]
  BY Summing
<1>2. S \in SUBSET S
  OBVIOUS
<1> QED BY <1>1, <1>2 DEF Sums

(* What is zero does not count.                                            *)
LEMMA SameSum ==
  ASSUME NEW S, IsFiniteSet(S), NEW F \in [S -> Nat], NEW T \in SUBSET S, NEW G \in [T -> Nat],
         \A x \in T : F[x] = G[x], \A x \in S \ T : F[x] = 0
  PROVE  SumFunction(F) = SumFunction(G)
<1>1. IsFiniteSet(T)
  BY FS_Subset
<1>2. PICK f : Sums(F, S, f) /\ SumFunction(F) = f[S]
  BY Summing
<1>3. PICK g : Sums(G, T, g) /\ SumFunction(G) = g[T]
  BY <1>1, Summing
<1> DEFINE Bad == {Cardinality(s) : s \in {s \in SUBSET S : f[s] # g[s \cap T]}}
<1>4. CASE Bad = {}
  <2>1. S \in SUBSET S /\ S \cap T = T
    OBVIOUS
  <2>2. f[S] = g[S \cap T]
    <3> SUFFICES ASSUME f[S] # g[S \cap T] PROVE FALSE
      OBVIOUS
    <3>1. Cardinality(S) \in Bad
      BY <2>1
    <3> QED BY <1>4, <3>1
  <2> QED BY <1>2, <1>3, <2>1, <2>2
<1>5. CASE Bad # {}
  <2>1. \A t \in SUBSET S : Cardinality(t) \in Nat
    BY FS_Subset, FS_CardinalityType
  <2>2. PICK n \in Bad : \A m \in Bad : n <= m
    <3>1. Bad \in SUBSET Nat
      BY <2>1
    <3> HIDE DEF Bad
    <3> QED BY <1>5, <3>1, LeastNatural
  <2>3. PICK s \in SUBSET S : n = Cardinality(s) /\ f[s] # g[s \cap T]
    BY <2>2
  <2>4. s # {}
    BY <1>2, <1>3, <2>3 DEF Sums
  <2>5. PICK x : x \in s
    BY <2>4
  <2>6. f[s] = F[x] + f[s \ {x}] /\ s \ {x} \in SUBSET S
    BY <1>2, <2>5 DEF Sums
  <2>7. f[s \ {x}] = g[(s \ {x}) \cap T]
    <3>1. Cardinality(s \ {x}) < n
      BY <2>1, <2>3, <2>5, SmallerSet
    <3>2. Cardinality(s \ {x}) \notin Bad
      <4> HIDE DEF Bad
      <4> QED BY <2>1, <2>2, <2>3, <2>6, <3>1
    <3> QED BY <2>6, <3>2
  <2>8. CASE x \in T
    <3>1. s \cap T \in SUBSET T /\ x \in s \cap T /\ (s \cap T) \ {x} = (s \ {x}) \cap T
      BY <2>5, <2>8
    <3>2. g[s \cap T] = G[x] + g[(s \cap T) \ {x}]
      BY <1>3, <3>1 DEF Sums
    <3> QED BY <2>3, <2>6, <2>7, <2>8, <3>1, <3>2
  <2>9. CASE x \notin T
    <3>1. (s \ {x}) \cap T = s \cap T /\ F[x] = 0
      BY <2>5, <2>9
    <3>2. f[s \ {x}] \in Nat
      BY <1>2, <2>6 DEF Sums
    <3>3. f[s] = f[s \ {x}]
      BY <2>6, <3>1, <3>2
    <3> QED BY <2>3, <2>7, <3>1, <3>3
  <2> QED BY <2>8, <2>9
<1> QED BY <1>4, <1>5

LEMMA SumOfNone ==
  ASSUME NEW S, IsFiniteSet(S), NEW F \in [S -> Nat], \A x \in S : F[x] = 0
  PROVE  SumFunction(F) = 0
<1> DEFINE G == [x \in {} |-> 0]
<1>1. G \in [{} -> Nat] /\ IsFiniteSet({})
  BY FS_EmptySet
<1>2. SumFunction(F) = SumFunction(G)
  <2> DEFINE none == {}
  <2>1. /\ none \in SUBSET S /\ G \in [none -> Nat]
        /\ (\A x \in none : F[x] = G[x]) /\ (\A x \in S \ none : F[x] = 0)
    OBVIOUS
  <2> HIDE DEF G, none
  <2> QED BY <2>1, SameSum
<1>3. PICK g : Sums(G, {}, g) /\ SumFunction(G) = g[{}]
  <2> HIDE DEF G
  <2> QED BY <1>1, Summing
<1> QED BY <1>2, <1>3 DEF Sums

-----------------------------------------------------------------------------
(* What is counted is what was sent.                                       *)
Of(rows, o, y) == {r \in rows : r.org = o /\ r.year = y}
Years == Nat \ {Unset}

LEMMA StudentsAre ==
  ASSUME NEW rows \in SUBSET CountRows, IsFiniteSet(rows)
  PROVE  Students(rows) \in Nat
<1>1. [r \in rows |-> r.n] \in [rows -> Nat]
  BY DEF CountRows
<1> QED BY <1>1, SumIsNatural DEF Students

LEMMA SentIsNatural ==
  ASSUME NEW d, Sound(d), NEW o, NEW y
  PROVE  SentIn(d, o, y) \in Nat
<1>1. /\ Of(d.blocks, o, y) \in SUBSET CountRows /\ IsFiniteSet(Of(d.blocks, o, y))
      /\ Of(d.stats, o, y) \in SUBSET CountRows /\ IsFiniteSet(Of(d.stats, o, y))
  BY FS_Subset DEF Sound, Of
<1> QED BY <1>1, StudentsAre DEF SentIn, Of

LEMMA SummedAre ==
  ASSUME NEW rows \in SUBSET CountRows, IsFiniteSet(rows)
  PROVE  /\ IsFiniteSet(DOMAIN Summed(rows))
         /\ \A k \in DOMAIN Summed(rows) : k \in Nat \X Years
         /\ \A o \in Nat, y \in Years :
              /\ <<o, y>> \in DOMAIN Summed(rows) <=> Of(rows, o, y) # {}
              /\ <<o, y>> \in DOMAIN Summed(rows) =>
                   Summed(rows)[<<o, y>>] = Students(Of(rows, o, y))
<1> DEFINE dated == {r \in rows : r.year # Unset}
           keys == {<<r.org, r.year>> : r \in dated}
           f == [r \in dated |-> <<r.org, r.year>>]
<1>1. DOMAIN Summed(rows) = keys
  BY DEF Summed
<1>2. IsFiniteSet(keys)
  <2>1. IsFiniteSet(dated)
    BY FS_Subset
  <2>2. f \in Surjection(dated, keys)
    BY DEF Surjection
  <2> HIDE DEF f, keys, dated
  <2> QED BY <2>1, <2>2, FS_Surjection
<1>3. \A k \in keys : k \in Nat \X Years
  BY DEF CountRows, Years
<1>4. ASSUME NEW o \in Nat, NEW y \in Years
      PROVE  /\ <<o, y>> \in keys <=> Of(rows, o, y) # {}
             /\ <<o, y>> \in keys => Summed(rows)[<<o, y>>] = Students(Of(rows, o, y))
  <2>1. <<o, y>> \in keys <=> Of(rows, o, y) # {}
    BY DEF Of, Years
  <2>2. {r \in rows : <<r.org, r.year>> = <<o, y>>} = Of(rows, o, y)
    BY DEF Of
  <2>3. <<o, y>> \in keys =>
          Summed(rows)[<<o, y>>] = Students({r \in rows : <<r.org, r.year>> = <<o, y>>})
    BY DEF Summed
  <2> QED BY <2>1, <2>2, <2>3
<1> QED BY <1>1, <1>2, <1>3, <1>4

LEMMA NoStudents == Students({}) = 0
<1> DEFINE F == [r \in {} |-> r.n]
           none == {}
<1>1. F \in [none -> Nat] /\ IsFiniteSet(none) /\ \A x \in none : F[x] = 0
  BY FS_EmptySet
<1>2. Students({}) = SumFunction(F)
  BY DEF Students
<1> HIDE DEF F, none
<1> QED BY <1>1, <1>2, SumOfNone

LEMMA CountsAre ==
  ASSUME NEW d, Sound(d)
  PROVE  /\ IsFiniteSet(DOMAIN Counts(d))
         /\ \A k \in DOMAIN Counts(d) : k \in Nat \X Years
         /\ \A o \in Nat, y \in Years :
              SentIn(d, o, y) = IF <<o, y>> \in DOMAIN Counts(d) THEN Counts(d)[<<o, y>>] ELSE 0
<1> DEFINE kept == Summed(d.stats)
           sent == Summed(d.blocks)
<1>1. /\ d.stats \in SUBSET CountRows /\ IsFiniteSet(d.stats)
      /\ d.blocks \in SUBSET CountRows /\ IsFiniteSet(d.blocks)
  BY DEF Sound
<1>2. /\ DOMAIN Counts(d) = DOMAIN kept \cup DOMAIN sent
      /\ \A k \in DOMAIN Counts(d) :
           Counts(d)[k] = IF k \in DOMAIN kept THEN kept[k] ELSE sent[k]
  BY DEF Counts
<1> HIDE DEF kept, sent
<1>3. IsFiniteSet(DOMAIN Counts(d))
  <2>1. IsFiniteSet(DOMAIN kept) /\ IsFiniteSet(DOMAIN sent)
    BY <1>1, SummedAre DEF kept, sent
  <2> QED BY <1>2, <2>1, FS_Union
<1>4. \A k \in DOMAIN Counts(d) : k \in Nat \X Years
  BY <1>1, <1>2, SummedAre DEF kept, sent
<1>5. ASSUME NEW o \in Nat, NEW y \in Years
      PROVE  SentIn(d, o, y) = IF <<o, y>> \in DOMAIN Counts(d) THEN Counts(d)[<<o, y>>] ELSE 0
  <2>1. SentIn(d, o, y) =
          IF Of(d.stats, o, y) # {} THEN Students(Of(d.stats, o, y))
          ELSE Students(Of(d.blocks, o, y))
    BY DEF SentIn, Of
  <2>2. /\ <<o, y>> \in DOMAIN kept <=> Of(d.stats, o, y) # {}
        /\ <<o, y>> \in DOMAIN kept => kept[<<o, y>>] = Students(Of(d.stats, o, y))
    BY <1>1, SummedAre DEF kept
  <2>3. /\ <<o, y>> \in DOMAIN sent <=> Of(d.blocks, o, y) # {}
        /\ <<o, y>> \in DOMAIN sent => sent[<<o, y>>] = Students(Of(d.blocks, o, y))
    BY <1>1, SummedAre DEF sent
  <2>4. Of(d.blocks, o, y) = {} => Students(Of(d.blocks, o, y)) = 0
    BY NoStudents
  <2> QED BY <1>2, <2>1, <2>2, <2>3, <2>4
<1> QED BY <1>3, <1>4, <1>5

(* The preferred contract is an actual one if there is any.                *)
LEMMA PreferredIs ==
  ASSUME NEW d, Sound(d), NEW o, Practice(d, o) # {}
  PROVE  /\ Preferred(d, o) \in Practice(d, o)
         /\ Preferred(d, o).actual = \E c \in Practice(d, o) : c.actual
<1> DEFINE P == Practice(d, o)
           L == {p \in P \X P : Better(p[1], p[2])}
<1>1. /\ P \in SUBSET ContractRows /\ IsFiniteSet(P)
      /\ \A c, e \in P : c.contract = e.contract => c = e
  BY FS_Subset DEF Sound, Practice
<1>2. \A x, y \in P : <<x, y>> \in L <=> Better(x, y)
  OBVIOUS
<1>3. \A c \in P : c.actual \in BOOLEAN /\ c.signed \in Nat /\ c.contract \in Nat
  BY <1>1 DEF ContractRows
<1> HIDE DEF P, L
<1>4. StrictOrder(L, P)
  <2>1. \A x \in P : <<x, x>> \notin L
    BY <1>2, <1>3 DEF Better
  <2>2. \A x, y \in P : x # y => (<<x, y>> \in L \/ <<y, x>> \in L)
    BY <1>1, <1>2, <1>3 DEF Better
  <2>3. \A x, y, z \in P : <<x, y>> \in L /\ <<y, z>> \in L => <<x, z>> \in L
    BY <1>2, <1>3 DEF Better
  <2> QED BY <2>1, <2>2, <2>3 DEF StrictOrder
<1>5. P # {}
  BY DEF P
<1>6. \E c \in P : \A e \in P \ {c} : Better(c, e)
  <2>1. PICK c \in P : \A e \in P \ {c} : <<c, e>> \in L
    BY <1>1, <1>4, <1>5, FirstOfAll
  <2> QED BY <1>2, <2>1
<1>7. Preferred(d, o) \in P /\ \A e \in P \ {Preferred(d, o)} : Better(Preferred(d, o), e)
  BY <1>6 DEF Preferred, P
<1>8. \A e \in P : e.actual => Preferred(d, o).actual
  BY <1>3, <1>7 DEF Better
<1>9. Preferred(d, o).actual = \E c \in P : c.actual
  BY <1>3, <1>7, <1>8
<1> QED BY <1>7, <1>9 DEF P

LEMMA ImageFinite ==
  ASSUME NEW S, IsFiniteSet(S), NEW f
  PROVE  IsFiniteSet({f[x] : x \in S})
<1> DEFINE T == {f[x] : x \in S}
           g == [x \in S |-> f[x]]
<1>1. g \in Surjection(S, T)
  BY DEF Surjection
<1> HIDE DEF g, T
<1> QED BY <1>1, FS_Surjection DEF T

(* The records: who has students and a contract of practice.               *)
YearsOf(d, o) == {y \in Years : <<o.org, y>> \in DOMAIN Counts(d)}
Practicing(d) == {o \in d.orgs : YearsOf(d, o) # {} /\ Practice(d, o.org) # {}}
RecordOf(d, o) ==
  LET c == Preferred(d, o.org) IN
  [org |-> o.org, name |-> o.name, active |-> o.active, contract |-> c.contract,
   signed |-> c.signed, actual |-> c.actual,
   counts |-> [y \in YearsOf(d, o) |-> SentIn(d, o.org, y)]]

LEMMA YearsOfAre ==
  ASSUME NEW d, Sound(d), NEW o \in d.orgs
  PROVE  /\ YearsOf(d, o) = {k[2] : k \in {k \in DOMAIN Counts(d) : k[1] = o.org}}
         /\ YearsOf(d, o) \in SUBSET Years /\ IsFiniteSet(YearsOf(d, o))
         /\ \A y \in YearsOf(d, o) : Counts(d)[<<o.org, y>>] = SentIn(d, o.org, y)
         /\ \A y \in Years \ YearsOf(d, o) : SentIn(d, o.org, y) = 0
<1> DEFINE K == {k \in DOMAIN Counts(d) : k[1] = o.org}
           f == [k \in DOMAIN Counts(d) |-> k[2]]
<1>1. o.org \in Nat
  BY DEF Sound, OrgRows
<1>2. YearsOf(d, o) = {k[2] : k \in K}
  <2>1. ASSUME NEW y \in YearsOf(d, o) PROVE y \in {k[2] : k \in K}
    BY <2>1 DEF YearsOf
  <2>2. ASSUME NEW k \in K PROVE k[2] \in YearsOf(d, o)
    <3>1. k \in Nat \X Years
      BY CountsAre
    <3>2. k = <<o.org, k[2]>> /\ k[2] \in Years
      BY <3>1
    <3> QED BY <3>2 DEF YearsOf
  <2> QED BY <2>1, <2>2
<1>3. IsFiniteSet(YearsOf(d, o))
  <2>1. IsFiniteSet(DOMAIN Counts(d))
    BY CountsAre
  <2>2. IsFiniteSet(K)
    BY <2>1, FS_Subset
  <2>3. {k[2] : k \in K} = {f[k] : k \in K}
    BY DEF K
  <2>4. IsFiniteSet({f[k] : k \in K})
    <3> HIDE DEF K, f
    <3> QED BY <2>2, ImageFinite
  <2> QED BY <1>2, <2>3, <2>4
<1>4. \A y \in Years : SentIn(d, o.org, y) =
        IF <<o.org, y>> \in DOMAIN Counts(d) THEN Counts(d)[<<o.org, y>>] ELSE 0
  BY <1>1, CountsAre
<1> QED BY <1>2, <1>3, <1>4 DEF YearsOf

LEMMA RecordsAre ==
  ASSUME NEW d, Sound(d)
  PROVE  Records(d) = {RecordOf(d, o) : o \in Practicing(d)}
<1> DEFINE counts   == Counts(d)
           its(o)   == {k[2] : k \in {k \in DOMAIN counts : k[1] = o.org}}
           found    == {o \in d.orgs : its(o) # {} /\ Practice(d, o.org) # {}}
           record(o, c) ==
             [org |-> o.org, name |-> o.name, active |-> o.active, contract |-> c.contract,
              signed |-> c.signed, actual |-> c.actual,
              counts |-> [y \in its(o) |-> counts[<<o.org, y>>]]]
<1>1. Records(d) = {record(o, Preferred(d, o.org)) : o \in found}
  BY DEF Records
<1>2. \A o \in d.orgs : its(o) = YearsOf(d, o)
  BY YearsOfAre
<1>3. found = Practicing(d)
  BY <1>2 DEF Practicing
<1>4. ASSUME NEW o \in Practicing(d) PROVE record(o, Preferred(d, o.org)) = RecordOf(d, o)
  <2>1. o \in d.orgs
    BY DEF Practicing
  <2>2. [y \in its(o) |-> counts[<<o.org, y>>]] = [y \in YearsOf(d, o) |-> SentIn(d, o.org, y)]
    BY <1>2, <2>1, YearsOfAre
  <2> HIDE DEF its, counts
  <2> QED BY <2>2 DEF RecordOf
<1> HIDE DEF record, found
<1> QED BY <1>1, <1>3, <1>4

LEMMA RecordIs ==
  ASSUME NEW d, Sound(d), NEW o \in Practicing(d)
  PROVE  LET r == RecordOf(d, o) IN
         /\ r.org = o.org /\ r.name = o.name /\ r.active = o.active
         /\ r.org \in Nat /\ r.name \in Nat /\ r.signed \in Nat
         /\ \E c \in d.contracts : c.contract = r.contract /\ c.org = o.org
         /\ r.contract \in Nat
         /\ r.actual = \E c \in Practice(d, o.org) : c.actual
         /\ r.counts \in [YearsOf(d, o) -> Nat]
         /\ \A y \in YearsOf(d, o) : r.counts[y] = SentIn(d, o.org, y)
<1>1. /\ Preferred(d, o.org) \in Practice(d, o.org)
      /\ Preferred(d, o.org).actual = \E c \in Practice(d, o.org) : c.actual
  BY PreferredIs DEF Practicing
<1>2. Preferred(d, o.org) \in d.contracts /\ Preferred(d, o.org).org = o.org
  BY <1>1 DEF Practice
<1>3. Preferred(d, o.org) \in ContractRows /\ o \in OrgRows
  BY <1>2 DEF Sound, Practicing
<1>4. [y \in YearsOf(d, o) |-> SentIn(d, o.org, y)] \in [YearsOf(d, o) -> Nat]
  BY SentIsNatural
<1> QED BY <1>1, <1>2, <1>3, <1>4 DEF RecordOf, ContractRows, OrgRows

LEMMA RecordsFinite ==
  ASSUME NEW d, Sound(d)
  PROVE  /\ IsFiniteSet(Practicing(d)) /\ IsFiniteSet(Records(d))
         /\ IsFiniteSet(Available(Records(d))) /\ Available(Records(d)) \in SUBSET Years
         /\ \A o \in Practicing(d) : YearsOf(d, o) \subseteq Available(Records(d))
<1> DEFINE f == [o \in Practicing(d) |-> RecordOf(d, o)]
<1>1. IsFiniteSet(Practicing(d)) /\ Practicing(d) \subseteq d.orgs
  BY FS_Subset DEF Practicing, Sound
<1>2. IsFiniteSet(Records(d))
  <2>1. Records(d) = {f[o] : o \in Practicing(d)}
    BY RecordsAre
  <2> HIDE DEF f
  <2> QED BY <1>1, <2>1, ImageFinite
<1> DEFINE S == {DOMAIN r.counts : r \in Records(d)}
           g == [r \in Records(d) |-> DOMAIN r.counts]
<1>3. \A T \in S : T \in SUBSET Years /\ IsFiniteSet(T)
  <2> TAKE T \in S
  <2>1. PICK o \in Practicing(d) : T = DOMAIN RecordOf(d, o).counts
    BY RecordsAre
  <2>2. T = YearsOf(d, o) /\ o \in d.orgs
    BY <1>1, <2>1 DEF RecordOf
  <2> QED BY <2>2, YearsOfAre
<1>4. IsFiniteSet(S)
  <2>1. S = {g[r] : r \in Records(d)}
    OBVIOUS
  <2> HIDE DEF S, g
  <2> QED BY <1>2, <2>1, ImageFinite
<1>5. Available(Records(d)) = UNION S
  BY DEF Available
<1>6. ASSUME NEW o \in Practicing(d) PROVE YearsOf(d, o) \in S
  <2>1. RecordOf(d, o) \in Records(d) /\ DOMAIN RecordOf(d, o).counts = YearsOf(d, o)
    BY RecordsAre DEF RecordOf
  <2> QED BY <2>1
<1> HIDE DEF S
<1>7. IsFiniteSet(UNION S)
  BY <1>3, <1>4, FS_UNION
<1> QED BY <1>1, <1>2, <1>3, <1>5, <1>6, <1>7

-----------------------------------------------------------------------------
(* Years are resolved to years that are offered, once and for all.         *)
LEMMA Extremes ==
  ASSUME NEW S \in SUBSET Nat, IsFiniteSet(S), S # {}
  PROVE  /\ Min(S) \in S /\ \A n \in S : Min(S) <= n
         /\ Max(S) \in S /\ \A n \in S : n <= Max(S)
<1>1. Min(S) \in S /\ \A n \in S : Min(S) <= n
  BY LeastNatural DEF Min
<1>2. Max(S) \in S /\ \A n \in S : n <= Max(S)
  <2>1. \E m \in S : \A n \in S : m >= n
    BY GreatestNatural
  <2> QED BY <2>1 DEF Max
<1> QED BY <1>1, <1>2

LEMMA ResolvedYearsAre ==
  ASSUME NEW A \in SUBSET Years, IsFiniteSet(A), NEW p
  PROVE  LET r == ResolvedYears(A, p) IN
         /\ r = [from |-> r.from, to |-> r.to]
         /\ A = {} => r = NoPeriod
         /\ A # {} => r.from \in A /\ r.to \in A
         /\ ResolvedYears(A, r) = r
<1>1. CASE A = {}
  BY <1>1 DEF ResolvedYears, NoPeriod
<1>2. CASE A # {}
  <2> DEFINE a == IF p.from \in A THEN p.from ELSE Min(A)
             b == IF p.to \in A THEN p.to ELSE Max(A)
             r == [from |-> Min({a, b}), to |-> Max({a, b})]
  <2>1. A \in SUBSET Nat
    BY DEF Years
  <2>2. a \in A /\ b \in A
    BY <1>2, <2>1, Extremes
  <2>3. ASSUME NEW x \in Nat, NEW y \in Nat
        PROVE  /\ Min({x, y}) = IF x <= y THEN x ELSE y
               /\ Max({x, y}) = IF x <= y THEN y ELSE x
    <3>1. {x, y} \in SUBSET Nat /\ IsFiniteSet({x, y}) /\ {x, y} # {}
      <4>1. IsFiniteSet({x})
        BY FS_Singleton
      <4>2. IsFiniteSet({x} \cup {y}) /\ {x} \cup {y} = {x, y}
        BY <4>1, FS_AddElement
      <4> QED BY <4>2
    <3> DEFINE T == {x, y}
    <3>2. x \in T /\ y \in T /\ \A z \in T : z = x \/ z = y
      OBVIOUS
    <3> HIDE DEF T
    <3>3. /\ Min(T) \in T /\ \A n \in T : Min(T) <= n
          /\ Max(T) \in T /\ \A n \in T : n <= Max(T)
      BY <3>1, Extremes DEF T
    <3>4. /\ Min(T) = x \/ Min(T) = y
          /\ Max(T) = x \/ Max(T) = y
          /\ Min(T) <= x /\ Min(T) <= y /\ x <= Max(T) /\ y <= Max(T)
      BY <3>2, <3>3
    <3>5. /\ Min(T) = IF x <= y THEN x ELSE y
          /\ Max(T) = IF x <= y THEN y ELSE x
      BY <3>4
    <3> QED BY <3>5 DEF T
  <2>4. ResolvedYears(A, p) = r
    BY <1>2 DEF ResolvedYears
  <2>5. a \in Nat /\ b \in Nat
    BY <2>1, <2>2
  <2> HIDE DEF a, b
  <2>6. r.from \in A /\ r.to \in A /\ r.from <= r.to
    BY <2>2, <2>3, <2>5
  <2> HIDE DEF r
  <2>7. ResolvedYears(A, r) = [from |-> Min({r.from, r.to}), to |-> Max({r.from, r.to})]
    BY <1>2, <2>6 DEF ResolvedYears
  <2>8. r.from \in Nat /\ r.to \in Nat
    BY <2>1, <2>6
  <2>9. ResolvedYears(A, r) = [from |-> r.from, to |-> r.to]
    BY <2>3, <2>6, <2>7, <2>8
  <2>10. r = [from |-> r.from, to |-> r.to]
    BY DEF r
  <2> QED BY <1>2, <2>4, <2>6, <2>9, <2>10
<1> QED BY <1>1, <1>2

-----------------------------------------------------------------------------
(* The rows of a table.                                                    *)
RowIn(w, Y) ==
  /\ w.name \in Nat /\ w.signed \in Nat /\ w.contract \in Nat /\ w.total \in Nat
  /\ w.cells \in [Y -> Nat]
RowsIn(R, Y) ==
  /\ IsFiniteSet(R)
  /\ \A w \in R : RowIn(w, Y)
  /\ \A w, v \in R : w.contract = v.contract => w = v
  /\ \A w, v \in R : w.org = v.org => w = v
Sorts == [by : {"", "name", "signed", "total", "year"}, year : Nat, down : BOOLEAN]
Lists(s, R) ==
  /\ DOMAIN s = 1 .. Cardinality(R) /\ Cardinality(R) \in Nat
  /\ s \in Seq(R) /\ Len(s) = Cardinality(R)
  /\ \A i, j \in DOMAIN s : s[i] = s[j] => i = j
  /\ \A x \in R : \E i \in DOMAIN s : s[i] = x

LEMMA ListingLists ==
  ASSUME NEW S, IsFiniteSet(S), NEW L, StrictOrder(L, S), NEW s, Listing(s, L, S)
  PROVE  Lists(s, S)
<1>1. /\ DOMAIN s = 1 .. Cardinality(S) /\ Cardinality(S) \in Nat
      /\ \A i, j \in DOMAIN s : s[i] = s[j] => i = j
      /\ \A x \in S : \E i \in DOMAIN s : s[i] = x
  BY ListsAll
<1>2. s \in [1 .. Cardinality(S) -> S]
  BY DEF Listing
<1>3. s \in Seq(S) /\ Len(s) = Cardinality(S)
  BY <1>1, <1>2
<1> QED BY <1>1, <1>3 DEF Lists

LEMMA ByDefaultOrders ==
  ASSUME NEW Y, NEW R, RowsIn(R, Y)
  PROVE  /\ \A a \in R : ~ByDefault(a, a)
         /\ \A a, b \in R : a # b => (ByDefault(a, b) \/ ByDefault(b, a))
         /\ \A a, b, c \in R : ByDefault(a, b) /\ ByDefault(b, c) => ByDefault(a, c)
<1>1. \A a \in R : a.name \in Nat /\ a.signed \in Nat /\ a.contract \in Nat
  BY DEF RowsIn, RowIn
<1>2. \A a, b \in R : a # b => a.contract # b.contract
  BY DEF RowsIn
<1> QED BY <1>1, <1>2 DEF ByDefault

LEMMA SortedLists ==
  ASSUME NEW Y, NEW R, RowsIn(R, Y), NEW sort \in Sorts, sort.by = "year" => sort.year \in Y
  PROVE  Lists(Sorted(R, sort), R)
<1> DEFINE L == {p \in R \X R : BySort(p[1], p[2], sort)}
           N == Cardinality(R)
<1>1. \A a, b \in R : <<a, b>> \in L <=> BySort(a, b, sort)
  OBVIOUS
<1>2. \A a \in R : SortKey(a, sort) \in Nat
  BY DEF RowsIn, RowIn, SortKey, Unset, Sorts
<1> HIDE DEF L
<1>3. StrictOrder(L, R)
  <2>1. \A a \in R : <<a, a>> \notin L
    BY <1>1, <1>2, ByDefaultOrders DEF BySort
  <2>2. \A a, b \in R : a # b => (<<a, b>> \in L \/ <<b, a>> \in L)
    BY <1>1, <1>2, ByDefaultOrders DEF BySort
  <2>3. ASSUME NEW a \in R, NEW b \in R, NEW c \in R, BySort(a, b, sort), BySort(b, c, sort)
        PROVE  BySort(a, c, sort)
    <3>1. /\ SortKey(a, sort) \in Nat /\ SortKey(b, sort) \in Nat /\ SortKey(c, sort) \in Nat
          /\ ByDefault(a, b) /\ ByDefault(b, c) => ByDefault(a, c)
      BY <1>2, ByDefaultOrders
    <3> QED BY <2>3, <3>1 DEF BySort
  <2> QED BY <1>1, <2>1, <2>2, <2>3 DEF StrictOrder
<1>4. \E s \in [1 .. N -> R] : \A i, j \in DOMAIN s : i < j => BySort(s[i], s[j], sort)
  <2>1. PICK s : Listing(s, L, R)
    BY <1>3, Listed DEF RowsIn
  <2>2. s \in [1 .. N -> R] /\ \A i, j \in 1 .. N : i < j => <<s[i], s[j]>> \in L
    BY <2>1 DEF Listing
  <2> HIDE DEF N
  <2>3. \A i, j \in 1 .. N : i < j => BySort(s[i], s[j], sort)
    BY <1>1, <2>2
  <2> QED BY <2>2, <2>3
<1> DEFINE z == Sorted(R, sort)
<1>5. z \in [1 .. N -> R] /\ \A i, j \in DOMAIN z : i < j => BySort(z[i], z[j], sort)
  BY <1>4 DEF Sorted, InOrder
<1> HIDE DEF z
<1>6. Listing(z, L, R)
  BY <1>1, <1>5 DEF Listing
<1>7. Lists(z, R)
  BY <1>3, <1>6, ListingLists DEF RowsIn
<1> QED BY <1>7 DEF z

LEMMA ByTotalLists ==
  ASSUME NEW Y, NEW R, RowsIn(R, Y)
  PROVE  Lists(InOrder(R, ByTotal), R)
<1> DEFINE L == {p \in R \X R : ByTotal(p[1], p[2])}
           N == Cardinality(R)
<1>1. \A a, b \in R : <<a, b>> \in L <=> ByTotal(a, b)
  OBVIOUS
<1>2. \A a \in R : a.total \in Nat
  BY DEF RowsIn, RowIn
<1> HIDE DEF L
<1>3. StrictOrder(L, R)
  <2>1. \A a \in R : <<a, a>> \notin L
    BY <1>1, <1>2, ByDefaultOrders DEF ByTotal
  <2>2. \A a, b \in R : a # b => (<<a, b>> \in L \/ <<b, a>> \in L)
    BY <1>1, <1>2, ByDefaultOrders DEF ByTotal
  <2>3. ASSUME NEW a \in R, NEW b \in R, NEW c \in R, ByTotal(a, b), ByTotal(b, c)
        PROVE  ByTotal(a, c)
    <3>1. /\ a.total \in Nat /\ b.total \in Nat /\ c.total \in Nat
          /\ ByDefault(a, b) /\ ByDefault(b, c) => ByDefault(a, c)
      BY <1>2, ByDefaultOrders
    <3> QED BY <2>3, <3>1 DEF ByTotal
  <2> QED BY <1>1, <2>1, <2>2, <2>3 DEF StrictOrder
<1>4. \E s \in [1 .. N -> R] : \A i, j \in DOMAIN s : i < j => ByTotal(s[i], s[j])
  <2>1. PICK s : Listing(s, L, R)
    BY <1>3, Listed DEF RowsIn
  <2>2. s \in [1 .. N -> R] /\ \A i, j \in 1 .. N : i < j => <<s[i], s[j]>> \in L
    BY <2>1 DEF Listing
  <2> HIDE DEF N
  <2>3. \A i, j \in 1 .. N : i < j => ByTotal(s[i], s[j])
    BY <1>1, <2>2
  <2> QED BY <2>2, <2>3
<1> DEFINE z == InOrder(R, ByTotal)
<1>5. z \in [1 .. N -> R] /\ \A i, j \in DOMAIN z : i < j => ByTotal(z[i], z[j])
  BY <1>4 DEF InOrder
<1> HIDE DEF z
<1>6. Listing(z, L, R)
  BY <1>1, <1>5 DEF Listing
<1>7. Lists(z, R)
  BY <1>3, <1>6, ListingLists DEF RowsIn
<1> QED BY <1>7 DEF z

RowOf(w, d, o, Y) ==
  /\ RowIn(w, Y) /\ w.org = o.org
  /\ \E c \in d.contracts : c.contract = w.contract /\ c.org = o.org
  /\ w.total = SumFunction([y \in Y |-> SentIn(d, o.org, y)])

LEMMA RowIs ==
  ASSUME NEW d, Sound(d), NEW o \in Practicing(d), NEW Y \in SUBSET Years, IsFiniteSet(Y)
  PROVE  RowOf(Row(RecordOf(d, o), Y), d, o, Y)
<1> DEFINE r == RecordOf(d, o)
           cells == [y \in Y |-> IF y \in DOMAIN r.counts THEN r.counts[y] ELSE 0]
<1>1. o \in d.orgs
  BY DEF Practicing
<1>2. /\ r.org = o.org /\ r.name \in Nat /\ r.signed \in Nat /\ r.contract \in Nat
      /\ \E c \in d.contracts : c.contract = r.contract /\ c.org = o.org
      /\ r.counts \in [YearsOf(d, o) -> Nat]
      /\ \A y \in YearsOf(d, o) : r.counts[y] = SentIn(d, o.org, y)
  BY RecordIs
<1>3. cells = [y \in Y |-> SentIn(d, o.org, y)]
  <2>1. \A y \in Y \ YearsOf(d, o) : SentIn(d, o.org, y) = 0
    BY <1>1, YearsOfAre
  <2> HIDE DEF r
  <2> QED BY <1>2, <2>1
<1>4. cells \in [Y -> Nat]
  BY <1>3, SentIsNatural
<1>5. SumFunction(cells) \in Nat
  <2> HIDE DEF cells
  <2> QED BY <1>4, SumIsNatural
<1>6. Row(r, Y) = [org |-> r.org, name |-> r.name, contract |-> r.contract, signed |-> r.signed,
                   cells |-> cells, total |-> SumFunction(cells)]
  BY DEF Row
<1> HIDE DEF r, cells
<1>7. /\ RowIn(Row(r, Y), Y) /\ Row(r, Y).org = o.org /\ Row(r, Y).contract = r.contract
      /\ Row(r, Y).cells = cells /\ Row(r, Y).total = SumFunction(cells)
  BY <1>2, <1>4, <1>5, <1>6 DEF RowIn
<1> QED BY <1>2, <1>3, <1>7 DEF r, RowOf

LEMMA FilledAre ==
  ASSUME NEW d, Sound(d), NEW Y \in SUBSET Years, IsFiniteSet(Y), NEW filters
  PROVE  LET R == Filled(Records(d), Y, filters) IN
         /\ RowsIn(R, Y)
         /\ \A w \in R : \E o \in Practicing(d) :
              w = Row(RecordOf(d, o), Y) /\ MatchesFilters(RecordOf(d, o), filters) /\ w.total > 0
         /\ \A o \in Practicing(d) :
              MatchesFilters(RecordOf(d, o), filters) /\ Row(RecordOf(d, o), Y).total > 0 =>
                Row(RecordOf(d, o), Y) \in R
<1> DEFINE R == Filled(Records(d), Y, filters)
           row == [o \in Practicing(d) |-> Row(RecordOf(d, o), Y)]
<1>1. \A w \in R : \E o \in Practicing(d) :
        w = Row(RecordOf(d, o), Y) /\ MatchesFilters(RecordOf(d, o), filters) /\ w.total > 0
  BY RecordsAre DEF Filled
<1>2. \A o \in Practicing(d) :
        MatchesFilters(RecordOf(d, o), filters) /\ Row(RecordOf(d, o), Y).total > 0 =>
          Row(RecordOf(d, o), Y) \in R
  BY RecordsAre DEF Filled
<1> HIDE DEF R
<1>3. IsFiniteSet(R)
  <2>1. IsFiniteSet({row[o] : o \in Practicing(d)})
    <3>1. IsFiniteSet(Practicing(d))
      BY RecordsFinite
    <3> HIDE DEF row
    <3> QED BY <3>1, ImageFinite
  <2>2. R \in SUBSET {row[o] : o \in Practicing(d)}
    BY <1>1
  <2> HIDE DEF row
  <2> QED BY <2>1, <2>2, FS_Subset
<1>4. ASSUME NEW w \in R PROVE RowIn(w, Y)
  <2>1. PICK o \in Practicing(d) : w = Row(RecordOf(d, o), Y)
    BY <1>1
  <2>2. RowIn(Row(RecordOf(d, o), Y), Y)
    BY RowIs DEF RowOf
  <2> QED BY <2>1, <2>2
<1>5. ASSUME NEW w \in R, NEW v \in R, w.contract = v.contract \/ w.org = v.org PROVE w = v
  <2>1. PICK o \in Practicing(d) : w = Row(RecordOf(d, o), Y)
    BY <1>1
  <2>2. PICK p \in Practicing(d) : v = Row(RecordOf(d, p), Y)
    BY <1>1
  <2>3. RowOf(w, d, o, Y) /\ RowOf(v, d, p, Y)
    BY <2>1, <2>2, RowIs
  <2>4. /\ w.org = o.org /\ \E c \in d.contracts : c.contract = w.contract /\ c.org = o.org
        /\ v.org = p.org /\ \E c \in d.contracts : c.contract = v.contract /\ c.org = p.org
    BY <2>3 DEF RowOf
  <2>5. o.org = p.org
    BY <1>5, <2>4 DEF Sound
  <2>6. o = p
    BY <2>5 DEF Sound, Practicing
  <2> QED BY <2>1, <2>2, <2>6
<1>6. RowsIn(R, Y)
  BY <1>3, <1>4, <1>5 DEF RowsIn
<1> QED BY <1>1, <1>2, <1>6 DEF R

LEMMA SelectedAre ==
  ASSUME NEW A \in SUBSET Years, IsFiniteSet(A), NEW p
  PROVE  LET period == ResolvedYears(A, p)
             Y      == Selected(A, period)
             whole  == (period.from .. period.to) \ {Unset} IN
         /\ Y \in SUBSET Years /\ IsFiniteSet(Y)
         /\ whole \in SUBSET Years /\ IsFiniteSet(whole)
         /\ Y \subseteq whole /\ \A y \in whole \ Y : y \notin A
<1> DEFINE period == ResolvedYears(A, p)
           Y == Selected(A, period)
           whole == (period.from .. period.to) \ {Unset}
<1>1. period.from \in Nat /\ period.to \in Nat
  <2>1. CASE A = {}
    BY <2>1, ResolvedYearsAre DEF NoPeriod, Unset
  <2>2. CASE A # {}
    BY <2>2, ResolvedYearsAre DEF Years
  <2> QED BY <2>1, <2>2
<1> HIDE DEF period
<1>2. Y \in SUBSET Years /\ IsFiniteSet(Y)
  BY FS_Subset DEF Selected
<1>3. IsFiniteSet(whole) /\ whole \in SUBSET Years
  <2>1. IsFiniteSet(period.from .. period.to)
    BY <1>1, FS_Interval
  <2> QED BY <1>1, <2>1, FS_Subset DEF Years
<1>4. Y \subseteq whole
  <2> SUFFICES ASSUME NEW y \in Y PROVE y \in whole
    OBVIOUS
  <2>1. y \in Nat /\ y # Unset /\ period.from <= y /\ y <= period.to
    BY DEF Selected, Years
  <2> QED BY <1>1, <2>1
<1>5. \A y \in whole \ Y : y \notin A
  BY <1>1 DEF Selected
<1> QED BY <1>2, <1>3, <1>4, <1>5 DEF period

LEMMA CountedOnceBy ==
  ASSUME NEW d, Sound(d), NEW a, NEW p,
         a.period = ResolvedYears(Available(Records(d)), p),
         Lists(a.rows, Filled(Records(d), Selected(Available(Records(d)), a.period), a.filters))
  PROVE  Once(d, a)
<1> DEFINE A == Available(Records(d))
           Y == Selected(A, a.period)
           whole == (a.period.from .. a.period.to) \ {Unset}
           R == Filled(Records(d), Y, a.filters)
           total(o) == SumFunction([y \in whole |-> SentIn(d, o.org, y)])
           its(o) == {i \in DOMAIN a.rows : a.rows[i].org = o.org}
<1>1. A \in SUBSET Years /\ IsFiniteSet(A) /\ \A o \in Practicing(d) : YearsOf(d, o) \subseteq A
  BY RecordsFinite
<1>2. /\ Y \in SUBSET Years /\ IsFiniteSet(Y)
      /\ whole \in SUBSET Years /\ IsFiniteSet(whole)
      /\ Y \subseteq whole /\ \A y \in whole \ Y : y \notin A
  <2> HIDE DEF A
  <2> QED BY <1>1, SelectedAre DEF A
<1>3. /\ RowsIn(R, Y)
      /\ \A w \in R : \E o \in Practicing(d) :
           w = Row(RecordOf(d, o), Y) /\ MatchesFilters(RecordOf(d, o), a.filters) /\ w.total > 0
      /\ \A o \in Practicing(d) :
           MatchesFilters(RecordOf(d, o), a.filters) /\ Row(RecordOf(d, o), Y).total > 0 =>
             Row(RecordOf(d, o), Y) \in R
  <2> HIDE DEF Y
  <2> QED BY <1>2, FilledAre
<1>4. Lists(a.rows, R)
  OBVIOUS
<1> HIDE DEF A, Y, whole, R
<1>5. \A i \in DOMAIN a.rows : a.rows[i] \in R
  BY <1>4 DEF Lists
<1>6. ASSUME NEW o \in Practicing(d)
      PROVE  /\ Row(RecordOf(d, o), Y).total = total(o)
             /\ Row(RecordOf(d, o), Y).org = o.org
             /\ MatchesFilters(RecordOf(d, o), a.filters) <=> Due(d, o, a)
  <2> DEFINE F == [y \in whole |-> SentIn(d, o.org, y)]
             G == [y \in Y |-> SentIn(d, o.org, y)]
  <2>1. o \in d.orgs /\ Practice(d, o.org) # {}
    BY DEF Practicing
  <2>2. /\ Row(RecordOf(d, o), Y).total = SumFunction(G)
        /\ Row(RecordOf(d, o), Y).org = o.org
    BY <1>2, RowIs DEF RowOf
  <2>3. F \in [whole -> Nat] /\ G \in [Y -> Nat]
    BY SentIsNatural
  <2>4. \A y \in Y : F[y] = G[y]
    BY <1>2
  <2>5. \A y \in whole \ Y : F[y] = 0
    <3>1. \A y \in whole \ Y : y \in Years \ YearsOf(d, o)
      BY <1>1, <1>2
    <3> QED BY <2>1, <3>1, YearsOfAre
  <2>6. Y \in SUBSET whole
    BY <1>2
  <2>7. SumFunction(F) = SumFunction(G)
    <3> HIDE DEF F, G
    <3> QED BY <1>2, <2>3, <2>4, <2>5, <2>6, SameSum
  <2>8. MatchesFilters(RecordOf(d, o), a.filters) <=> Due(d, o, a)
    <3>1. /\ RecordOf(d, o).active = o.active
          /\ RecordOf(d, o).actual = \E c \in Practice(d, o.org) : c.actual
      BY RecordIs
    <3> QED BY <2>1, <3>1 DEF MatchesFilters, Due
  <2> QED BY <2>2, <2>7, <2>8
<1>7. ASSUME NEW o \in d.orgs, o \notin Practicing(d), Due(d, o, a) PROVE ~(total(o) > 0)
  <2> DEFINE F == [y \in whole |-> SentIn(d, o.org, y)]
  <2>1. YearsOf(d, o) = {}
    BY <1>7 DEF Practicing, Due
  <2>2. \A y \in whole : F[y] = 0
    BY <1>2, <2>1, YearsOfAre
  <2>3. F \in [whole -> Nat]
    BY SentIsNatural
  <2>4. SumFunction(F) = 0
    <3> HIDE DEF F
    <3> QED BY <1>2, <2>2, <2>3, SumOfNone
  <2> QED BY <2>4
<1> HIDE DEF total
<1>8. \A i, j \in DOMAIN a.rows : a.rows[i].org = a.rows[j].org => i = j
  BY <1>3, <1>4, <1>5 DEF Lists, RowsIn
<1>9. ASSUME NEW o \in d.orgs, Due(d, o, a), total(o) > 0
      PROVE  \E i \in its(o) : a.rows[i].total = total(o)
  <2>1. o \in Practicing(d)
    BY <1>7, <1>9
  <2>2. Row(RecordOf(d, o), Y) \in R
    BY <1>3, <1>6, <1>9, <2>1
  <2>3. PICK i \in DOMAIN a.rows : a.rows[i] = Row(RecordOf(d, o), Y)
    BY <1>4, <2>2 DEF Lists
  <2> QED BY <1>6, <2>1, <2>3
<1>10. ASSUME NEW o \in d.orgs, its(o) # {} PROVE Due(d, o, a) /\ total(o) > 0
  <2>1. PICK i \in DOMAIN a.rows : a.rows[i].org = o.org
    BY <1>10
  <2>2. PICK q \in Practicing(d) :
          /\ a.rows[i] = Row(RecordOf(d, q), Y)
          /\ MatchesFilters(RecordOf(d, q), a.filters) /\ a.rows[i].total > 0
    BY <1>3, <1>5
  <2>3. q = o
    BY <1>6, <2>1, <2>2 DEF Sound, Practicing
  <2> QED BY <1>6, <2>2, <2>3
<1>11. \A o \in d.orgs : IF Due(d, o, a) /\ total(o) > 0
                         THEN \E i \in its(o) : a.rows[i].total = total(o)
                         ELSE its(o) = {}
  BY <1>9, <1>10
<1> QED BY <1>8, <1>11 DEF Once, total, whole

-----------------------------------------------------------------------------
(* An answer: rows that count what was sent, under the choice asked for.   *)
AnswerTo(a, q) ==
  /\ a.available \in SUBSET Years /\ IsFiniteSet(a.available)
  /\ a.period = ResolvedYears(a.available, q.period)
  /\ a.filters = q.filters
  /\ a.sort \in Sorts /\ a.years \in SUBSET Years
  /\ Len(a.rows) \in Nat /\ (a.rows # <<>> => Len(a.rows) > 0)

LEMMA ListsHasLength ==
  ASSUME NEW R, NEW s, Lists(s, R) PROVE Len(s) \in Nat /\ (s # <<>> => Len(s) > 0)
BY DEF Lists

LEMMA TableAnswers ==
  ASSUME NEW d, Sound(d), NEW q, q.sort \in Sorts
  PROVE  LET a == Table(d, q)
             Y == Selected(Available(Records(d)), a.period)
             R == Filled(Records(d), Y, a.filters) IN
         /\ AnswerTo(a, q) /\ Once(d, a)
         /\ a = [available |-> a.available, period |-> a.period, filters |-> a.filters,
                 sort |-> a.sort, years |-> a.years, rows |-> a.rows]
         /\ a.available = Available(Records(d)) /\ Lists(a.rows, R) /\ RowsIn(R, Y)
<1> DEFINE A == Available(Records(d))
           period == ResolvedYears(A, q.period)
           Y == Selected(A, period)
           sort == OnShown(q.sort, Y)
           R == Filled(Records(d), Y, q.filters)
           a == Table(d, q)
<1>1. a = [available |-> A, period |-> period, filters |-> q.filters, sort |-> sort, years |-> Y,
           rows |-> Sorted(R, sort)]
  BY DEF Table, TableOf
<1>2. A \in SUBSET Years /\ IsFiniteSet(A)
  BY RecordsFinite
<1> HIDE DEF a, A
<1>3. Y \in SUBSET Years /\ IsFiniteSet(Y)
  BY <1>2, SelectedAre
<1> HIDE DEF period, Y
<1>4. sort \in Sorts /\ (sort.by = "year" => sort.year \in Y)
  BY DEF OnShown, Sorts, Unset
<1>5. RowsIn(R, Y)
  BY <1>3, FilledAre
<1> HIDE DEF sort, R
<1>6. Lists(Sorted(R, sort), R)
  BY <1>4, <1>5, SortedLists
<1>7. Len(Sorted(R, sort)) \in Nat /\ (Sorted(R, sort) # <<>> => Len(Sorted(R, sort)) > 0)
  BY <1>6, ListsHasLength
<1>8. /\ a.available = A /\ a.period = period /\ a.filters = q.filters /\ a.sort = sort
      /\ a.years = Y /\ a.rows = Sorted(R, sort)
      /\ a = [available |-> a.available, period |-> a.period, filters |-> a.filters,
              sort |-> a.sort, years |-> a.years, rows |-> a.rows]
  BY <1>1
<1>9. AnswerTo(a, q)
  BY <1>2, <1>3, <1>4, <1>7, <1>8 DEF AnswerTo, period
<1>10. R = Filled(Records(d), Selected(A, a.period), a.filters) /\ Y = Selected(A, a.period)
  BY <1>8 DEF R, Y
<1>11. Once(d, a)
  <2>1. a.period = ResolvedYears(Available(Records(d)), q.period)
    BY <1>8 DEF period, A
  <2>2. Lists(a.rows, Filled(Records(d), Selected(Available(Records(d)), a.period), a.filters))
    BY <1>6, <1>8, <1>10 DEF A
  <2> QED BY <2>1, <2>2, CountedOnceBy
<1> QED BY <1>5, <1>6, <1>8, <1>9, <1>10, <1>11 DEF A, a

LEMMA ChartAnswers ==
  ASSUME NEW d, Sound(d), NEW q, q.sort \in Sorts
  PROVE  AnswerTo(Chart(d, q), q) /\ Once(d, Chart(d, q))
<1> DEFINE a == Table(d, q)
           Y == Selected(Available(Records(d)), a.period)
           R == Filled(Records(d), Y, a.filters)
           b == Chart(d, q)
<1>1. /\ AnswerTo(a, q)
      /\ a = [available |-> a.available, period |-> a.period, filters |-> a.filters,
              sort |-> a.sort, years |-> a.years, rows |-> a.rows]
      /\ a.available = Available(Records(d)) /\ Lists(a.rows, R) /\ RowsIn(R, Y)
  BY TableAnswers
<1>2. b = [a EXCEPT !.rows = InOrder({a.rows[i] : i \in DOMAIN a.rows}, ByTotal)]
  BY DEF Chart
<1> HIDE DEF a, R, b
<1>3. {a.rows[i] : i \in DOMAIN a.rows} = R
  BY <1>1 DEF Lists
<1>4. b.rows = InOrder(R, ByTotal)
  BY <1>1, <1>2, <1>3
<1>5. /\ b.available = a.available /\ b.period = a.period /\ b.filters = a.filters
      /\ b.sort = a.sort /\ b.years = a.years
  BY <1>1, <1>2
<1>6. Lists(b.rows, R)
  BY <1>1, <1>4, ByTotalLists
<1>7. Len(b.rows) \in Nat /\ (b.rows # <<>> => Len(b.rows) > 0)
  BY <1>6, ListsHasLength
<1>8. AnswerTo(b, q)
  BY <1>1, <1>5, <1>7 DEF AnswerTo
<1>9. Once(d, b)
  <2>1. b.period = ResolvedYears(Available(Records(d)), q.period)
    BY <1>1, <1>8, <1>5 DEF AnswerTo
  <2>2. Lists(b.rows, Filled(Records(d), Selected(Available(Records(d)), b.period), b.filters))
    BY <1>5, <1>6 DEF R
  <2> QED BY <2>1, <2>2, CountedOnceBy
<1> QED BY <1>8, <1>9 DEF b

-----------------------------------------------------------------------------
(* Windows of one size.                                                    *)
LEMMA Windows ==
  ASSUME NEW s \in Nat \ {0}, NEW q \in Int, s * q \in Nat
  PROVE  (s * q) % s = 0
<1> DEFINE o == s * q
           r == o % s
           d == o \div s
<1>1. o = s * d + r /\ d \in Int /\ r \in 0 .. s - 1
  OBVIOUS
<1> HIDE DEF d, r
<1>2. s * (q - d) = r
  <2>1. s * (q - d) = s * q - s * d
    BY <1>1
  <2> QED BY <1>1, <2>1
<1>3. q - d \in Int
  BY <1>1
<1>4. \A n \in Int : (n > 0 => s * n >= s) /\ (n < 0 => s * n < 0)
  OBVIOUS
<1>5. q - d = 0
  BY <1>1, <1>2, <1>3, <1>4
<1>6. q = d
  BY <1>1, <1>5
<1> QED BY <1>1, <1>6 DEF r

LEMMA NextWindows ==
  ASSUME NEW s \in Nat \ {0}, NEW o \in Nat, o % s = 0
  PROVE  0 % s = 0 /\ (o + s) % s = 0 /\ (o > s => (o - s) % s = 0)
<1> DEFINE d == o \div s
<1>1. o = s * d /\ d \in Int
  OBVIOUS
<1> HIDE DEF d
<1>2. s * (d + 1) = o + s /\ s * (d - 1) = o - s /\ s * 0 = 0
  BY <1>1
<1>3. 0 % s = 0
  BY <1>2, Windows
<1>4. (o + s) % s = 0
  BY <1>1, <1>2, Windows
<1>5. ASSUME o > s PROVE (o - s) % s = 0
  BY <1>1, <1>2, <1>5, Windows
<1> QED BY <1>3, <1>4, <1>5

-----------------------------------------------------------------------------
(* A page of statistics.  While its last load was answered, what is shown  *)
(* and remembered is that answer; and as long as no load was overtaken,    *)
(* the page is busy exactly while the one load for the last choice is      *)
(* under way.                                                              *)
Periods(Y) == [from : Y \cup {Unset}, to : Y \cup {Unset}]
Filters == {All} \cup {c.filters : c \in Picks}
ChoicesOf(Y) == [period : Periods(Y), filters : Filters, sort : Sorts]
LoadRight(l) ==
  /\ l.q \in ChoicesOf(years)
  /\ l.at = "refused" => ~(years \subseteq Accepted)
  /\ l.at = "served" => AnswerTo(l.answer, l.q) /\ Once(l.db, l.answer)

PageRight ==
  /\ Sound(db)
  /\ years \in SUBSET Years /\ IsFiniteSet(years)
  /\ choice \in ChoicesOf(years)
  /\ \A l \in loads : LoadRight(l)
PayloadRight ==
  /\ payload.years \in SUBSET Years
  /\ ResolvedYears(payload.available, payload.period) = payload.period
  /\ Len(payload.rows) \in Nat /\ (payload.rows # <<>> => Len(payload.rows) > 0)
Showing ==
  settled =>
    /\ stored = ResolvedYears(years, payload.period)
    /\ labels.at = "data" => /\ labels.period = ResolvedYears(years, payload.period)
                             /\ labels.filters = payload.filters
    /\ ~busy => /\ choice.period = ResolvedYears(years, payload.period)
                /\ choice.filters = payload.filters
InTurn ==
  ~raced =>
    /\ \A l, m \in loads : l = m /\ l.q = asked
    /\ ~busy <=> loads = {}
    /\ loads = {} /\ settled => answered = asked
Tiled ==
  /\ pageSize \in Nat \ {0} /\ pageOffset \in Nat /\ pageOffset % pageSize = 0
  /\ payload.rows # <<>> => pageOffset < Len(payload.rows)
StatsInv == PageRight /\ PayloadRight /\ Showing /\ InTurn /\ Tiled

LEMMA StatsForAnswers ==
  ASSUME Sound(db), NEW p, NEW q, q.sort \in Sorts
  PROVE  AnswerTo(StatsFor(p, q), q) /\ Once(db, StatsFor(p, q))
BY TableAnswers, ChartAnswers DEF StatsFor

LEMMA FirstAnswers ==
  ASSUME Sound(db), NEW p
  PROVE  LET first == FirstStats(p) IN
         /\ first.available \in SUBSET Years /\ IsFiniteSet(first.available)
         /\ first.period = ResolvedYears(first.available, NoPeriod)
         /\ ResolvedYears(first.available, first.period) = first.period
         /\ first.filters = All /\ first.years \in SUBSET Years
         /\ Len(first.rows) \in Nat /\ (first.rows # <<>> => Len(first.rows) > 0)
<1> DEFINE q == [period |-> NoPeriod, filters |-> All, sort |-> NoSort]
           first == FirstStats(p)
<1>1. q.sort \in Sorts /\ q.period = NoPeriod /\ q.filters = All
  BY DEF Sorts, NoSort, Unset
<1>2. first = StatsFor(p, q)
  BY DEF FirstStats
<1> HIDE DEF q, first
<1>3. AnswerTo(first, q)
  BY <1>1, <1>2, StatsForAnswers
<1>4. first.available \in SUBSET Years /\ IsFiniteSet(first.available)
  BY <1>3 DEF AnswerTo
<1>5. first.period = ResolvedYears(first.available, NoPeriod)
  BY <1>1, <1>3 DEF AnswerTo
<1>6. ResolvedYears(first.available, first.period) = first.period
  BY <1>4, <1>5, ResolvedYearsAre
<1>7. /\ first.filters = All /\ first.years \in SUBSET Years
      /\ Len(first.rows) \in Nat /\ (first.rows # <<>> => Len(first.rows) > 0)
  BY <1>1, <1>3 DEF AnswerTo
<1> QED BY <1>4, <1>5, <1>6, <1>7 DEF first

LEMMA ChoiceTyped ==
  ASSUME NEW Y \in SUBSET Years, IsFiniteSet(Y), NEW p
  PROVE  ResolvedYears(Y, p) \in Periods(Y)
<1> DEFINE r == ResolvedYears(Y, p)
<1>1. /\ r = [from |-> r.from, to |-> r.to]
      /\ Y = {} => r = NoPeriod
      /\ Y # {} => r.from \in Y /\ r.to \in Y
  BY ResolvedYearsAre
<1> HIDE DEF r
<1>2. r \in Periods(Y)
  BY <1>1 DEF Periods, NoPeriod
<1> QED BY <1>2 DEF r

LEMMA StatsStart == StatsInit => StatsInv
<1> SUFFICES ASSUME StatsInit PROVE StatsInv
  OBVIOUS
<1>1. Sound(db)
  BY StatsAssumption DEF StatsInit
<1>2. payload = FirstStats(statsPage)
  BY DEF StatsInit
<1>3. /\ payload.available \in SUBSET Years /\ IsFiniteSet(payload.available)
      /\ payload.period = ResolvedYears(payload.available, NoPeriod)
      /\ ResolvedYears(payload.available, payload.period) = payload.period
      /\ payload.filters = All /\ payload.years \in SUBSET Years
      /\ Len(payload.rows) \in Nat /\ (payload.rows # <<>> => Len(payload.rows) > 0)
  BY <1>1, <1>2, FirstAnswers
<1>4. /\ years = payload.available
      /\ choice = [period |-> payload.period, filters |-> All, sort |-> NoSort]
  BY DEF StatsInit
<1>5. choice \in ChoicesOf(years)
  <2>1. payload.period \in Periods(years)
    BY <1>3, <1>4, ChoiceTyped
  <2> QED BY <1>4, <2>1 DEF ChoicesOf, Filters, Sorts, NoSort, Unset
<1>6. PageRight
  BY <1>1, <1>3, <1>4, <1>5 DEF PageRight, StatsInit
<1>7. PayloadRight
  BY <1>3 DEF PayloadRight
<1>8. Showing
  BY <1>3, <1>4 DEF Showing, StatsInit, Labels
<1>9. InTurn
  BY DEF InTurn, StatsInit
<1>10. Tiled
  BY <1>3, StatsAssumption DEF Tiled, StatsInit
<1> QED BY <1>6, <1>7, <1>8, <1>9, <1>10 DEF StatsInv

(* A load is sent.                                                         *)
LEMMA SendKeepsStats ==
  ASSUME StatsInv, NEW c \in ChoicesOf(years), SendLoad(c), ~raced' => loads = {},
         UNCHANGED chart \/ (pageSize' \in Nat \ {0} /\ pageOffset' = 0)
  PROVE  StatsInv'
<1>1. /\ choice' = c /\ asked' = c /\ loads' = loads \cup {Load(c)} /\ busy' = TRUE
      /\ db' = db /\ stored' = stored /\ years' = years /\ payload' = payload /\ labels' = labels
      /\ settled' = settled
  BY DEF SendLoad, registry
<1>2. Load(c).q = c /\ Load(c).at = "sent"
  BY DEF Load
<1>3. PageRight'
  <2>1. \A l \in loads' : LoadRight(l)'
    BY <1>1, <1>2 DEF StatsInv, PageRight, LoadRight
  <2> QED BY <1>1, <2>1 DEF StatsInv, PageRight
<1>4. PayloadRight'
  BY <1>1 DEF StatsInv, PayloadRight
<1>5. Showing'
  BY <1>1 DEF StatsInv, Showing
<1>6. InTurn'
  BY <1>1, <1>2 DEF InTurn
<1>7. Tiled'
  BY <1>1 DEF StatsInv, Tiled, PayloadRight, chart
<1> QED BY <1>3, <1>4, <1>5, <1>6, <1>7 DEF StatsInv

LEMMA ApplyKeeps == ASSUME StatsInv, NEW c \in Picks, Apply(c) PROVE StatsInv'
<1> DEFINE period == ResolvedYears(years, [from |-> c.from, to |-> c.to])
           q == [choice EXCEPT !.period = period, !.filters = c.filters]
<1>1. period \in Periods(years)
  BY ChoiceTyped DEF StatsInv, PageRight
<1>2. c.filters \in Filters
  BY DEF Filters
<1>3. SendLoad(q) /\ Idle /\ raced' = (raced /\ loads # {}) /\ Resize(c.size)
  BY DEF Apply
<1> HIDE DEF period
<1>4. q \in ChoicesOf(years)
  BY <1>1, <1>2 DEF StatsInv, PageRight, ChoicesOf
<1>5. ~raced' => loads = {}
  BY <1>3 DEF StatsInv, InTurn, Idle
<1>6. UNCHANGED chart \/ (pageSize' \in Nat \ {0} /\ pageOffset' = 0)
  BY <1>3, StatsAssumption DEF Resize
<1> HIDE DEF q
<1> QED BY <1>3, <1>4, <1>5, <1>6, SendKeepsStats

LEMMA ResetKeeps == ASSUME StatsInv, Reset PROVE StatsInv'
<1> DEFINE period == ResolvedYears(years, NoPeriod)
           q == [period |-> period, filters |-> All, sort |-> NoSort]
<1>1. period \in Periods(years)
  BY ChoiceTyped DEF StatsInv, PageRight
<1>2. SendLoad(q) /\ Idle /\ raced' = (raced /\ loads # {}) /\ Resize(DefaultSize)
  BY DEF Reset
<1> HIDE DEF period
<1>3. q \in ChoicesOf(years)
  BY <1>1 DEF ChoicesOf, Filters, Sorts, NoSort, Unset
<1>4. ~raced' => loads = {}
  BY <1>2 DEF StatsInv, InTurn, Idle
<1>5. UNCHANGED chart \/ (pageSize' \in Nat \ {0} /\ pageOffset' = 0)
  BY <1>2, StatsAssumption DEF Resize
<1> HIDE DEF q
<1> QED BY <1>2, <1>3, <1>4, <1>5, SendKeepsStats

LEMMA SortKeeps == ASSUME StatsInv, NEW column \in Headers, SortBy(column) PROVE StatsInv'
<1> DEFINE q == [choice EXCEPT !.sort = Turned(column)]
<1>1. column \in Sorts
  <2>1. payload.years \subseteq Nat /\ Unset \in Nat
    BY DEF StatsInv, PayloadRight, Years, Unset
  <2>2. ASSUME NEW c \in {"signed", "name", "total"},
               column = [by |-> c, year |-> Unset, down |-> FALSE]
        PROVE  column \in Sorts
    BY <2>1, <2>2 DEF Sorts
  <2>3. ASSUME NEW y \in payload.years, column = [by |-> "year", year |-> y, down |-> FALSE]
        PROVE  column \in Sorts
    <3>1. y \in Nat
      BY <2>1
    <3> QED BY <2>3, <3>1 DEF Sorts
  <2> QED BY <2>2, <2>3 DEF Headers
<1>2. Turned(column) \in Sorts
  <2>1. NoSort \in Sorts /\ [column EXCEPT !.down = TRUE] \in Sorts
    BY <1>1 DEF NoSort, Sorts, Unset
  <2> QED BY <1>1, <2>1 DEF Turned
<1>3. q \in ChoicesOf(years)
  BY <1>2 DEF StatsInv, PageRight, ChoicesOf
<1>4. SendLoad(q) /\ raced' = (loads # {}) /\ UNCHANGED chart
  BY DEF SortBy
<1> HIDE DEF q
<1> QED BY <1>3, <1>4, SendKeepsStats

(* A load is served, taken, or fails.                                      *)
LEMMA ServeStatsKeeps == ASSUME StatsInv, NEW l \in loads, ServeStats(l) PROVE StatsInv'
<1> DEFINE refused == {l.q.period.from, l.q.period.to} \ (Accepted \cup {Unset}) # {}
           m == IF refused THEN [n |-> l.n, at |-> "refused", q |-> l.q]
                ELSE [n |-> l.n, at |-> "served", q |-> l.q,
                      answer |-> StatsFor(statsPage, l.q), db |-> db]
<1>1. /\ loads' = (loads \ {l}) \cup {m}
      /\ db' = db /\ stored' = stored /\ years' = years /\ payload' = payload /\ labels' = labels
      /\ choice' = choice /\ busy' = busy /\ settled' = settled /\ raced' = raced
      /\ asked' = asked /\ answered' = answered /\ pageSize' = pageSize /\ pageOffset' = pageOffset
  BY DEF ServeStats, registry, chart
<1>2. LoadRight(l)
  BY DEF StatsInv, PageRight
<1>3. m.q = l.q
  OBVIOUS
<1>4. LoadRight(m)
  <2>1. CASE refused
    <3>1. m.at = "refused"
      BY <2>1
    <3>2. {l.q.period.from, l.q.period.to} \subseteq years \cup {Unset}
      BY <1>2 DEF LoadRight, ChoicesOf, Periods
    <3>3. ~(years \subseteq Accepted)
      BY <2>1, <3>2
    <3> HIDE DEF m
    <3> QED BY <1>2, <1>3, <3>1, <3>3 DEF LoadRight
  <2>2. CASE ~refused
    <3>1. m.at = "served" /\ m.answer = StatsFor(statsPage, l.q) /\ m.db = db
      BY <2>2
    <3>2. Sound(db) /\ l.q.sort \in Sorts
      BY <1>2 DEF LoadRight, ChoicesOf, StatsInv, PageRight
    <3>3. AnswerTo(m.answer, l.q) /\ Once(m.db, m.answer)
      BY <3>1, <3>2, StatsForAnswers
    <3> HIDE DEF m
    <3> QED BY <1>2, <1>3, <3>1, <3>3 DEF LoadRight
  <2> QED BY <2>1, <2>2
<1> HIDE DEF m
<1>5. PageRight'
  <2>1. \A k \in loads' : LoadRight(k)'
    BY <1>1, <1>4 DEF StatsInv, PageRight, LoadRight
  <2> QED BY <1>1, <2>1 DEF StatsInv, PageRight
<1>6. PayloadRight'
  BY <1>1 DEF StatsInv, PayloadRight
<1>7. Showing'
  BY <1>1 DEF StatsInv, Showing
<1>8. InTurn'
  BY <1>1, <1>3 DEF StatsInv, InTurn
<1>9. Tiled'
  BY <1>1 DEF StatsInv, Tiled
<1> QED BY <1>5, <1>6, <1>7, <1>8, <1>9 DEF StatsInv

LEMMA TakeStatsKeeps == ASSUME StatsInv, NEW l \in loads, TakeStats(l) PROVE StatsInv'
<1>1. /\ payload' = l.answer
      /\ choice' = [period |-> ResolvedYears(years, l.answer.period),
                    filters |-> l.answer.filters, sort |-> l.answer.sort]
      /\ stored' = choice'.period /\ labels' = Labels(choice') /\ pageOffset' = 0
      /\ loads' = loads \ {l} /\ busy' = FALSE /\ answered' = l.q /\ settled' = TRUE
      /\ db' = db /\ years' = years /\ pageSize' = pageSize /\ asked' = asked /\ raced' = raced
  BY DEF TakeStats, OnMenu, registry
<1>2. LoadRight(l) /\ AnswerTo(l.answer, l.q)
  BY DEF TakeStats, StatsInv, PageRight, LoadRight
<1>3. choice' \in ChoicesOf(years)
  <2>1. ResolvedYears(years, l.answer.period) \in Periods(years)
    BY ChoiceTyped DEF StatsInv, PageRight
  <2>2. l.answer.filters \in Filters /\ l.answer.sort \in Sorts
    BY <1>2 DEF LoadRight, AnswerTo, ChoicesOf
  <2> QED BY <1>1, <2>1, <2>2 DEF ChoicesOf
<1>4. PageRight'
  <2>1. \A k \in loads' : LoadRight(k)'
    BY <1>1 DEF StatsInv, PageRight, LoadRight
  <2> QED BY <1>1, <1>3, <2>1 DEF StatsInv, PageRight
<1>5. PayloadRight'
  <2>1. ResolvedYears(l.answer.available, l.answer.period) = l.answer.period
    BY <1>2, ResolvedYearsAre DEF AnswerTo
  <2> QED BY <1>1, <1>2, <2>1 DEF AnswerTo, PayloadRight
<1>6. Showing'
  BY <1>1 DEF Showing, Labels
<1>7. InTurn'
  BY <1>1 DEF StatsInv, InTurn
<1>8. Tiled'
  BY <1>1, <1>5 DEF StatsInv, Tiled, PayloadRight
<1> QED BY <1>4, <1>5, <1>6, <1>7, <1>8 DEF StatsInv

LEMMA FailLoadKeeps == ASSUME StatsInv, NEW l \in loads, FailLoad(l) PROVE StatsInv'
<1>1. /\ loads' = loads \ {l} /\ busy' = FALSE /\ settled' = FALSE
      /\ db' = db /\ years' = years /\ choice' = choice /\ payload' = payload
      /\ asked' = asked /\ raced' = raced /\ pageSize' = pageSize /\ pageOffset' = pageOffset
  BY DEF FailLoad, registry, chart
<1>2. PageRight'
  <2>1. \A k \in loads' : LoadRight(k)'
    BY <1>1 DEF StatsInv, PageRight, LoadRight
  <2> QED BY <1>1, <2>1 DEF StatsInv, PageRight
<1>3. PayloadRight'
  BY <1>1 DEF StatsInv, PayloadRight
<1>4. Showing'
  BY <1>1 DEF Showing
<1>5. InTurn'
  BY <1>1 DEF StatsInv, InTurn
<1>6. Tiled'
  BY <1>1 DEF StatsInv, Tiled
<1> QED BY <1>2, <1>3, <1>4, <1>5, <1>6 DEF StatsInv

(* The windows of the chart.                                               *)
LEMMA TurnKeeps ==
  ASSUME StatsInv, NEW to \in Nat, Turn(to), to % pageSize = 0, to < Len(payload.rows)
  PROVE  StatsInv'
<1>1. /\ pageOffset' = to /\ labels' = Labels(choice) /\ ~busy
      /\ db' = db /\ years' = years /\ choice' = choice /\ payload' = payload /\ stored' = stored
      /\ busy' = busy /\ loads' = loads /\ asked' = asked /\ answered' = answered
      /\ settled' = settled /\ raced' = raced /\ pageSize' = pageSize
  BY DEF Turn, Idle, registry
<1>2. PageRight'
  <2>1. \A k \in loads' : LoadRight(k)'
    BY <1>1 DEF StatsInv, PageRight, LoadRight
  <2> QED BY <1>1, <2>1 DEF StatsInv, PageRight
<1>3. PayloadRight'
  BY <1>1 DEF StatsInv, PayloadRight
<1>4. Showing'
  BY <1>1 DEF StatsInv, Showing, Labels
<1>5. InTurn'
  BY <1>1 DEF StatsInv, InTurn
<1>6. Tiled'
  BY <1>1 DEF StatsInv, Tiled
<1> QED BY <1>2, <1>3, <1>4, <1>5, <1>6 DEF StatsInv

LEMMA WindowsKeep == ASSUME StatsInv, PreviousWindow \/ NextWindow PROVE StatsInv'
<1>1. /\ pageSize \in Nat \ {0} /\ pageOffset \in Nat /\ pageOffset % pageSize = 0
      /\ payload.rows # <<>> => pageOffset < Len(payload.rows)
      /\ Len(payload.rows) \in Nat
  BY DEF StatsInv, Tiled, PayloadRight
<1>2. /\ 0 % pageSize = 0 /\ (pageOffset + pageSize) % pageSize = 0
      /\ pageOffset > pageSize => (pageOffset - pageSize) % pageSize = 0
  BY <1>1, NextWindows, Zenon
<1>3. CASE PreviousWindow
  <2> DEFINE to == IF pageOffset > pageSize THEN pageOffset - pageSize ELSE 0
  <2>1. Turn(to) /\ payload.rows # <<>>
    BY <1>3 DEF PreviousWindow, Turn
  <2>2. to \in Nat /\ to % pageSize = 0
    BY <1>1, <1>2
  <2>3. to < Len(payload.rows)
    BY <1>1, <2>1
  <2> HIDE DEF to
  <2> QED BY <2>1, <2>2, <2>3, TurnKeeps
<1>4. CASE NextWindow
  <2> DEFINE to == pageOffset + pageSize
  <2>1. Turn(to) /\ to < Len(payload.rows)
    BY <1>4 DEF NextWindow, Within
  <2>2. to \in Nat /\ to % pageSize = 0
    BY <1>1, <1>2
  <2> HIDE DEF to
  <2> QED BY <2>1, <2>2, TurnKeeps
<1> QED BY <1>3, <1>4

(* A page is opened: its rows are those of the whole period, and it asks   *)
(* for the period remembered unless it is that.                            *)
LEMMA OpenKeeps == ASSUME StatsInv, NEW p \in {"table", "chart"}, Open(p) PROVE StatsInv'
<1> DEFINE first == FirstStats(p)
           kept == ResolvedYears(first.available, stored)
           q == [period |-> kept, filters |-> All, sort |-> NoSort]
<1>1. /\ payload' = first /\ years' = first.available /\ choice' = q /\ labels' = Labels(q)
      /\ pageOffset' = 0 /\ raced' = FALSE /\ asked' = q
      /\ answered' = [q EXCEPT !.period = first.period]
      /\ db' = db /\ pageSize' = pageSize
      /\ settled' = (kept = first.period) /\ busy' = ~settled'
      /\ Started(settled')
  BY DEF Open, Rendered, Remembered, Fits, registry
<1>2. /\ first.available \in SUBSET Years /\ IsFiniteSet(first.available)
      /\ first.period = ResolvedYears(first.available, NoPeriod)
      /\ ResolvedYears(first.available, first.period) = first.period
      /\ first.filters = All /\ first.years \in SUBSET Years
      /\ Len(first.rows) \in Nat /\ (first.rows # <<>> => Len(first.rows) > 0)
  BY FirstAnswers DEF StatsInv, PageRight
<1> HIDE DEF first
<1>3. q \in ChoicesOf(years')
  <2>1. kept \in Periods(years')
    BY <1>1, <1>2, ChoiceTyped
  <2> HIDE DEF kept
  <2> QED BY <2>1 DEF ChoicesOf, Filters, Sorts, NoSort, Unset
<1>4. q.period = kept /\ q.filters = All
  OBVIOUS
<1>5. q = [q EXCEPT !.period = q.period]
  OBVIOUS
<1> HIDE DEF kept, q
<1>6. CASE settled'
  <2>1. stored' = kept /\ loads' = {} /\ kept = first.period /\ busy' = FALSE
    BY <1>1, <1>4, <1>6 DEF Started
  <2>2. PageRight'
    BY <1>1, <1>2, <1>3, <2>1 DEF StatsInv, PageRight
  <2>3. PayloadRight'
    BY <1>1, <1>2 DEF PayloadRight
  <2>4. Showing'
    BY <1>1, <1>2, <1>4, <2>1 DEF Showing, Labels
  <2>5. InTurn'
    BY <1>1, <1>4, <1>5, <2>1 DEF InTurn
  <2>6. Tiled'
    BY <1>1, <1>2 DEF StatsInv, Tiled
  <2> QED BY <2>2, <2>3, <2>4, <2>5, <2>6 DEF StatsInv
<1>7. CASE ~settled'
  <2>1. loads' = {Load(q)} /\ busy' = TRUE
    BY <1>1, <1>7 DEF Started
  <2>2. Load(q).q = q /\ Load(q).at = "sent"
    BY DEF Load
  <2>3. PageRight'
    <3>1. \A l \in loads' : LoadRight(l)'
      BY <1>3, <2>1, <2>2 DEF LoadRight
    <3> QED BY <1>1, <1>2, <1>3, <3>1 DEF StatsInv, PageRight
  <2>4. PayloadRight'
    BY <1>1, <1>2 DEF PayloadRight
  <2>5. Showing'
    BY <1>7 DEF Showing
  <2>6. InTurn'
    BY <1>1, <1>7, <2>1, <2>2 DEF InTurn
  <2>7. Tiled'
    BY <1>1, <1>2 DEF StatsInv, Tiled
  <2> QED BY <2>3, <2>4, <2>5, <2>6, <2>7 DEF StatsInv
<1> QED BY <1>6, <1>7

(* The registry is edited, and stays sound.                                *)
LEMMA EditedKeeps == ASSUME StatsInv, NEW now, Sound(now), Edited(now) PROVE StatsInv'
<1>1. /\ db' = now /\ years' = years /\ choice' = choice /\ loads' = loads /\ payload' = payload
      /\ stored' = stored /\ labels' = labels /\ busy' = busy /\ settled' = settled
      /\ raced' = raced /\ asked' = asked /\ answered' = answered
      /\ pageSize' = pageSize /\ pageOffset' = pageOffset
  BY DEF Edited, chart
<1>2. PageRight'
  <2>1. \A l \in loads' : LoadRight(l)'
    BY <1>1 DEF StatsInv, PageRight, LoadRight
  <2> QED BY <1>1, <2>1 DEF StatsInv, PageRight
<1>3. PayloadRight'
  BY <1>1 DEF StatsInv, PayloadRight
<1>4. Showing'
  BY <1>1 DEF StatsInv, Showing
<1>5. InTurn'
  BY <1>1 DEF StatsInv, InTurn
<1>6. Tiled'
  BY <1>1 DEF StatsInv, Tiled
<1> QED BY <1>2, <1>3, <1>4, <1>5, <1>6 DEF StatsInv

LEMMA SaveKeepsStats == ASSUME StatsInv, NEW c \in Contracts, SaveContract(c) PROVE StatsInv'
<1> DEFINE others == {d \in db.contracts : d.contract # c.contract}
           f == [d \in others |-> [d EXCEPT !.actual = d.actual /\ ~Archives(c, d)]]
           saved == {f[d] : d \in others} \cup {c}
           now == [db EXCEPT !.contracts = saved]
<1>1. Sound(db) /\ c \in ContractRows
  BY StatsAssumption DEF StatsInv, PageRight
<1>2. Edited(now)
  <2>1. {[d EXCEPT !.actual = @ /\ ~Archives(c, d)] : d \in others} = {f[d] : d \in others}
    OBVIOUS
  <2> HIDE DEF f, others
  <2> QED BY <2>1 DEF SaveContract, others
<1>3. others \in SUBSET ContractRows /\ IsFiniteSet(others)
      /\ \A d, e \in others : d.contract = e.contract => d = e
  BY <1>1, FS_Subset DEF Sound
<1>4. \A d \in others : /\ f[d] \in ContractRows /\ f[d].contract = d.contract
                        /\ d.contract # c.contract
  BY <1>3 DEF ContractRows, Archives
<1> HIDE DEF f, others
<1>5. /\ saved \subseteq ContractRows
      /\ \A d, e \in saved : d.contract = e.contract => d = e
  BY <1>1, <1>3, <1>4
<1>6. IsFiniteSet(saved)
  <2>1. IsFiniteSet({f[d] : d \in others})
    BY <1>3, ImageFinite
  <2> QED BY <2>1, FS_AddElement
<1> HIDE DEF saved
<1>7. /\ now = [orgs |-> db.orgs, contracts |-> saved, blocks |-> db.blocks, stats |-> db.stats]
  BY <1>1 DEF Sound
<1>8. Sound(now)
  BY <1>1, <1>5, <1>6, <1>7 DEF Sound
<1> HIDE DEF now
<1> QED BY <1>2, <1>8, EditedKeeps

LEMMA DeleteKeepsStats ==
  ASSUME StatsInv, NEW o \in db.orgs, DeleteOrganization(o) PROVE StatsInv'
<1> DEFINE others(rows) == {r \in rows : r.org # o.org}
           now == [orgs |-> others(db.orgs), contracts |-> others(db.contracts),
                   blocks |-> others(db.blocks), stats |-> others(db.stats)]
<1>1. Edited(now)
  BY DEF DeleteOrganization
<1>2. Sound(db)
  BY DEF StatsInv, PageRight
<1>3. /\ others(db.orgs) \in SUBSET db.orgs /\ others(db.contracts) \in SUBSET db.contracts
      /\ others(db.blocks) \in SUBSET db.blocks /\ others(db.stats) \in SUBSET db.stats
  OBVIOUS
<1>4. /\ now.orgs = others(db.orgs) /\ now.contracts = others(db.contracts)
      /\ now.blocks = others(db.blocks) /\ now.stats = others(db.stats)
      /\ now = [orgs |-> now.orgs, contracts |-> now.contracts, blocks |-> now.blocks,
                stats |-> now.stats]
  OBVIOUS
<1> HIDE DEF now, others
<1>5. /\ IsFiniteSet(now.orgs) /\ IsFiniteSet(now.contracts)
      /\ IsFiniteSet(now.blocks) /\ IsFiniteSet(now.stats)
  BY <1>2, <1>3, <1>4, FS_Subset DEF Sound
<1>6. Sound(now)
  BY <1>2, <1>3, <1>4, <1>5 DEF Sound
<1> QED BY <1>1, <1>6, EditedKeeps

LEMMA StatsKept == StatsInv /\ [StatsNext]_statsVars => StatsInv'
<1> SUFFICES ASSUME StatsInv, [StatsNext]_statsVars PROVE StatsInv'
  OBVIOUS
<1>1. ASSUME NEW p \in {"table", "chart"}, Open(p) PROVE StatsInv'
  BY <1>1, OpenKeeps
<1>2. ASSUME NEW c \in Picks, Apply(c) PROVE StatsInv'
  BY <1>2, ApplyKeeps
<1>3. CASE Reset
  BY <1>3, ResetKeeps
<1>4. ASSUME NEW column \in Headers, SortBy(column) PROVE StatsInv'
  BY <1>4, SortKeeps
<1>5. ASSUME NEW l \in loads, ServeStats(l) \/ TakeStats(l) \/ FailLoad(l) PROVE StatsInv'
  BY <1>5, ServeStatsKeeps, TakeStatsKeeps, FailLoadKeeps
<1>6. CASE PreviousWindow \/ NextWindow
  BY <1>6, WindowsKeep
<1>7. ASSUME NEW c \in Contracts, SaveContract(c) PROVE StatsInv'
  BY <1>7, SaveKeepsStats
<1>8. ASSUME NEW o \in db.orgs, DeleteOrganization(o) PROVE StatsInv'
  BY <1>8, DeleteKeepsStats
<1>9. CASE UNCHANGED statsVars
  <2>1. \A l \in loads : LoadRight(l)' = LoadRight(l)
    BY <1>9 DEF statsVars, LoadRight
  <2>2. loads' = loads
    BY <1>9 DEF statsVars
  <2>3. PageRight'
    BY <1>9, <2>1, <2>2 DEF statsVars, StatsInv, PageRight
  <2>4. PayloadRight' /\ Tiled'
    BY <1>9 DEF statsVars, StatsInv, PayloadRight, Tiled
  <2>5. Showing' /\ InTurn'
    BY <1>9 DEF statsVars, StatsInv, Showing, InTurn
  <2> QED BY <2>3, <2>4, <2>5 DEF StatsInv
<1> QED BY <1>1, <1>2, <1>3, <1>4, <1>5, <1>6, <1>7, <1>8, <1>9 DEF StatsNext

LEMMA StatsTell == StatsInv => StatisticsTell
<1> SUFFICES ASSUME StatsInv PROVE StatisticsTell
  OBVIOUS
<1>1. LabelsTell
  BY DEF StatsInv, Showing, PayloadRight, LabelsTell
<1>2. LastAsked
  BY DEF StatsInv, InTurn, LastAsked
<1>3. WindowsTile
  BY DEF StatsInv, Tiled, WindowsTile
<1>4. OnlyOddYearsRefused /\ CountedOnce
  BY DEF StatsInv, PageRight, LoadRight, OnlyOddYearsRefused, CountedOnce
<1> QED BY <1>1, <1>2, <1>3, <1>4 DEF StatisticsTell, RowsTell

(* For any registry, any choices and any number of pages, loads and edits, *)
(* a page of statistics tells the truth: rows under their own labels, for  *)
(* the last choice made, in windows that tile, and each student counted    *)
(* once (loadTable, loadChart, fetch_distribution_stats_table).            *)
THEOREM StatisticsRight == StatsSpec => []StatisticsTell
<1>1. StatsInit => StatsInv
  BY StatsStart
<1>2. StatsInv /\ [StatsNext]_statsVars => StatsInv'
  BY StatsKept
<1>3. StatsInv => StatisticsTell
  BY StatsTell
<1> QED BY <1>1, <1>2, <1>3, PTL DEF StatsSpec

(* On the site, the session and each kind of page do what they do alone,   *)
(* so that what is proved of WebSession, TablePage and StatsPages holds    *)
(* there (main.py, organizations_pages.py).                                *)
THEOREM SiteIsAll == SiteSpec => Spec /\ TableSpec /\ StatsSpec
<1>1. SiteInit => Init /\ TableInit /\ StatsInit
  BY DEF SiteInit
<1>2. [SiteNext]_allVars => [Next]_vars
  BY DEF SiteNext, UseSession, UseTables, UseStats, allVars
<1>3. [SiteNext]_allVars => [TableNext]_tableVars
  BY DEF SiteNext, UseSession, UseTables, UseStats, allVars
<1>4. [SiteNext]_allVars => [StatsNext]_statsVars
  BY DEF SiteNext, UseSession, UseTables, UseStats, allVars
<1> QED BY <1>1, <1>2, <1>3, <1>4, PTL DEF SiteSpec, Spec, TableSpec, StatsSpec
=============================================================================
