------------------------------ MODULE Browser ------------------------------
(***************************************************************************)
(* The console in one browser: tabs that share a cookie jar, the API       *)
(* client with its single silent refresh, the bootstrap of AuthContext,    *)
(* and as much of the server as decides the answers - the cookies, the     *)
(* double-submit check, the access token, and the rotation of refresh      *)
(* tokens.                                                                 *)
(*                                                                         *)
(* login and refresh set the access, refresh and CSRF cookies of one       *)
(* response together.  So responses that set cookies are numbered, the     *)
(* three values carry the number of theirs, and the jar holds one number,  *)
(* and whether the access cookie, which expires first, is still there.     *)
(*                                                                         *)
(* An activity is one run of the client's JavaScript: a bootstrap, a call  *)
(* of a page, a login, a logout.  Each of its HTTP exchanges is sent,      *)
(* served and answered in steps of their own, and may get lost.  Timeouts  *)
(* of sessions and the insides of the handlers are in Sessions.            *)
(***************************************************************************)
EXTENDS Integers, FiniteSets

CONSTANTS
    Tabs,
    Activities,  \* what a tab may have under way at the same time
    TabOf,       \* the tab of each activity
    MaxIssues,   \* bound: responses that set cookies
    MaxLosses,   \* bound: exchanges that get lost
    Null

ASSUME TabsAssumption ==
    IsFiniteSet(Activities) /\ TabOf \in [Activities -> Tabs] /\ Null \notin Activities

ASSUME BoundsAssumption == MaxIssues \in Nat \ {0} /\ MaxLosses \in Nat

VARIABLES
    status,    \* AuthContext's status, by tab
    flight,    \* refreshInFlight, by tab: the activity that has made it
    activity,  \* where each activity is, and its exchange
    jar,       \* the cookies
    live,      \* refresh tokens whose session is not revoked
    family,    \* the family of each session
    issued,    \* responses that have set cookies
    losses,    \* exchanges lost so far
    burnt,     \* families that reuse detection has revoked
    left,      \* families of the tokens whose logout was answered 204
    held,      \* refresh tokens the jar has ever held
    lost,      \* families of which an answer with their cookies got lost
    crossed    \* a refresh met a logout, or one outside its single flight

server == <<live, family, issued, burnt>>
seen == <<left, held, lost, crossed>>
vars == <<status, flight, activity, jar, server, losses, seen>>

Issues == 1..MaxIssues

\* A page's GET is a "write" that csrfProtection lets pass, as the bootstrap's.
Jobs == {"boot", "write", "login", "logout"}

\* What of the job is being done: "try" is the call itself, "renew" the
\* refresh, "retry" the call after it; "join" waits for another's refresh.
Places == {"idle", "try", "renew", "join", "retry"}

Phases == {"none", "composed", "sent", "found", "answered"}

Answers == {"none", "ok", "unauthorised", "refused"}

Idle ==
    [job |-> "none", at |-> "idle", phase |-> "none", header |-> 0, token |-> 0,
     access |-> FALSE, swapped |-> FALSE, answer |-> "none", given |-> 0]

TypeOK ==
    /\ status \in [Tabs -> {"loading", "anonymous", "authenticated"}]
    /\ flight \in [Tabs -> Activities \cup {Null}]
    /\ activity \in [Activities ->
          [job : Jobs \cup {"none"}, at : Places, phase : Phases,
           header : 0..MaxIssues, token : 0..MaxIssues, access : BOOLEAN,
           swapped : BOOLEAN, answer : Answers, given : 0..MaxIssues]]
    /\ jar \in [issue : 0..MaxIssues, access : BOOLEAN]
    /\ jar.access => jar.issue # 0
    /\ live \subseteq 1..issued
    /\ family \in [Issues -> Issues]
    /\ issued \in 0..MaxIssues
    /\ losses \in 0..MaxLosses
    /\ burnt \subseteq Issues
    /\ left \subseteq Issues
    /\ held \subseteq Issues
    /\ lost \subseteq Issues
    /\ crossed \in BOOLEAN

\* The tabs open on a browser that may be signed in from before.
Init ==
    /\ status = [t \in Tabs |-> "loading"]
    /\ flight = [t \in Tabs |-> Null]
    /\ activity = [a \in Activities |-> Idle]
    /\ jar \in [issue : {1}, access : BOOLEAN] \cup [issue : {0}, access : {FALSE}]
    /\ live = {1}
    /\ family = [n \in Issues |-> n]
    /\ issued = 1
    /\ losses = 0
    /\ burnt = {} /\ left = {} /\ lost = {}
    /\ held = {1}
    /\ crossed = FALSE

-----------------------------------------------------------------------------
(* Exchanges.                                                              *)

Busy(a) == activity[a].at # "idle"

InFlight(a) == activity[a].phase \notin {"none", "composed"}

Renewing(a) == activity[a].at = "renew"

\* csrfProtection stands before logout and the writes; GET passes it.
Unsafe(job) == job \in {"write", "logout"}

\* A mutant: the token the page was loaded with.
FirstCsrfToken(cookies) == 1

ReadCsrfToken(cookies) == cookies.issue

\* fetch: the CSRF header is read from the cookie in the JavaScript turn that
\* makes the request; the browser attaches the cookies when it sends it.
Exchange(job, place, cookies) ==
    IF place # "renew" /\ Unsafe(job)
    THEN [Idle EXCEPT !.job = job, !.at = place, !.phase = "composed",
                      !.header = ReadCsrfToken(cookies)]
    ELSE [Idle EXCEPT !.job = job, !.at = place, !.phase = "sent",
                      !.token = IF place = "renew" THEN cookies.issue ELSE 0,
                      !.access = place # "renew" /\ cookies.access]

\* A refresh goes out while a logout is under way, or a refresh outside the
\* tab's single flight: another tab's, or the bootstrap's;
Meets(a) ==
    \E b \in Activities \ {a} :
        /\ InFlight(b)
        /\ \/ activity[b].job = "logout"
           \/ Renewing(b) /\ (TabOf[b] # TabOf[a] \/ "boot" \in {activity[a].job, activity[b].job})

\* or a logout goes out while a refresh is.
LogoutMeets(a) == activity[a].job = "logout" /\ \E b \in Activities : Renewing(b)

Attach(a) ==
    /\ activity[a].phase = "composed"
    /\ activity' = [activity EXCEPT ![a].phase = "sent", ![a].token = jar.issue,
                                    ![a].access = jar.access]
    /\ crossed' = (crossed \/ LogoutMeets(a))
    /\ UNCHANGED <<status, flight, jar, server, losses, left, held, lost>>

\* A mutant: a clearCookie whose options do not match leaves the access cookie.
SetCookiesKeepingAccess(issue) ==
    /\ jar' = [issue |-> issue, access |-> TRUE]
    /\ held' = held \cup ({issue} \ {0})

\* setAuthCookies, or clearAuthCookies for 0.
SetCookies(issue) ==
    /\ jar' = [issue |-> issue, access |-> issue # 0]
    /\ held' = held \cup ({issue} \ {0})

\* Requests composed with cookies that an answer replaces now.
Swap(acts) ==
    [a \in Activities |->
        [acts[a] EXCEPT !.swapped =
            @ \/ (activity[a].phase = "composed" /\ jar'.issue # jar.issue)]]

-----------------------------------------------------------------------------
(* The server.                                                             *)

FamilyOf(token) == {n \in Issues : n <= issued /\ family[n] = family[token]}

\* csrfProtection: both values are there and equal.
CsrfPasses(a) ==
    /\ activity[a].token # 0
    /\ activity[a].header # 0
    /\ activity[a].header = activity[a].token

Answer(a, answer, given) ==
    activity' = [activity EXCEPT ![a].phase = "answered", ![a].answer = answer,
                                 ![a].given = given]

\* me and the account routes: csrfProtection, then authenticate.  Access
\* tokens are not looked up, so their session may be revoked.
ServePage(a) ==
    LET job == activity[a].job
    IN /\ activity[a].phase = "sent"
       /\ activity[a].at \in {"try", "retry"} /\ job \in {"boot", "write"}
       /\ Answer(a, IF Unsafe(job) /\ ~CsrfPasses(a) THEN "refused"
                    ELSE IF activity[a].access THEN "ok" ELSE "unauthorised", 0)
       /\ UNCHANGED <<status, flight, jar, server, losses, seen>>

\* A new response that sets cookies, its token live in the family given.
Issue(a, others, token) ==
    LET n == issued + 1
    IN /\ issued' = n
       /\ live' = others \cup {n}
       /\ family' = [family EXCEPT ![n] = IF token = 0 THEN n ELSE family[token]]
       /\ Answer(a, "ok", n)

\* login: a wrong password, or a lock, is answered 401.
ServeLogin(a) ==
    /\ activity[a].phase = "sent" /\ activity[a].job = "login"
    /\ \/ Issue(a, live, 0)
       \/ /\ Answer(a, "unauthorised", 0)
          /\ UNCHANGED <<live, family, issued>>
    /\ UNCHANGED <<status, flight, jar, losses, burnt, seen>>

\* refresh: no cookie, an active session, or the reuse of a revoked one.
ServeRefresh(a) ==
    LET token == activity[a].token
    IN /\ activity[a].phase = "sent" /\ Renewing(a)
       /\ IF token \in live
          THEN /\ activity' = [activity EXCEPT ![a].phase = "found"]
               /\ UNCHANGED <<live, burnt>>
          ELSE /\ Answer(a, "unauthorised", 0)
               /\ live' = IF token = 0 THEN live ELSE live \ FamilyOf(token)
               /\ burnt' = IF token = 0 THEN burnt ELSE burnt \cup {family[token]}
       /\ UNCHANGED <<status, flight, jar, family, issued, losses, seen>>

\* Then, awaits later, the token is revoked and its successor inserted.
ServeRotation(a) ==
    /\ activity[a].phase = "found"
    /\ Issue(a, live \ {activity[a].token}, activity[a].token)
    /\ UNCHANGED <<status, flight, jar, losses, burnt, seen>>

\* A mutant: the sessions are looked for under another family.
RevokedNothing(token) == {}

RevokedByLogout(token) == IF token \in live THEN FamilyOf(token) ELSE {}

\* logout: the family of an active session is revoked; 204 in any case.
ServeLogout(a) ==
    LET token == activity[a].token
    IN /\ activity[a].phase = "sent" /\ activity[a].job = "logout"
       /\ IF CsrfPasses(a)
          THEN /\ Answer(a, "ok", 0)
               /\ live' = live \ RevokedByLogout(token)
               /\ left' = left \cup {family[token]}
          ELSE /\ Answer(a, "refused", 0)
               /\ UNCHANGED <<live, left>>
       /\ UNCHANGED <<status, flight, jar, family, issued, losses, burnt, held, lost, crossed>>

-----------------------------------------------------------------------------
(* The client.                                                             *)

\* AuthContext asks who it is on mount; RequireAuth shows pages to the
\* authenticated only; LoginPage can be had at any time, next to the bootstrap.
MayStart(job, t) ==
    CASE job = "boot" -> /\ status[t] = "loading"
                         /\ \A b \in Activities : TabOf[b] = t => ~Busy(b)
      [] job = "login" -> \A b \in Activities :
                              TabOf[b] = t => activity[b].job # "login"
      [] OTHER -> status[t] = "authenticated"

\* Bound: no activity starts whose login or refresh would find no number.
IssueLeft == issued + Cardinality({a \in Activities : Busy(a)}) < MaxIssues

Start(a, job) ==
    /\ ~Busy(a)
    /\ MayStart(job, TabOf[a])
    /\ IssueLeft
    /\ activity' = [activity EXCEPT ![a] = Exchange(job, "try", jar)]
    /\ UNCHANGED <<status, flight, jar, server, losses, seen>>

SetStatus(a, outcome) == status' = [status EXCEPT ![TabOf[a]] = outcome]

\* A 204 on its way.
Leaving(a) ==
    activity[a].job = "logout" /\ activity[a].phase = "answered" /\ activity[a].answer = "ok"

\* The Set-Cookie headers of an answer, whatever the page makes of it.
TakeCookies(a) ==
    CASE activity[a].given # 0 -> SetCookies(activity[a].given)
      [] activity[a].given = 0 /\ activity[a].job = "logout"
            /\ activity[a].answer = "ok" -> SetCookies(0)
      [] OTHER -> UNCHANGED <<jar, held>>

Continue(a, next) == activity' = Swap([activity EXCEPT ![a] = next])

\* request() ends with a result or an ApiError; logout ends in `finally`.
EndCall(a) ==
    /\ activity[a].phase = "answered"
    /\ \/ activity[a].at = "retry" /\ activity[a].job # "boot"
       \/ activity[a].at = "try" /\ activity[a].job \in {"login", "logout"}
       \/ activity[a].at = "try" /\ activity[a].job = "write"
             /\ activity[a].answer # "unauthorised"
    /\ TakeCookies(a)
    /\ Continue(a, Idle)
    /\ CASE activity[a].job = "logout" -> SetStatus(a, "anonymous")
         [] activity[a].job = "login" /\ activity[a].answer = "ok" ->
                SetStatus(a, "authenticated")
         [] OTHER -> UNCHANGED status
    /\ UNCHANGED <<flight, server, losses, left, lost, crossed>>

\* A mutant: every 401 makes a refresh of its own.
NobodyRefreshing(t) == TRUE

Unclaimed(t) == flight[t] = Null

\* A call answered 401 makes the tab's refresh.
Renew(a) ==
    /\ activity[a].phase = "answered"
    /\ activity[a].at = "try" /\ activity[a].job = "write"
    /\ activity[a].answer = "unauthorised"
    /\ Unclaimed(TabOf[a])
    /\ flight' = [flight EXCEPT ![TabOf[a]] = a]
    /\ activity' = [activity EXCEPT ![a] = Exchange(activity[a].job, "renew", jar)]
    /\ crossed' = (crossed \/ Meets(a))
    /\ UNCHANGED <<status, jar, server, losses, left, held, lost>>

\* Or waits for the one there is: refreshInFlight ??= ...
Join(a) ==
    /\ activity[a].phase = "answered"
    /\ activity[a].at = "try" /\ activity[a].job = "write"
    /\ activity[a].answer = "unauthorised"
    /\ ~Unclaimed(TabOf[a])
    /\ activity' = [activity EXCEPT ![a] = [Idle EXCEPT !.job = activity[a].job, !.at = "join"]]
    /\ UNCHANGED <<status, flight, jar, server, losses, seen>>

\* A mutant: those who wait are forgotten.
MakerOnly(a) == {a}

GoOn(a) == {a} \cup {b \in Activities : activity[b].at = "join" /\ TabOf[b] = TabOf[a]}

\* The refresh settles: its maker and those who wait for it go on together.
Resume(a, ok, cookies) ==
    activity' = Swap([b \in Activities |->
        CASE b \notin GoOn(a)        -> activity[b]
          [] b \in GoOn(a) /\ ok     -> Exchange(activity[b].job, "retry", cookies)
          [] b \in GoOn(a) /\ ~ok    -> Idle])

Renewed(a) ==
    /\ activity[a].phase = "answered" /\ Renewing(a) /\ activity[a].job # "boot"
    /\ flight' = [flight EXCEPT ![TabOf[a]] = Null]
    /\ IF activity[a].answer = "ok"
       THEN SetCookies(activity[a].given) /\ Resume(a, TRUE, jar')
       ELSE UNCHANGED <<jar, held>> /\ Resume(a, FALSE, jar)
    /\ UNCHANGED <<status, server, losses, left, lost, crossed>>

\* The bootstrap: me, and on any failure one refresh, outside the single
\* flight, and me again.
Boot(a) ==
    /\ activity[a].phase = "answered" /\ activity[a].job = "boot"
    /\ TakeCookies(a)
    /\ CASE activity[a].at # "renew" /\ activity[a].answer = "ok" ->
              /\ Continue(a, Idle)
              /\ SetStatus(a, "authenticated")
              /\ UNCHANGED crossed
         [] activity[a].at = "try" /\ activity[a].answer # "ok" ->
              /\ Continue(a, Exchange("boot", "renew", jar))
              /\ crossed' = (crossed \/ Meets(a))
              /\ UNCHANGED status
         [] activity[a].at = "renew" /\ activity[a].answer = "ok" ->
              /\ Continue(a, Exchange("boot", "retry", jar'))
              /\ UNCHANGED <<status, crossed>>
         [] OTHER ->
              /\ Continue(a, Idle)
              /\ SetStatus(a, "anonymous")
              /\ UNCHANGED crossed
    /\ UNCHANGED <<flight, server, losses, left, lost>>

-----------------------------------------------------------------------------
(* The environment.                                                        *)

\* The family whose cookies an answer sets, or removes.
Undelivered(a) ==
    IF activity[a].given # 0 THEN {family[activity[a].given]}
    ELSE IF Leaving(a) THEN {family[activity[a].token]}
    ELSE {}

\* The request or its answer is lost, or the server fails: fetch rejects, or
\* the answer is an error.  What the server has done stays done.
Lose(a) ==
    /\ losses < MaxLosses
    /\ activity[a].phase \in {"sent", "answered"} /\ activity[a].answer # "refused"
    /\ losses' = losses + 1
    /\ lost' = lost \cup Undelivered(a)
    /\ activity' = [activity EXCEPT ![a].phase = "answered", ![a].answer = "refused",
                                    ![a].given = 0]
    /\ UNCHANGED <<status, flight, jar, server, left, held, crossed>>

ExpireAccess ==
    /\ jar.access
    /\ jar' = [jar EXCEPT !.access = FALSE]
    /\ UNCHANGED <<status, flight, activity, server, losses, seen>>

\* A tab with nothing under way is loaded anew.
Reload(t) ==
    /\ \A a \in Activities : TabOf[a] = t => ~Busy(a)
    /\ status' = [status EXCEPT ![t] = "loading"]
    /\ UNCHANGED <<flight, activity, jar, server, losses, seen>>

Serve(a) ==
    \/ ServePage(a) \/ ServeLogin(a) \/ ServeRefresh(a) \/ ServeRotation(a)
    \/ ServeLogout(a)

Client(a) == Attach(a) \/ EndCall(a) \/ Renew(a) \/ Join(a) \/ Renewed(a) \/ Boot(a)

Next ==
    \/ \E a \in Activities : Serve(a) \/ Client(a) \/ Lose(a)
    \/ \E a \in Activities, job \in Jobs : Start(a, job)
    \/ \E t \in Tabs : Reload(t)
    \/ ExpireAccess

Spec == Init /\ [][Next]_vars

\* Requests reach the server or fail, handlers end, answers arrive or fail,
\* and the event loop runs what waits for them.
FairSpec == Spec /\ \A a \in Activities : WF_vars(Serve(a) \/ Client(a))

-----------------------------------------------------------------------------
(* Properties.                                                             *)

\* "Collapse concurrent 401s into a single refresh call" (client.js): the calls
\* of a tab never have two refreshes under way.
OneRefreshPerTab ==
    \A a, b \in {c \in Activities : Renewing(c) /\ activity[c].job # "boot"} :
        TabOf[a] = TabOf[b] => a = b

\* Reuse detection (auth.service.js, refresh) does not fire on the console
\* itself: it takes a lost answer that would have set or removed the cookies of
\* the very family it burns, or a refresh that met a logout or a refresh outside
\* the single flight of client.js.
BurnExplained == crossed \/ burnt \subseteq lost

\* After a logout that the server has answered 204, whatever token it presented,
\* a token of its family is live only if the answer that brought it got lost, so
\* that the browser never had it; and the jar holds one of the family only until
\* the 204 is there, or if an answer of the family got lost; unless a refresh met
\* a logout: logout (auth.service.js), clearAuthCookies (cookies.js).
LogoutEndsFamily ==
    \/ crossed
    \/ /\ \A n \in live : family[n] \in left => n \notin held /\ family[n] \in lost
       /\ jar.issue # 0 /\ family[jar.issue] \in left
             => \/ family[jar.issue] \in lost
                \/ \E a \in Activities :
                       Leaving(a) /\ family[activity[a].token] = family[jar.issue]

\* The double-submit check refuses the console only if cookies were replaced
\* between the reading of the header and the sending, or were not there.
CsrfRefusalExplained ==
    \A a \in Activities :
        activity[a].phase = "sent" /\ Unsafe(activity[a].job) /\ ~Renewing(a)
            => CsrfPasses(a) \/ activity[a].swapped \/ activity[a].header = 0

\* "A 401 triggers exactly ONE silent refresh attempt, then gives up"
\* (client.js): every activity ends, whatever the server answers.
ActivitiesEnd == \A a \in Activities : Busy(a) ~> ~Busy(a)
=============================================================================
