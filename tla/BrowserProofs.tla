--------------------------- MODULE BrowserProofs ---------------------------
(***************************************************************************)
(* Theorems about Browser, for any number of tabs, of activities in each   *)
(* of them, of responses and of losses.                                    *)
(***************************************************************************)
EXTENDS Browser, FiniteSetTheorems, TLAPS

-----------------------------------------------------------------------------
(* The invariant.                                                          *)

Activity ==
    [job : Jobs \cup {"none"}, at : Places, phase : Phases, header : Nat, token : Nat,
     access : BOOLEAN, swapped : BOOLEAN, answer : Answers, given : Nat]

\* The types, without the bound on the numbers of responses.
Loose ==
    /\ activity \in [Activities -> Activity]
    /\ flight \in [Tabs -> Activities \cup {Null}]
    /\ jar \in [issue : Nat, access : BOOLEAN]
    /\ issued \in Nat

\* refreshInFlight names whoever is refreshing.
OwnsFlight(a) ==
    Renewing(a) /\ activity[a].job # "boot" => flight[TabOf[a]] = a

\* A header was read from the cookies in the jar, or those have been replaced;
\* once sent, from the cookies it goes with.
HeaderFits(a) ==
    /\ activity[a].phase = "composed" =>
          activity[a].swapped \/ activity[a].header = jar.issue
    /\ activity[a].phase = "sent" /\ Unsafe(activity[a].job) /\ ~Renewing(a) =>
          activity[a].swapped \/ activity[a].header = activity[a].token

HasJob(a) == Busy(a) => activity[a].job \in Jobs

BrowserInv ==
    /\ Loose
    /\ \A a \in Activities : OwnsFlight(a) /\ HeaderFits(a) /\ HasJob(a)

-----------------------------------------------------------------------------
(* What a step does to the activities.                                     *)

\* An activity that is not the mover's changes in one way only: its cookies
\* may be replaced while its header waits to be sent.
Aside(b) ==
    \/ activity'[b] = activity[b] /\ jar'.issue = jar.issue
    \/ activity'[b] = [activity[b] EXCEPT !.swapped = @ \/
          (activity[b].phase = "composed" /\ jar'.issue # jar.issue)]

\* Nothing under way is an activity with nothing to be refused.
LEMMA IdleFields ==
    /\ Idle \in Activity
    /\ Idle.at = "idle" /\ Idle.phase = "none" /\ Idle.job = "none"
    /\ \A job \in Jobs :
          /\ [Idle EXCEPT !.job = job, !.at = "join"] \in Activity
          /\ [Idle EXCEPT !.job = job, !.at = "join"].at = "join"
          /\ [Idle EXCEPT !.job = job, !.at = "join"].phase = "none"
BY DEF Idle, Activity, Jobs, Places, Phases, Answers

\* A new exchange reads its header from the cookies given, unless it is one
\* that needs none.
LEMMA ExchangeFields ==
    ASSUME NEW job \in Jobs, NEW place \in {"try", "renew", "retry"},
           NEW cookies \in [issue : Nat, access : BOOLEAN]
    PROVE  /\ Exchange(job, place, cookies) \in Activity
           /\ Exchange(job, place, cookies).job = job
           /\ Exchange(job, place, cookies).at = place
           /\ Exchange(job, place, cookies).phase \in {"composed", "sent"}
           /\ Exchange(job, place, cookies).phase = "composed" =>
                 Exchange(job, place, cookies).header = cookies.issue
           /\ Exchange(job, place, cookies).phase = "sent" =>
                 place = "renew" \/ ~Unsafe(job)
<1>1. CASE place # "renew" /\ Unsafe(job)
  <2> DEFINE r == [Idle EXCEPT !.job = job, !.at = place, !.phase = "composed",
                               !.header = ReadCsrfToken(cookies)]
  <2>1. Exchange(job, place, cookies) = r
    BY <1>1 DEF Exchange
  <2>2. r \in Activity /\ r.job = job /\ r.at = place /\ r.phase = "composed"
        /\ r.header = cookies.issue
    BY DEF Idle, Activity, Places, Phases, Answers, ReadCsrfToken
  <2> QED
    BY <2>1, <2>2
<1>2. CASE ~(place # "renew" /\ Unsafe(job))
  <2>1. PICK token \in Nat, access \in BOOLEAN :
           Exchange(job, place, cookies) =
              [Idle EXCEPT !.job = job, !.at = place, !.phase = "sent",
                           !.token = token, !.access = access]
    <3>1. (IF place = "renew" THEN cookies.issue ELSE 0) \in Nat
      OBVIOUS
    <3>2. (place # "renew" /\ cookies.access) \in BOOLEAN
      OBVIOUS
    <3> QED
      BY <1>2, <3>1, <3>2 DEF Exchange
  <2> DEFINE r == [Idle EXCEPT !.job = job, !.at = place, !.phase = "sent",
                               !.token = token, !.access = access]
  <2>2. r \in Activity /\ r.job = job /\ r.at = place /\ r.phase = "sent"
    BY DEF Idle, Activity, Places, Phases, Answers
  <2> QED
    BY <1>2, <2>1, <2>2
<1> QED
  BY <1>1, <1>2

\* An activity set aside keeps what the invariant says of it.
LEMMA AsideKeeps ==
    ASSUME Loose, jar' \in [issue : Nat, access : BOOLEAN], NEW b \in Activities,
           Aside(b), HeaderFits(b)
    PROVE  /\ activity'[b] \in Activity
           /\ HeaderFits(b)'
           /\ Renewing(b)' = Renewing(b)
           /\ activity'[b].job = activity[b].job
           /\ activity'[b].at = activity[b].at
<1>1. activity[b] \in Activity
  BY DEF Loose
<1>2. CASE activity'[b] = activity[b] /\ jar'.issue = jar.issue
  BY <1>1, <1>2 DEF HeaderFits, Renewing
<1>3. PICK s \in BOOLEAN : s = (activity[b].swapped \/
                               (activity[b].phase = "composed" /\ jar'.issue # jar.issue))
  BY <1>1 DEF Activity
<1>4. CASE activity'[b] = [activity[b] EXCEPT !.swapped = s]
  <2>1. /\ activity'[b] \in Activity
        /\ activity'[b].swapped = s
        /\ activity'[b].job = activity[b].job
        /\ activity'[b].at = activity[b].at
        /\ activity'[b].phase = activity[b].phase
        /\ activity'[b].header = activity[b].header
        /\ activity'[b].token = activity[b].token
    BY <1>1, <1>4 DEF Activity
  <2> QED
    BY <1>3, <2>1 DEF HeaderFits, Renewing
<1> QED
  BY <1>2, <1>3, <1>4 DEF Aside

\* An exchange that fits the jar it leaves behind.
Fits(r, issue) ==
    /\ r.phase = "composed" => r.swapped \/ r.header = issue
    /\ r.phase = "sent" /\ Unsafe(r.job) /\ r.at # "renew" =>
          r.swapped \/ r.header = r.token

\* A step that moves one activity keeps the invariant if its exchange fits, if
\* it takes the flight when it refreshes, and if it leaves others theirs.
LEMMA MoverKeeps ==
    ASSUME BrowserInv, NEW a \in Activities, NEW r \in Activity,
           \/ activity' = [activity EXCEPT ![a] = r] /\ jar'.issue = jar.issue
           \/ activity' = Swap([activity EXCEPT ![a] = r]) /\ activity[a].phase = "answered",
           jar' \in [issue : Nat, access : BOOLEAN],
           flight' \in [Tabs -> Activities \cup {Null}],
           issued' \in Nat,
           Fits(r, jar'.issue),
           r.at # "idle" => r.job \in Jobs,
           r.at = "renew" /\ r.job # "boot" => flight'[TabOf[a]] = a,
           \A b \in Activities \ {a} :
              Renewing(b) /\ activity[b].job # "boot" => flight'[TabOf[b]] = b
    PROVE  BrowserInv'
<1>1. activity \in [Activities -> Activity] /\ Loose
  BY DEF BrowserInv, Loose
<1>2. activity'[a] = r /\ \A b \in Activities \ {a} : Aside(b)
  <2>1. CASE activity' = [activity EXCEPT ![a] = r] /\ jar'.issue = jar.issue
    BY <1>1, <2>1 DEF Aside
  <2>2. CASE /\ activity' = Swap([activity EXCEPT ![a] = r])
             /\ activity[a].phase = "answered"
    <3>1. \A b \in Activities :
             activity'[b] = [[activity EXCEPT ![a] = r][b] EXCEPT !.swapped =
                @ \/ (activity[b].phase = "composed" /\ jar'.issue # jar.issue)]
      BY <2>2 DEF Swap
    <3>2. \A b \in Activities \ {a} : [activity EXCEPT ![a] = r][b] = activity[b]
      BY <1>1
    <3>3. [activity EXCEPT ![a] = r][a] = r
      BY <1>1
    <3>4. activity'[a] = [r EXCEPT !.swapped = r.swapped \/
                (activity[a].phase = "composed" /\ jar'.issue # jar.issue)]
      BY <3>1, <3>3
    <3>5. (r.swapped \/ (activity[a].phase = "composed" /\ jar'.issue # jar.issue)) = r.swapped
      BY <2>2 DEF Activity
    <3>6. [r EXCEPT !.swapped = r.swapped] = r
      BY DEF Activity
    <3> QED
      BY <3>1, <3>2, <3>4, <3>5, <3>6 DEF Aside
  <2> QED
    BY <2>1, <2>2
<1>3. \A b \in Activities \ {a} :
         /\ activity'[b] \in Activity
         /\ HeaderFits(b)'
         /\ Renewing(b)' = Renewing(b)
         /\ activity'[b].job = activity[b].job
         /\ activity'[b].at = activity[b].at
  BY <1>1, <1>2, AsideKeeps DEF BrowserInv
<1>4. activity' \in [Activities -> Activity]
  <2>1. \A b \in Activities : activity'[b] \in Activity
    BY <1>2, <1>3
  <2>2. activity' = [b \in Activities |-> activity'[b]]
    BY <1>1 DEF Swap
  <2> QED
    BY <2>1, <2>2
<1>5. Loose'
  BY <1>4 DEF Loose, Activity
<1>6. ASSUME NEW b \in Activities \ {a}
      PROVE  OwnsFlight(b)' /\ HeaderFits(b)' /\ HasJob(b)'
  BY <1>3, <1>6 DEF BrowserInv, OwnsFlight, HasJob, Busy
<1>7. OwnsFlight(a)' /\ HeaderFits(a)' /\ HasJob(a)'
  BY <1>2 DEF OwnsFlight, HeaderFits, HasJob, Busy, Renewing, Fits
<1> QED
  BY <1>5, <1>6, <1>7 DEF BrowserInv

-----------------------------------------------------------------------------
(* The server's steps, and those of the environment.                       *)

\* An answer, a found session or a lost exchange leaves job and place alone.
LEMMA AnswerKeeps ==
    ASSUME BrowserInv, NEW a \in Activities, NEW r \in Activity,
           activity' = [activity EXCEPT ![a] = r],
           r.job = activity[a].job, r.at = activity[a].at,
           r.phase \in {"answered", "found"},
           UNCHANGED <<flight, jar>>, issued' \in Nat
    PROVE  BrowserInv'
<1>1. Fits(r, jar'.issue)
  BY DEF Fits
<1>2. \A b \in Activities :
         Renewing(b) /\ activity[b].job # "boot" => flight'[TabOf[b]] = b
  BY DEF BrowserInv, OwnsFlight
<1>3. r.at = "renew" /\ r.job # "boot" => flight'[TabOf[a]] = a
  BY <1>2 DEF Renewing
<1>4. r.at # "idle" => r.job \in Jobs
  BY DEF BrowserInv, HasJob, Busy
<1>5. jar' \in [issue : Nat, access : BOOLEAN] /\ flight' \in [Tabs -> Activities \cup {Null}]
  BY DEF BrowserInv, Loose
<1> QED
  BY <1>1, <1>2, <1>3, <1>4, <1>5, MoverKeeps

\* What Answer makes of an activity.
LEMMA AnswerFields ==
    ASSUME Loose, NEW a \in Activities, NEW answer \in Answers, NEW given \in Nat,
           Answer(a, answer, given)
    PROVE  \E r \in Activity :
              /\ activity' = [activity EXCEPT ![a] = r]
              /\ r.job = activity[a].job /\ r.at = activity[a].at /\ r.phase = "answered"
<1>1. activity[a] \in Activity
  BY DEF Loose
<1> DEFINE r == [activity[a] EXCEPT !.phase = "answered", !.answer = answer, !.given = given]
<1>2. r \in Activity /\ r.job = activity[a].job /\ r.at = activity[a].at /\ r.phase = "answered"
  BY <1>1 DEF Activity, Phases
<1>3. activity' = [activity EXCEPT ![a] = r]
  BY DEF Answer, Loose
<1> QED
  BY <1>2, <1>3

\* Every answer of the server keeps the invariant.
LEMMA ServeKeeps ==
    ASSUME BrowserInv, NEW a \in Activities, Serve(a)
    PROVE  BrowserInv'
<1>l. Loose
  BY DEF BrowserInv
<1>1. ASSUME NEW answer \in Answers, NEW given \in Nat, Answer(a, answer, given),
             UNCHANGED <<flight, jar>>, issued' \in Nat
      PROVE  BrowserInv'
  BY <1>l, <1>1, AnswerFields, AnswerKeeps
<1>2. CASE ServePage(a)
  <2>1. PICK answer \in Answers : Answer(a, answer, 0)
    BY <1>2 DEF ServePage, Answers
  <2> QED
    BY <1>l, <1>1, <1>2, <2>1 DEF ServePage, server, Loose
<1>3. ASSUME NEW others, NEW token, Issue(a, others, token), UNCHANGED <<flight, jar>>
      PROVE  BrowserInv'
  <2>1. issued + 1 \in Nat /\ issued' = issued + 1
    BY <1>l, <1>3 DEF Loose, Issue
  <2>2. Answer(a, "ok", issued + 1)
    BY <1>3 DEF Issue
  <2> QED
    BY <1>1, <1>3, <2>1, <2>2 DEF Answers
<1>4. CASE ServeLogin(a)
  <2>1. CASE Issue(a, live, 0)
    BY <1>3, <1>4, <2>1 DEF ServeLogin
  <2>2. CASE Answer(a, "unauthorised", 0) /\ issued' = issued
    BY <1>l, <1>1, <1>4, <2>2 DEF ServeLogin, Answers, Loose
  <2> QED
    BY <1>4, <2>1, <2>2 DEF ServeLogin
<1>5. CASE ServeRefresh(a)
  <2>1. UNCHANGED <<flight, jar, issued>>
    BY <1>5 DEF ServeRefresh
  <2>2. CASE Answer(a, "unauthorised", 0)
    BY <1>l, <1>1, <2>1, <2>2 DEF Answers, Loose
  <2>3. CASE activity' = [activity EXCEPT ![a].phase = "found"]
    <3> DEFINE r == [activity[a] EXCEPT !.phase = "found"]
    <3>1. activity[a] \in Activity
      BY <1>l DEF Loose
    <3>2. r \in Activity /\ r.job = activity[a].job /\ r.at = activity[a].at
          /\ r.phase = "found"
      BY <3>1 DEF Activity, Phases
    <3>3. activity' = [activity EXCEPT ![a] = r]
      BY <2>3
    <3> QED
      BY <1>l, <2>1, <3>2, <3>3, AnswerKeeps DEF Loose
  <2> QED
    BY <1>5, <2>2, <2>3 DEF ServeRefresh
<1>6. CASE ServeRotation(a)
  BY <1>3, <1>6 DEF ServeRotation
<1>7. CASE ServeLogout(a)
  <2>1. PICK answer \in Answers : Answer(a, answer, 0)
    BY <1>7 DEF ServeLogout, Answers
  <2> QED
    BY <1>l, <1>1, <1>7, <2>1 DEF ServeLogout, Loose
<1> QED
  BY <1>2, <1>4, <1>5, <1>6, <1>7 DEF Serve

\* Losses, expiry and reloads do too.
LEMMA EnvironmentKeeps ==
    ASSUME BrowserInv,
           \/ \E a \in Activities : Lose(a)
           \/ \E t \in Tabs : Reload(t)
           \/ ExpireAccess
           \/ UNCHANGED vars
    PROVE  BrowserInv'
<1>l. Loose
  BY DEF BrowserInv
<1>1. ASSUME NEW a \in Activities, Lose(a)
      PROVE  BrowserInv'
  <2>1. Answer(a, "refused", 0)
    BY <1>1 DEF Lose, Answer
  <2>2. PICK r \in Activity :
              /\ activity' = [activity EXCEPT ![a] = r]
              /\ r.job = activity[a].job /\ r.at = activity[a].at /\ r.phase = "answered"
    BY <1>l, <2>1, AnswerFields DEF Answers
  <2> QED
    BY <1>l, <1>1, <2>2, AnswerKeeps DEF Lose, server, Loose
<1>2. ASSUME UNCHANGED <<activity, flight, issued>>, jar'.issue = jar.issue,
             jar' \in [issue : Nat, access : BOOLEAN]
      PROVE  BrowserInv'
  BY <1>l, <1>2 DEF BrowserInv, Loose, Activity, OwnsFlight, HeaderFits, HasJob, Renewing, Busy
<1>3. CASE ExpireAccess
  <2>1. jar'.issue = jar.issue /\ jar' \in [issue : Nat, access : BOOLEAN]
    BY <1>l, <1>3 DEF ExpireAccess, Loose
  <2> QED
    BY <1>2, <1>3, <2>1 DEF ExpireAccess, server
<1>4. CASE (\E t \in Tabs : Reload(t)) \/ UNCHANGED vars
  BY <1>l, <1>2, <1>4 DEF Reload, vars, server, Loose
<1> QED
  BY <1>1, <1>3, <1>4

-----------------------------------------------------------------------------
(* The client's steps.                                                     *)

\* A step that leaves the flights alone, and makes no refresh of a call.
LEMMA QuietMoveKeeps ==
    ASSUME BrowserInv, NEW a \in Activities, NEW r \in Activity,
           \/ activity' = [activity EXCEPT ![a] = r] /\ jar'.issue = jar.issue
           \/ activity' = Swap([activity EXCEPT ![a] = r]) /\ activity[a].phase = "answered",
           jar' \in [issue : Nat, access : BOOLEAN],
           UNCHANGED <<flight, issued>>,
           Fits(r, jar'.issue),
           r.at # "idle" => r.job \in Jobs,
           r.at = "renew" => r.job = "boot"
    PROVE  BrowserInv'
<1>1. \A b \in Activities :
         Renewing(b) /\ activity[b].job # "boot" => flight'[TabOf[b]] = b
  BY DEF BrowserInv, OwnsFlight
<1>2. flight' \in [Tabs -> Activities \cup {Null}] /\ issued' \in Nat
  BY DEF BrowserInv, Loose
<1> QED
  BY <1>1, <1>2, MoverKeeps

\* A composed request is sent with the cookies of the jar it fits.
LEMMA AttachKeeps ==
    ASSUME BrowserInv, NEW a \in Activities, Attach(a)
    PROVE  BrowserInv'
<1>l. Loose /\ HeaderFits(a) /\ HasJob(a) /\ OwnsFlight(a)
  BY DEF BrowserInv
<1>1. activity[a] \in Activity /\ jar.issue \in Nat /\ jar.access \in BOOLEAN
  BY <1>l DEF Loose
<1> DEFINE r == [activity[a] EXCEPT !.phase = "sent", !.token = jar.issue,
                                    !.access = jar.access]
<1>2. /\ r \in Activity /\ r.job = activity[a].job /\ r.at = activity[a].at
      /\ r.phase = "sent" /\ r.token = jar.issue
      /\ r.swapped = activity[a].swapped /\ r.header = activity[a].header
  BY <1>1 DEF Activity, Phases
<1>3. activity' = [activity EXCEPT ![a] = r]
  BY <1>l DEF Attach, Loose
<1>4. UNCHANGED <<flight, jar, issued>>
  BY DEF Attach, server
<1>5. Fits(r, jar'.issue)
  BY <1>l, <1>2, <1>4 DEF Attach, HeaderFits, Fits
<1>6. r.at # "idle" => r.job \in Jobs
  BY <1>l, <1>2 DEF HasJob, Busy
<1>7. \A b \in Activities :
         Renewing(b) /\ activity[b].job # "boot" => flight'[TabOf[b]] = b
  BY <1>4 DEF BrowserInv, OwnsFlight
<1>8. r.at = "renew" /\ r.job # "boot" => flight'[TabOf[a]] = a
  BY <1>2, <1>7 DEF Renewing
<1>9. /\ jar' \in [issue : Nat, access : BOOLEAN]
      /\ flight' \in [Tabs -> Activities \cup {Null}] /\ issued' \in Nat
  BY <1>l, <1>4 DEF Loose
<1> HIDE DEF r
<1> QED
  BY <1>2, <1>3, <1>4, <1>5, <1>6, <1>7, <1>8, <1>9, MoverKeeps

\* A new activity, and one that waits, fit whatever the jar holds.
LEMMA StartKeeps ==
    ASSUME BrowserInv, NEW a \in Activities,
           (\E job \in Jobs : Start(a, job)) \/ Join(a)
    PROVE  BrowserInv'
<1>l. Loose /\ HasJob(a) /\ jar \in [issue : Nat, access : BOOLEAN]
  BY DEF BrowserInv, Loose
<1>1. ASSUME NEW job \in Jobs, Start(a, job)
      PROVE  BrowserInv'
  <2>1. PICK r : r = Exchange(job, "try", jar)
    OBVIOUS
  <2>2. /\ r \in Activity /\ r.job = job /\ r.at = "try"
        /\ r.phase = "composed" => r.header = jar.issue
        /\ r.phase = "sent" => ~Unsafe(job)
    BY <1>l, <2>1, ExchangeFields
  <2>3. activity' = [activity EXCEPT ![a] = r] /\ UNCHANGED <<flight, jar, issued>>
    BY <1>1, <2>1 DEF Start, server
  <2>4. Fits(r, jar'.issue)
    BY <2>2, <2>3 DEF Fits
  <2> QED
    BY <1>l, <2>2, <2>3, <2>4, QuietMoveKeeps
<1>2. CASE Join(a)
  <2>1. activity[a].job \in Jobs
    BY <1>l, <1>2 DEF Join, HasJob, Busy
  <2>2. PICK r : r = [Idle EXCEPT !.job = activity[a].job, !.at = "join"]
    OBVIOUS
  <2>3. r \in Activity /\ r.at = "join" /\ r.phase = "none" /\ r.job = activity[a].job
    <3>1. r.job = activity[a].job
      BY <2>2 DEF Idle
    <3> QED
      BY <2>1, <2>2, <3>1, IdleFields
  <2>4. activity' = [activity EXCEPT ![a] = r] /\ UNCHANGED <<flight, jar, issued>>
    BY <1>2, <2>2 DEF Join, server
  <2>5. Fits(r, jar'.issue)
    BY <2>3 DEF Fits
  <2> QED
    BY <1>l, <2>1, <2>3, <2>4, <2>5, QuietMoveKeeps
<1> QED
  BY <1>1, <1>2

\* Nobody else of a tab refreshes when a call finds its flight unclaimed.
LEMMA RenewKeeps ==
    ASSUME BrowserInv, NEW a \in Activities, Renew(a)
    PROVE  BrowserInv'
<1>l. Loose /\ HasJob(a) /\ jar \in [issue : Nat, access : BOOLEAN]
  BY DEF BrowserInv, Loose
<1>1. activity[a].job \in Jobs
  BY <1>l DEF Renew, HasJob, Busy
<1>2. PICK r : r = Exchange(activity[a].job, "renew", jar)
  OBVIOUS
<1>3. r \in Activity /\ r.job = activity[a].job /\ r.at = "renew"
      /\ (r.phase = "composed" => r.header = jar.issue)
  BY <1>l, <1>1, <1>2, ExchangeFields
<1>4. activity' = [activity EXCEPT ![a] = r] /\ UNCHANGED <<jar, issued>>
      /\ flight' = [flight EXCEPT ![TabOf[a]] = a]
  BY <1>2 DEF Renew, server
<1>5. TabOf[a] \in Tabs
  BY TabsAssumption
<1>6. flight' \in [Tabs -> Activities \cup {Null}] /\ flight'[TabOf[a]] = a
      /\ \A t \in Tabs \ {TabOf[a]} : flight'[t] = flight[t]
  BY <1>l, <1>4, <1>5 DEF Loose
<1>7. ASSUME NEW b \in Activities, Renewing(b), activity[b].job # "boot"
      PROVE  flight'[TabOf[b]] = b
  <2>1. flight[TabOf[b]] = b
    BY <1>7 DEF BrowserInv, OwnsFlight
  <2>2. flight[TabOf[a]] = Null
    BY DEF Renew, Unclaimed
  <2>3. TabOf[b] \in Tabs \ {TabOf[a]}
    BY <2>1, <2>2, TabsAssumption
  <2> QED
    BY <1>6, <2>1, <2>3
<1>8. Fits(r, jar'.issue)
  BY <1>3, <1>4 DEF Fits
<1>9. jar' \in [issue : Nat, access : BOOLEAN] /\ issued' \in Nat
  BY <1>l, <1>4 DEF Loose
<1> QED
  BY <1>1, <1>3, <1>4, <1>6, <1>7, <1>8, <1>9, MoverKeeps

\* The cookies an answer leaves.
LEMMA TakenCookies ==
    ASSUME Loose, NEW a \in Activities, TakeCookies(a)
    PROVE  jar' \in [issue : Nat, access : BOOLEAN]
<1>1. activity[a].given \in Nat
  BY DEF Loose, Activity
<1>2. ASSUME NEW n \in Nat, SetCookies(n)
      PROVE  jar' \in [issue : Nat, access : BOOLEAN]
  BY <1>2 DEF SetCookies
<1>3. CASE activity[a].given # 0
  BY <1>1, <1>2, <1>3 DEF TakeCookies
<1>4. CASE activity[a].given = 0
  BY <1>2, <1>4 DEF TakeCookies, Loose
<1> QED
  BY <1>3, <1>4

\* A call that ends, and the bootstrap, whose exchanges carry no header.
LEMMA EndKeeps ==
    ASSUME BrowserInv, NEW a \in Activities, EndCall(a) \/ Boot(a)
    PROVE  BrowserInv'
<1>l. Loose /\ jar \in [issue : Nat, access : BOOLEAN]
  BY DEF BrowserInv, Loose
<1>1. /\ activity[a].phase = "answered" /\ UNCHANGED <<flight, issued>>
      /\ TakeCookies(a)
  BY DEF EndCall, Boot, server
<1>2. jar' \in [issue : Nat, access : BOOLEAN]
  BY <1>l, <1>1, TakenCookies
<1>3. ASSUME Continue(a, Idle)
      PROVE  BrowserInv'
  <2>1. PICK r : r = Idle
    OBVIOUS
  <2>2. r \in Activity /\ r.at = "idle" /\ r.phase = "none"
    BY <2>1, IdleFields
  <2>3. Fits(r, jar'.issue)
    BY <2>2 DEF Fits
  <2>4. activity' = Swap([activity EXCEPT ![a] = r])
    BY <1>3, <2>1 DEF Continue
  <2> QED
    BY <1>1, <1>2, <2>2, <2>3, <2>4, QuietMoveKeeps
<1>4. ASSUME NEW place \in {"renew", "retry"}, NEW cookies \in [issue : Nat, access : BOOLEAN],
             activity' = Swap([activity EXCEPT ![a] = Exchange("boot", place, cookies)])
      PROVE  BrowserInv'
  <2>1. PICK r : r = Exchange("boot", place, cookies)
    OBVIOUS
  <2>2. "boot" \in Jobs /\ ~Unsafe("boot")
    BY DEF Jobs, Unsafe
  <2>3. r \in Activity /\ r.job = "boot" /\ r.at = place /\ r.phase = "sent"
    <3>1. r \in Activity /\ r.job = "boot" /\ r.at = place
      BY <2>1, <2>2, ExchangeFields
    <3>2. r.phase = "sent"
      BY <2>1, <2>2 DEF Exchange, Idle
    <3> QED
      BY <3>1, <3>2
  <2>4. Fits(r, jar'.issue)
    BY <2>2, <2>3 DEF Fits
  <2>5. activity' = Swap([activity EXCEPT ![a] = r])
    BY <1>4, <2>1
  <2> QED
    BY <1>1, <1>2, <2>2, <2>3, <2>4, <2>5, QuietMoveKeeps
<1>5. CASE EndCall(a)
  BY <1>3, <1>5 DEF EndCall
<1>6. CASE Boot(a)
  <2>1. \/ Continue(a, Idle)
        \/ Continue(a, Exchange("boot", "renew", jar))
        \/ Continue(a, Exchange("boot", "retry", jar'))
    BY <1>6 DEF Boot
  <2>2. CASE Continue(a, Exchange("boot", "renew", jar))
    <3>1. PICK cookies : cookies = jar
      OBVIOUS
    <3>2. activity' = Swap([activity EXCEPT ![a] = Exchange("boot", "renew", cookies)])
      BY <2>2, <3>1 DEF Continue
    <3> QED
      BY <1>l, <1>4, <3>1, <3>2
  <2>3. CASE Continue(a, Exchange("boot", "retry", jar'))
    <3>1. PICK cookies : cookies = jar'
      OBVIOUS
    <3>2. activity' = Swap([activity EXCEPT ![a] = Exchange("boot", "retry", cookies)])
      BY <2>3, <3>1 DEF Continue
    <3> QED
      BY <1>2, <1>4, <3>1, <3>2
  <2> QED
    BY <1>3, <2>1, <2>2, <2>3
<1> QED
  BY <1>5, <1>6

\* What Resume makes of each activity: those that go on get a new exchange or
\* end, the others are set aside.
LEMMA ResumeFields ==
    ASSUME BrowserInv, NEW a \in Activities, activity[a].phase = "answered",
           NEW ok \in BOOLEAN, NEW cookies \in [issue : Nat, access : BOOLEAN],
           jar' = cookies, Renewing(a), Resume(a, ok, cookies)
    PROVE  /\ activity' \in [Activities -> Activity]
           /\ \A b \in Activities \ GoOn(a) : Aside(b)
           /\ \A b \in GoOn(a) :
                 /\ HeaderFits(b)'
                 /\ HasJob(b)'
                 /\ ~Renewing(b)'
<1>l. Loose /\ activity \in [Activities -> Activity]
  BY DEF BrowserInv, Loose
<1>g. GoOn(a) \subseteq Activities
  BY DEF GoOn
<1> DEFINE New(b) == CASE b \notin GoOn(a)        -> activity[b]
                       [] b \in GoOn(a) /\ ok     -> Exchange(activity[b].job, "retry", cookies)
                       [] b \in GoOn(a) /\ ~ok    -> Idle
<1>1. activity' = [b \in Activities |-> [New(b) EXCEPT !.swapped =
                      @ \/ (activity[b].phase = "composed" /\ jar'.issue # jar.issue)]]
  BY DEF Resume, Swap
<1>2. ASSUME NEW b \in Activities \ GoOn(a)
      PROVE  Aside(b) /\ activity'[b] \in Activity
  <2>1. New(b) = activity[b]
    OBVIOUS
  <2>2. Aside(b)
    BY <1>1, <2>1 DEF Aside
  <2>3. HeaderFits(b)
    BY DEF BrowserInv
  <2>4. jar' \in [issue : Nat, access : BOOLEAN]
    OBVIOUS
  <2> HIDE DEF New
  <2> QED
    BY <1>l, <2>2, <2>3, <2>4, AsideKeeps
<1>3. ASSUME NEW b \in GoOn(a)
      PROVE  /\ activity'[b] \in Activity
             /\ HeaderFits(b)' /\ HasJob(b)' /\ ~Renewing(b)'
  <2>1. activity[b].job \in Jobs
    BY <1>g, <1>3 DEF BrowserInv, HasJob, Busy, GoOn, Renewing
  <2>2. PICK r : r = New(b)
    OBVIOUS
  <2>3. /\ r \in Activity /\ r.at # "renew"
        /\ r.at # "idle" => r.job \in Jobs
        /\ r.phase = "composed" => r.header = cookies.issue
        /\ r.phase = "sent" => ~Unsafe(r.job)
    <3>1. CASE ok
      <4>1. r = Exchange(activity[b].job, "retry", cookies)
        BY <1>3, <2>2, <3>1
      <4> HIDE DEF New
      <4> QED
        BY <2>1, <4>1, ExchangeFields
    <3>2. CASE ~ok
      <4>1. r = Idle
        BY <1>3, <2>2, <3>2
      <4> HIDE DEF New
      <4> QED
        BY <4>1, IdleFields
    <3> QED
      BY <3>1, <3>2
  <2>4. PICK s \in BOOLEAN :
           s = (r.swapped \/ (activity[b].phase = "composed" /\ jar'.issue # jar.issue))
    BY <2>3 DEF Activity
  <2>5. activity'[b] = [r EXCEPT !.swapped = s]
    BY <1>1, <1>g, <2>2, <2>4
  <2> HIDE DEF New
  <2>6. /\ activity'[b] \in Activity
        /\ activity'[b].job = r.job /\ activity'[b].at = r.at
        /\ activity'[b].phase = r.phase /\ activity'[b].header = r.header
    BY <2>3, <2>5 DEF Activity
  <2> QED
    BY <2>3, <2>6 DEF HeaderFits, HasJob, Busy, Renewing
<1>4. activity' = [b \in Activities |-> activity'[b]]
  BY <1>1
<1> HIDE DEF New
<1> QED
  BY <1>2, <1>3, <1>4

\* When a refresh settles, nobody of its tab is refreshing but its maker.
LEMMA RenewedKeeps ==
    ASSUME BrowserInv, NEW a \in Activities, Renewed(a)
    PROVE  BrowserInv'
<1>l. Loose /\ jar \in [issue : Nat, access : BOOLEAN]
  BY DEF BrowserInv, Loose
<1>1. activity[a].phase = "answered" /\ Renewing(a) /\ activity[a].job # "boot"
      /\ flight' = [flight EXCEPT ![TabOf[a]] = Null] /\ issued' = issued
  BY DEF Renewed, server
<1>2. PICK ok \in BOOLEAN, cookies \in [issue : Nat, access : BOOLEAN] :
         jar' = cookies /\ Resume(a, ok, cookies)
  <2>1. CASE activity[a].answer = "ok"
    <3>1. PICK n \in Nat : n = activity[a].given
      BY <1>l DEF Loose, Activity
    <3>2. PICK cookies : cookies = jar'
      OBVIOUS
    <3>3. cookies = [issue |-> n, access |-> n # 0]
      BY <2>1, <3>1, <3>2 DEF Renewed, SetCookies
    <3>4. cookies \in [issue : Nat, access : BOOLEAN]
      BY <3>3
    <3>5. Resume(a, TRUE, cookies)
      BY <2>1, <3>2 DEF Renewed
    <3> QED
      BY <3>2, <3>4, <3>5
  <2>2. CASE activity[a].answer # "ok"
    <3>1. PICK cookies : cookies = jar
      OBVIOUS
    <3>2. jar' = cookies /\ Resume(a, FALSE, cookies)
      BY <2>2, <3>1 DEF Renewed
    <3> QED
      BY <1>l, <3>1, <3>2
  <2> QED
    BY <2>1, <2>2
<1>3. /\ activity' \in [Activities -> Activity]
      /\ \A b \in Activities \ GoOn(a) : Aside(b)
      /\ \A b \in GoOn(a) : HeaderFits(b)' /\ HasJob(b)' /\ ~Renewing(b)'
  BY <1>1, <1>2, ResumeFields
<1>4. flight' \in [Tabs -> Activities \cup {Null}]
      /\ \A t \in Tabs \ {TabOf[a]} : flight'[t] = flight[t]
  BY <1>l, <1>1 DEF Loose
<1>5. Loose'
  BY <1>l, <1>1, <1>2, <1>3, <1>4 DEF Loose, Activity
<1>6. ASSUME NEW b \in Activities \ GoOn(a)
      PROVE  OwnsFlight(b)' /\ HeaderFits(b)' /\ HasJob(b)'
  <2>1. OwnsFlight(b) /\ HeaderFits(b) /\ HasJob(b) /\ Aside(b)
    BY <1>3, <1>6 DEF BrowserInv
  <2>2. /\ HeaderFits(b)' /\ Renewing(b)' = Renewing(b)
        /\ activity'[b].job = activity[b].job /\ activity'[b].at = activity[b].at
    BY <1>l, <1>2, <2>1, AsideKeeps
  <2>3. Renewing(b) /\ activity[b].job # "boot" => TabOf[b] \in Tabs \ {TabOf[a]}
    <3>1. flight[TabOf[a]] = a
      BY <1>1 DEF BrowserInv, OwnsFlight
    <3>2. b # a
      BY <1>6 DEF GoOn
    <3> QED
      BY <2>1, <3>1, <3>2, TabsAssumption DEF OwnsFlight
  <2> QED
    BY <1>4, <2>1, <2>2, <2>3 DEF OwnsFlight, HasJob, Busy
<1>7. \A b \in GoOn(a) : OwnsFlight(b)'
  BY <1>3 DEF OwnsFlight
<1> QED
  BY <1>3, <1>5, <1>6, <1>7 DEF BrowserInv

-----------------------------------------------------------------------------
(* The theorems.                                                           *)

\* It holds when the tabs open,
LEMMA InitBrowserInv == Init => BrowserInv
<1> SUFFICES ASSUME Init PROVE BrowserInv
  OBVIOUS
<1>1. \A a \in Activities : activity[a] = Idle
  BY DEF Init
<1>2. Loose
  <2>1. activity \in [Activities -> Activity]
    BY IdleFields DEF Init
  <2>2. jar \in [issue : Nat, access : BOOLEAN]
    <3>1. CASE jar \in [issue : {1}, access : BOOLEAN]
      BY <3>1
    <3>2. CASE jar \in [issue : {0}, access : {FALSE}]
      <4>1. PICK n \in {0}, has \in {FALSE} : jar = [issue |-> n, access |-> has]
        BY <3>2, Zenon
      <4> QED
        BY <4>1
    <3> QED
      BY <3>1, <3>2 DEF Init
  <2>3. flight \in [Tabs -> Activities \cup {Null}] /\ issued \in Nat
    BY DEF Init
  <2> QED
    BY <2>1, <2>2, <2>3 DEF Loose
<1> QED
  BY <1>1, <1>2, IdleFields
  DEF BrowserInv, OwnsFlight, HeaderFits, HasJob, Busy, Renewing

\* and every step keeps it.
LEMMA NextBrowserInv == BrowserInv /\ [Next]_vars => BrowserInv'
<1> SUFFICES ASSUME BrowserInv, [Next]_vars PROVE BrowserInv'
  OBVIOUS
<1>1. ASSUME NEW a \in Activities, Serve(a)
      PROVE  BrowserInv'
  BY <1>1, ServeKeeps
<1>2. ASSUME NEW a \in Activities, Client(a)
      PROVE  BrowserInv'
  BY <1>2, AttachKeeps, EndKeeps, RenewKeeps, StartKeeps, RenewedKeeps DEF Client
<1>3. ASSUME NEW a \in Activities, NEW job \in Jobs, Start(a, job)
      PROVE  BrowserInv'
  BY <1>3, StartKeeps
<1>4. CASE \/ \E a \in Activities : Lose(a)
           \/ \E t \in Tabs : Reload(t)
           \/ ExpireAccess
           \/ UNCHANGED vars
  BY <1>4, EnvironmentKeeps
<1> QED
  BY <1>1, <1>2, <1>3, <1>4 DEF Next

\* Whoever refreshes owns its tab's flight, and every header that is not in
\* date with the cookies it goes with has seen them replaced, in every
\* behaviour of client.js and of the jar.
THEOREM BrowserInvariance == Spec => []BrowserInv
BY InitBrowserInv, NextBrowserInv, PTL DEF Spec

\* A tab never has two refreshes of its calls under way, however many 401s
\* come together: the single flight of client.js.
THEOREM SingleFlight == Spec => []OneRefreshPerTab
<1>1. BrowserInv => OneRefreshPerTab
  BY DEF BrowserInv, OwnsFlight, OneRefreshPerTab
<1> QED
  BY <1>1, BrowserInvariance, PTL

\* The double-submit check never refuses a console whose cookies were there and
\* were not replaced between the reading of the header and the sending.
THEOREM RefusalExplained == Spec => []CsrfRefusalExplained
<1>1. BrowserInv => CsrfRefusalExplained
  BY DEF BrowserInv, HeaderFits, CsrfRefusalExplained, CsrfPasses
<1> QED
  BY <1>1, BrowserInvariance, PTL

-----------------------------------------------------------------------------
(* The tokens: the invariant that says why reuse detection stays silent.   *)

\* What an exchange may be, by where its activity is.
Shape(a) ==
    /\ activity[a].job \in {"login", "logout"} => activity[a].at = "try"
    /\ activity[a].at \in {"idle", "join"} => activity[a].phase = "none"
    /\ Renewing(a) => InFlight(a)
    /\ activity[a].phase = "found" => Renewing(a) /\ activity[a].token # 0
    /\ Leaving(a) => activity[a].token # 0
    /\ activity[a].given # 0 =>
          /\ activity[a].phase = "answered" /\ activity[a].answer = "ok"
          /\ activity[a].job = "login" \/ Renewing(a)

\* Responses that have been numbered.
Numbered(a) ==
    activity[a].header <= issued /\ activity[a].token <= issued /\ activity[a].given <= issued

\* The family a login has just started is nobody else's yet.
FamilyFresh(a) ==
    LET n == activity[a].given
    IN activity[a].job = "login" /\ n # 0 =>
        /\ family[n] = n
        /\ jar.issue # 0 => family[jar.issue] # n
        /\ \A b \in Activities \ {a} :
              /\ activity[b].token # 0 => family[activity[b].token] # n
              /\ activity[b].given # 0 => family[activity[b].given] # n

\* Who may still be answered with cookies.
MayIssue(a) ==
    /\ activity[a].at \in {"try", "renew"}
    /\ activity[a].phase = "answered" => activity[a].at = "try" /\ activity[a].job # "login"

NumbersInv ==
    /\ status \in [Tabs -> {"loading", "anonymous", "authenticated"}]
    /\ jar.issue <= issued /\ (jar.access => jar.issue # 0)
    /\ issued + Cardinality({a \in Activities : MayIssue(a)}) <= MaxIssues
    /\ live \subseteq 1..issued
    /\ left \subseteq 1..issued
    /\ burnt \subseteq 1..issued
    /\ held \subseteq 1..issued
    /\ lost \subseteq 1..issued
    /\ family \in [Issues -> Issues] /\ \A n \in 1..issued : family[n] <= issued
    /\ losses \in 0..MaxLosses
    /\ crossed \in BOOLEAN
    /\ issued # 0
    /\ jar.issue \in held \cup {0}
    /\ \A a \in Activities :
          /\ Shape(a) /\ Numbered(a) /\ FamilyFresh(a)
          /\ activity[a].token \in held \cup {0}

\* Logouts that a refresh must not meet.
LoggingOut(a) == activity[a].job = "logout" /\ InFlight(a)

\* No refresh meets another, or a logout.
Alone ==
    \A a, b \in Activities : Renewing(a) => ~LoggingOut(b) /\ (Renewing(b) => a = b)

\* A family has one live token at most,
OneLive == \A m, n \in live : family[m] = family[n] => m = n

\* and if that has ever been in the jar, the jar has none that came before it,
\* nor has a logout on its way.
UpToDate ==
    \A n \in live \cap held :
        /\ jar.issue # 0 /\ family[jar.issue] = family[n] => jar.issue = n
        /\ \A a \in Activities :
              LoggingOut(a) /\ activity[a].token # 0 /\ family[activity[a].token] = family[n]
                  => activity[a].token = n

\* A live token that has never been in the jar is on its way there, or lost.
OnItsWay(n) == \E a \in Activities : activity[a].given = n

Delivered == \A n \in live : n \in held \/ OnItsWay(n) \/ family[n] \in lost

\* The families that were left are dead, but for tokens that were lost.
LeftDead == \A n \in live : n \in held \/ OnItsWay(n) => family[n] \notin left

\* What a refresh presents is live, unless an answer of its family got lost, and
\* so is what the server has just issued.
Presented(a) ==
    /\ activity[a].phase = "found" => activity[a].token \in live
    /\ Renewing(a) /\ activity[a].phase = "sent" /\ activity[a].token # 0
          => activity[a].token \in live \/ family[activity[a].token] \in lost
    /\ activity[a].given # 0 => activity[a].given \in live

\* The jar's refresh token waits to be replaced, or removed.
Rotated ==
    \E a \in Activities :
        /\ Renewing(a) /\ activity[a].given # 0
        /\ family[activity[a].given] = family[jar.issue]

Removed ==
    \E a \in Activities : Leaving(a) /\ family[activity[a].token] = family[jar.issue]

JarExplained ==
    jar.issue # 0 =>
        jar.issue \in live \/ Rotated \/ Removed \/ family[jar.issue] \in lost

\* Until a refresh meets another or a logout, all of this holds.
CalmInv ==
    ~crossed =>
        /\ Alone /\ OneLive /\ UpToDate /\ Delivered /\ LeftDead
        /\ \A a \in Activities : Presented(a)
        /\ JarExplained
        /\ burnt \subseteq lost

TokenInv == BrowserInv /\ NumbersInv /\ CalmInv

-----------------------------------------------------------------------------
(* Fields and counts.                                                      *)

\* Two exchanges that differ in `swapped` and `access` only.
Alike(r, s) ==
    /\ r.job = s.job /\ r.at = s.at /\ r.phase = s.phase /\ r.answer = s.answer
    /\ r.header = s.header /\ r.token = s.token /\ r.given = s.given

\* A new exchange asks for nothing yet, and carries what the cookies hold.
LEMMA ExchangeCarries ==
    ASSUME NEW job \in Jobs, NEW place \in {"try", "renew", "retry"},
           NEW cookies \in [issue : Nat, access : BOOLEAN]
    PROVE  /\ Exchange(job, place, cookies).given = 0
           /\ Exchange(job, place, cookies).token \in {0, cookies.issue}
           /\ Exchange(job, place, cookies).header \in {0, cookies.issue}
           /\ place = "renew" => /\ Exchange(job, place, cookies).token = cookies.issue
                                 /\ Exchange(job, place, cookies).phase = "sent"
<1>1. CASE place # "renew" /\ Unsafe(job)
  <2> DEFINE r == [Idle EXCEPT !.job = job, !.at = place, !.phase = "composed",
                               !.header = ReadCsrfToken(cookies)]
  <2>1. r.given = 0 /\ r.token = 0 /\ r.header = cookies.issue
    BY DEF Idle, ReadCsrfToken
  <2>2. Exchange(job, place, cookies) = r
    BY <1>1 DEF Exchange
  <2> QED
    BY <1>1, <2>1, <2>2
<1>2. CASE ~(place # "renew" /\ Unsafe(job))
  <2>1. PICK token : token = IF place = "renew" THEN cookies.issue ELSE 0
    OBVIOUS
  <2>2. PICK access : access = (place # "renew" /\ cookies.access)
    OBVIOUS
  <2> DEFINE r == [Idle EXCEPT !.job = job, !.at = place, !.phase = "sent",
                               !.token = token, !.access = access]
  <2>3. r.given = 0 /\ r.token = token /\ r.header = 0 /\ r.phase = "sent"
    BY DEF Idle
  <2>4. Exchange(job, place, cookies) = r
    BY <1>2, <2>1, <2>2 DEF Exchange
  <2> QED
    BY <2>1, <2>3, <2>4
<1> QED
  BY <1>1, <1>2

\* An activity that is set aside differs in `swapped` only.
LEMMA AsideAlike ==
    ASSUME NEW b \in Activities, activity[b] \in Activity, Aside(b)
    PROVE  Alike(activity'[b], activity[b])
<1>1. CASE activity'[b] = activity[b]
  BY <1>1 DEF Alike
<1>2. PICK s \in BOOLEAN : s = (activity[b].swapped \/
                               (activity[b].phase = "composed" /\ jar'.issue # jar.issue))
  BY DEF Activity
<1>3. CASE activity'[b] = [activity[b] EXCEPT !.swapped = s]
  BY <1>3 DEF Activity, Alike
<1> QED
  BY <1>1, <1>2, <1>3 DEF Aside

\* What Continue does.
LEMMA ContinueFields ==
    ASSUME Loose, NEW a \in Activities, NEW next \in Activity, Continue(a, next)
    PROVE  /\ Alike(activity'[a], next)
           /\ \A b \in Activities \ {a} : Alike(activity'[b], activity[b])
<1>1. \A b \in Activities :
         activity'[b] = [[activity EXCEPT ![a] = next][b] EXCEPT !.swapped =
            @ \/ (activity[b].phase = "composed" /\ jar'.issue # jar.issue)]
  BY DEF Continue, Swap
<1>2. ASSUME NEW b \in Activities, NEW r \in Activity, [activity EXCEPT ![a] = next][b] = r
      PROVE  Alike(activity'[b], r)
  <2>1. PICK s \in BOOLEAN : s = (r.swapped \/
             (activity[b].phase = "composed" /\ jar'.issue # jar.issue))
    BY DEF Activity
  <2>2. activity'[b] = [r EXCEPT !.swapped = s]
    BY <1>1, <1>2, <2>1
  <2> QED
    BY <2>2 DEF Activity, Alike
<1>3. [activity EXCEPT ![a] = next][a] = next
      /\ \A b \in Activities \ {a} : [activity EXCEPT ![a] = next][b] = activity[b]
  BY DEF Loose
<1>4. \A b \in Activities : activity[b] \in Activity
  BY DEF Loose
<1> QED
  BY <1>2, <1>3, <1>4

\* The count of those who may issue goes down with their set,
LEMMA QuotaKept ==
    ASSUME Loose, NumbersInv, issued' = issued,
           \A b \in Activities : MayIssue(b)' => MayIssue(b)
    PROVE  (issued + Cardinality({b \in Activities : MayIssue(b)}) <= MaxIssues)'
<1>1. PICK S : S = {b \in Activities : MayIssue(b)}
  OBVIOUS
<1>2. PICK T : T = {b \in Activities : MayIssue(b)'}
  OBVIOUS
<1>3. IsFiniteSet(S)
  BY <1>1, TabsAssumption, FS_Subset
<1>4. T \subseteq S
  BY <1>1, <1>2
<1>5. Cardinality(T) \in Nat /\ Cardinality(S) \in Nat /\ Cardinality(T) <= Cardinality(S)
  BY <1>3, <1>4, FS_Subset, FS_CardinalityType
<1>6. issued \in Nat /\ issued + Cardinality(S) <= MaxIssues
  BY <1>1, <1>5 DEF NumbersInv, Loose
<1> QED
  BY <1>2, <1>5, <1>6, BoundsAssumption

\* and by one when somebody is issued a number, so that there is one.
LEMMA QuotaUsed ==
    ASSUME Loose, NumbersInv, NEW a \in Activities, MayIssue(a), ~MayIssue(a)',
           issued' = issued + 1,
           \A b \in Activities \ {a} : MayIssue(b)' => MayIssue(b)
    PROVE  /\ (issued + Cardinality({b \in Activities : MayIssue(b)}) <= MaxIssues)'
           /\ issued + 1 \in Issues
<1>1. PICK S : S = {b \in Activities : MayIssue(b)}
  OBVIOUS
<1>2. PICK T : T = {b \in Activities : MayIssue(b)'}
  OBVIOUS
<1>3. IsFiniteSet(S)
  BY <1>1, TabsAssumption, FS_Subset
<1>4. T \subseteq S \ {a} /\ a \in S
  BY <1>1, <1>2
<1>5. IsFiniteSet(S \ {a}) /\ Cardinality(S \ {a}) = Cardinality(S) - 1
  BY <1>3, <1>4, FS_RemoveElement
<1>6. /\ Cardinality(T) \in Nat /\ Cardinality(S) \in Nat
      /\ Cardinality(T) <= Cardinality(S) - 1
  BY <1>3, <1>4, <1>5, FS_Subset, FS_CardinalityType
<1>7. issued \in Nat /\ issued + Cardinality(S) <= MaxIssues
  BY <1>1, <1>6 DEF NumbersInv, Loose
<1>8. issued + 1 + Cardinality(T) <= MaxIssues
  BY <1>6, <1>7, BoundsAssumption
<1>9. issued + 1 \in Issues
  BY <1>6, <1>7, <1>8, BoundsAssumption DEF Issues
<1> QED
  BY <1>2, <1>8, <1>9

\* Every activity under way is one that may issue, or may not any more.
LEMMA MayIssueBusy == \A a \in Activities : MayIssue(a) => Busy(a)
BY DEF MayIssue, Busy

\* A new activity starts only if there is a number left for it.
LEMMA QuotaTaken ==
    ASSUME Loose, NumbersInv, NEW a \in Activities, IssueLeft, ~Busy(a), issued' = issued,
           \A b \in Activities \ {a} : MayIssue(b)' => MayIssue(b)
    PROVE  (issued + Cardinality({b \in Activities : MayIssue(b)}) <= MaxIssues)'
<1>1. PICK S : S = {b \in Activities : Busy(b)}
  OBVIOUS
<1>2. PICK T : T = {b \in Activities : MayIssue(b)'}
  OBVIOUS
<1>3. IsFiniteSet(S)
  BY <1>1, TabsAssumption, FS_Subset
<1>4. T \subseteq S \cup {a} /\ a \notin S
  BY <1>1, <1>2, MayIssueBusy
<1>5. IsFiniteSet(S \cup {a}) /\ Cardinality(S \cup {a}) = Cardinality(S) + 1
  BY <1>3, <1>4, FS_AddElement
<1>6. /\ Cardinality(T) \in Nat /\ Cardinality(S) \in Nat
      /\ Cardinality(T) <= Cardinality(S) + 1
  BY <1>3, <1>4, <1>5, FS_Subset, FS_CardinalityType
<1>7. issued \in Nat /\ issued + Cardinality(S) < MaxIssues
  BY <1>1 DEF IssueLeft, Loose
<1> QED
  BY <1>2, <1>6, <1>7, BoundsAssumption

\* There are as many responses as their bound allows at most.
LEMMA IssuedBounded ==
    ASSUME Loose, NumbersInv
    PROVE  issued <= MaxIssues
<1>1. PICK S : S = {b \in Activities : MayIssue(b)}
  OBVIOUS
<1>2. IsFiniteSet(S)
  BY <1>1, TabsAssumption, FS_Subset
<1>3. Cardinality(S) \in Nat
  BY <1>2, FS_CardinalityType
<1>4. issued + Cardinality(S) <= MaxIssues
  BY <1>1 DEF NumbersInv
<1> QED
  BY <1>3, <1>4, BoundsAssumption DEF Loose

-----------------------------------------------------------------------------
(* The server's answers, and the tokens.                                   *)

\* An answer that brings no cookies moves nobody else, and leaves everyone the
\* tokens they had.
LEMMA TouchKeepsNumbers ==
    ASSUME BrowserInv, NumbersInv, NEW a \in Activities, NEW r \in Activity,
           activity' = [activity EXCEPT ![a] = r],
           r.job = activity[a].job, r.at = activity[a].at,
           r.header = activity[a].header, r.token = activity[a].token, r.given = 0,
           r.phase \in {"answered", "found"}, r.phase = "found" => Renewing(a) /\ r.token # 0,
           r.job = "logout" /\ r.answer = "ok" => r.token # 0,
           InFlight(a), activity[a].phase = "answered" => r.phase = "answered",
           UNCHANGED <<status, jar, held, family, issued>>, lost' \subseteq 1..issued,
           live' \subseteq live, left' \subseteq 1..issued, burnt' \subseteq 1..issued,
           losses' \in 0..MaxLosses, crossed' \in BOOLEAN
    PROVE  NumbersInv'
<1>1. activity'[a] = r /\ \A b \in Activities \ {a} : activity'[b] = activity[b]
  BY DEF BrowserInv, Loose
<1>2. activity[a].at \notin {"idle", "join"}
  BY DEF NumbersInv, Shape, InFlight
<1>3. \A b \in Activities : MayIssue(b)' => MayIssue(b)
  BY <1>1, <1>2 DEF MayIssue
<1>4. (issued + Cardinality({b \in Activities : MayIssue(b)}) <= MaxIssues)'
  BY <1>3, QuotaKept DEF BrowserInv
<1>5. \A b \in Activities : Shape(b)'
  BY <1>1, <1>2 DEF NumbersInv, Shape, Renewing, InFlight, Leaving
<1>6. \A b \in Activities : Numbered(b)'
  BY <1>1 DEF NumbersInv, Numbered, BrowserInv, Loose
<1>7. \A b \in Activities : FamilyFresh(b)'
  BY <1>1 DEF NumbersInv, FamilyFresh
<1>8. \A b \in Activities : (activity[b].token \in held \cup {0})'
  BY <1>1 DEF NumbersInv
<1> QED
  BY <1>4, <1>5, <1>6, <1>7, <1>8 DEF NumbersInv

\* A new number, in the family of a live token or in one of its own, disturbs
\* no one's numbers.
LEMMA IssueKeepsNumbers ==
    ASSUME BrowserInv, NumbersInv, NEW a \in Activities, NEW others, NEW token,
           Issue(a, others, token), others \subseteq live,
           activity[a].phase \in {"sent", "found"},
           \/ activity[a].job = "login" /\ token = 0
           \/ Renewing(a) /\ token = activity[a].token /\ token # 0,
           UNCHANGED <<status, jar, burnt, losses, seen>>
    PROVE  /\ NumbersInv'
           /\ issued' = issued + 1 /\ issued' \in Issues
           /\ activity'[a].given = issued'
           /\ live' = others \cup {issued'}
           /\ family'[issued'] = IF token = 0 THEN issued' ELSE family[token]
           /\ \A m \in 1..issued : family'[m] = family[m]
<1>l. /\ activity \in [Activities -> Activity] /\ issued \in Nat
      /\ jar.issue \in Nat /\ Loose /\ MaxIssues \in Nat
  BY BoundsAssumption DEF BrowserInv, Loose
<1>1. PICK n : n = issued + 1
  OBVIOUS
<1>2. PICK r : r = [activity[a] EXCEPT !.phase = "answered", !.answer = "ok", !.given = n]
  OBVIOUS
<1>3. /\ r.job = activity[a].job /\ r.at = activity[a].at /\ r.phase = "answered"
      /\ r.answer = "ok" /\ r.given = n
      /\ r.header = activity[a].header /\ r.token = activity[a].token
  BY <1>l, <1>2 DEF Activity
<1>4. activity' = [activity EXCEPT ![a] = r]
  BY <1>1, <1>2 DEF Issue, Answer
<1>5. activity'[a] = r /\ \A b \in Activities \ {a} : activity'[b] = activity[b]
  BY <1>l, <1>4
<1>6. /\ issued' = n /\ live' = others \cup {n}
      /\ family' = [family EXCEPT ![n] = IF token = 0 THEN n ELSE family[token]]
  BY <1>1 DEF Issue
<1>7. MayIssue(a) /\ ~MayIssue(a)'
  <2>1. activity[a].job = "login" => activity[a].at = "try"
    BY DEF NumbersInv, Shape
  <2> QED
    BY <1>3, <1>5, <2>1 DEF MayIssue, Renewing
<1>8. \A b \in Activities \ {a} : MayIssue(b)' => MayIssue(b)
  BY <1>5 DEF MayIssue
<1>9. /\ (issued + Cardinality({b \in Activities : MayIssue(b)}) <= MaxIssues)'
      /\ n \in Issues
  BY <1>l, <1>1, <1>6, <1>7, <1>8, QuotaUsed
<1>10. /\ family \in [Issues -> Issues] /\ \A m \in 1..issued : family[m] <= issued
       /\ live \subseteq 1..issued
  BY DEF NumbersInv
<1>11. /\ n \in Nat /\ n <= MaxIssues /\ 1..issued \subseteq Issues /\ n \notin 1..issued
       /\ 1..issued \subseteq 1..n /\ n \in 1..n /\ 1..n = (1..issued) \cup {n}
  BY <1>l, <1>1, <1>9 DEF Issues
<1>12. \A b \in Activities : activity[b].token \in 0..issued /\ activity[b].given \in 0..issued
                             /\ activity[b].header \in 0..issued
  BY <1>l DEF NumbersInv, Numbered, Activity
<1>13. token # 0 => token \in 1..issued /\ family[token] \in 1..issued
  <2>1. token # 0 => token \in 1..issued
    BY <1>12
  <2> QED
    BY <2>1, <1>10, <1>11 DEF Issues
<1>14. /\ family' \in [Issues -> Issues]
       /\ family'[n] = (IF token = 0 THEN n ELSE family[token])
       /\ \A m \in 1..issued : family'[m] = family[m]
  BY <1>6, <1>9, <1>10, <1>11, <1>13
<1>15. \A m \in (1..n) : family'[m] <= n
  <2>1. family'[n] <= n
    BY <1>l, <1>1, <1>13, <1>14
  <2>2. ASSUME NEW m \in 1..issued
        PROVE  family'[m] <= n
    <3>1. family[m] \in Nat /\ family[m] <= issued
      BY <1>10, <1>11 DEF Issues
    <3> QED
      BY <1>l, <1>1, <1>14, <3>1
  <2> QED
    BY <1>11, <2>1, <2>2
<1>16. \A b \in Activities : Shape(b)'
  <2>1. Shape(a)'
    BY <1>3, <1>5, <1>7 DEF NumbersInv, Shape, Renewing, InFlight, Leaving
  <2>2. \A b \in Activities \ {a} : Shape(b)'
    BY <1>5 DEF NumbersInv, Shape, Renewing, InFlight, Leaving
  <2> QED
    BY <2>1, <2>2
<1>17. \A b \in Activities : Numbered(b)'
  BY <1>l, <1>1, <1>3, <1>5, <1>6, <1>12 DEF Numbered
<1>18. jar.issue # 0 => jar.issue \in 1..issued
  BY <1>l DEF NumbersInv
<1>19. FamilyFresh(a)'
  <2>1. CASE activity[a].job = "login" /\ token = 0
    <3>1. family'[n] = n
      BY <1>14, <2>1
    <3>2. \A m \in 1..issued : family'[m] # n
      BY <1>10, <1>11, <1>14, <1>1, <1>l DEF Issues
    <3>3. jar'.issue # 0 => family'[jar'.issue] # n
      BY <1>18, <3>2
    <3>4. \A b \in Activities \ {a} :
             /\ activity'[b].token # 0 => family'[activity'[b].token] # n
             /\ activity'[b].given # 0 => family'[activity'[b].given] # n
      BY <1>5, <1>12, <3>2
    <3> QED
      BY <1>3, <1>5, <3>1, <3>3, <3>4 DEF FamilyFresh
  <2>2. CASE Renewing(a)
    <3>1. activity[a].job # "login"
      BY <2>2 DEF NumbersInv, Shape, Renewing
    <3> QED
      BY <1>3, <1>5, <3>1 DEF FamilyFresh
  <2> QED
    BY <2>1, <2>2
<1>20. ASSUME NEW b \in Activities \ {a}
       PROVE  FamilyFresh(b)'
  <2> SUFFICES ASSUME activity[b].job = "login", activity[b].given # 0
               PROVE  FamilyFresh(b)'
    BY <1>5 DEF FamilyFresh
  <2>1. PICK m : m = activity[b].given
    OBVIOUS
  <2>2. m \in 1..issued
    BY <1>12, <2>1
  <2>3. /\ family[m] = m
        /\ jar.issue # 0 => family[jar.issue] # m
        /\ \A c \in Activities \ {b} :
              /\ activity[c].token # 0 => family[activity[c].token] # m
              /\ activity[c].given # 0 => family[activity[c].given] # m
    BY <2>1 DEF NumbersInv, FamilyFresh
  <2>4. family'[m] = m /\ (jar'.issue # 0 => family'[jar'.issue] # m)
    BY <1>14, <1>18, <2>2, <2>3
  <2>5. \A c \in Activities \ {a, b} :
              /\ activity'[c].token # 0 => family'[activity'[c].token] # m
              /\ activity'[c].given # 0 => family'[activity'[c].given] # m
    BY <1>5, <1>12, <1>14, <2>3
  <2>6. activity'[a].token # 0 => family'[activity'[a].token] # m
    BY <1>3, <1>5, <1>12, <1>14, <2>3
  <2>7. family'[n] # m
    BY <1>11, <1>14, <2>2, <2>3
  <2> QED
    BY <1>3, <1>5, <2>1, <2>4, <2>5, <2>6, <2>7 DEF FamilyFresh
<1>21. /\ live' \subseteq 1..n /\ left' \subseteq 1..n /\ burnt' \subseteq 1..n
       /\ held' \subseteq 1..n /\ lost' \subseteq 1..n
  BY <1>6, <1>10, <1>11 DEF NumbersInv, seen
<1>22. issued' # 0 /\ jar'.issue <= issued' /\ (jar'.access => jar'.issue # 0)
  BY <1>l, <1>1, <1>6 DEF NumbersInv
<1>23. \A b \in Activities : FamilyFresh(b)'
  BY <1>19, <1>20
<1>24. status' \in [Tabs -> {"loading", "anonymous", "authenticated"}]
       /\ losses' \in 0..MaxLosses /\ crossed' \in BOOLEAN
  BY DEF NumbersInv, seen
<1>26. /\ (jar.issue \in held \cup {0})'
       /\ \A b \in Activities : (activity[b].token \in held \cup {0})'
  BY <1>3, <1>5 DEF NumbersInv, seen
<1>25. NumbersInv'
  BY <1>6, <1>9, <1>14, <1>15, <1>16, <1>17, <1>21, <1>22, <1>23, <1>24, <1>26 DEF NumbersInv
<1> QED
  BY <1>1, <1>3, <1>5, <1>6, <1>9, <1>14, <1>25

\* What an answer without cookies does to the fields of an activity.
LEMMA AnswerTouches ==
    ASSUME Loose, NEW a \in Activities, NEW answer \in Answers, Answer(a, answer, 0)
    PROVE  \E r \in Activity :
              /\ activity' = [activity EXCEPT ![a] = r]
              /\ r.job = activity[a].job /\ r.at = activity[a].at
              /\ r.header = activity[a].header /\ r.token = activity[a].token
              /\ r.given = 0 /\ r.phase = "answered" /\ r.answer = answer
<1>1. activity[a] \in Activity
  BY DEF Loose
<1> DEFINE r == [activity[a] EXCEPT !.phase = "answered", !.answer = answer, !.given = 0]
<1>2. /\ r \in Activity /\ r.job = activity[a].job /\ r.at = activity[a].at
      /\ r.header = activity[a].header /\ r.token = activity[a].token
      /\ r.given = 0 /\ r.phase = "answered" /\ r.answer = answer
  BY <1>1 DEF Activity, Phases
<1>3. activity' = [activity EXCEPT ![a] = r]
  BY DEF Answer, Loose
<1> HIDE DEF r
<1> QED
  BY <1>2, <1>3

\* The families of numbered responses are numbered.
LEMMA FamiliesNumbered ==
    ASSUME Loose, NumbersInv
    PROVE  1..issued \subseteq Issues /\ \A m \in 1..issued : family[m] \in 1..issued
<1>1. issued \in Nat /\ 1..issued \subseteq Issues
  BY IssuedBounded, BoundsAssumption DEF Loose, Issues
<1>2. ASSUME NEW m \in 1..issued
      PROVE  family[m] \in 1..issued
  <2>1. family[m] \in Issues /\ family[m] <= issued
    BY <1>1 DEF NumbersInv
  <2> QED
    BY <1>1, <2>1, BoundsAssumption DEF Issues
<1> QED
  BY <1>1, <1>2

\* What an answer without cookies leaves as it is.
LEMMA AnswerSigns ==
    ASSUME Loose, NEW a \in Activities, NEW r \in Activity,
           activity' = [activity EXCEPT ![a] = r],
           r.job = activity[a].job, r.at = activity[a].at, r.token = activity[a].token,
           r.given = 0, activity[a].given = 0,
           activity[a].phase = "sent", r.phase \in {"answered", "found"}
    PROVE  /\ \A b \in Activities :
                 /\ Renewing(b)' = Renewing(b) /\ LoggingOut(b)' = LoggingOut(b)
                 /\ activity'[b].token = activity[b].token
                 /\ activity'[b].given = activity[b].given
                 /\ Leaving(b) => Leaving(b)'
           /\ \A n : OnItsWay(n)' = OnItsWay(n)
           /\ Rotated /\ UNCHANGED <<jar, family>> => Rotated'
           /\ Removed /\ UNCHANGED <<jar, family>> => Removed'
<1>1. activity'[a] = r /\ \A b \in Activities \ {a} : activity'[b] = activity[b]
  BY DEF Loose
<1>2. \A b \in Activities :
         /\ Renewing(b)' = Renewing(b) /\ LoggingOut(b)' = LoggingOut(b)
         /\ activity'[b].token = activity[b].token
         /\ activity'[b].given = activity[b].given
         /\ Leaving(b) => Leaving(b)'
  BY <1>1 DEF Renewing, LoggingOut, InFlight, Leaving
<1>3. \A n : OnItsWay(n)' = OnItsWay(n)
  BY <1>2 DEF OnItsWay
<1>4. Rotated /\ UNCHANGED <<jar, family>> => Rotated'
  BY <1>2 DEF Rotated
<1>5. Removed /\ UNCHANGED <<jar, family>> => Removed'
  BY <1>2 DEF Removed
<1> QED
  BY <1>2, <1>3, <1>4, <1>5

\* An answer that brings no cookies and leaves the sessions alone.
LEMMA PlainAnswerKeeps ==
    ASSUME TokenInv, BrowserInv', NEW a \in Activities, NEW answer \in Answers,
           Answer(a, answer, 0), activity[a].phase = "sent",
           activity[a].job = "logout" => answer # "ok",
           UNCHANGED <<status, jar, server, losses, seen>>
    PROVE  TokenInv'
<1>b. /\ BrowserInv /\ NumbersInv /\ CalmInv /\ Loose
      /\ UNCHANGED <<status, jar, live, family, issued, burnt, losses>>
      /\ UNCHANGED <<left, held, lost, crossed>>
  BY DEF TokenInv, BrowserInv, server, seen
<1>1. PICK r \in Activity :
         /\ activity' = [activity EXCEPT ![a] = r]
         /\ r.job = activity[a].job /\ r.at = activity[a].at
         /\ r.header = activity[a].header /\ r.token = activity[a].token
         /\ r.given = 0 /\ r.phase = "answered" /\ r.answer = answer
  BY <1>b, AnswerTouches
<1>2. activity'[a] = r /\ \A b \in Activities \ {a} : activity'[b] = activity[b]
  BY <1>b, <1>1 DEF Loose
<1>3. NumbersInv'
  <2>1. /\ live' \subseteq live /\ left' \subseteq 1..issued /\ burnt' \subseteq 1..issued
        /\ lost' \subseteq 1..issued
        /\ losses' \in 0..MaxLosses /\ crossed' \in BOOLEAN /\ InFlight(a)
    BY <1>b DEF NumbersInv, InFlight
  <2> QED
    BY <1>b, <1>1, <2>1, TouchKeepsNumbers
<1>4. activity[a].given = 0
  BY <1>b DEF NumbersInv, Shape
<1>5. CalmInv'
  <2> SUFFICES ASSUME ~crossed PROVE CalmInv'
    BY <1>b DEF CalmInv
  <2>s. /\ \A b \in Activities :
              /\ Renewing(b)' = Renewing(b) /\ LoggingOut(b)' = LoggingOut(b)
              /\ activity'[b].token = activity[b].token
              /\ activity'[b].given = activity[b].given
        /\ \A n : OnItsWay(n)' = OnItsWay(n)
        /\ (Rotated => Rotated') /\ (Removed => Removed')
    BY <1>b, <1>1, <1>4, AnswerSigns
  <2>1. Alone' /\ OneLive' /\ UpToDate'
    BY <1>b, <2>s DEF CalmInv, Alone, OneLive, UpToDate
  <2>2. Delivered' /\ LeftDead'
    BY <1>b, <2>s DEF CalmInv, Delivered, LeftDead
  <2>3. \A b \in Activities : Presented(b)'
    BY <1>b, <1>1, <1>2, <2>s DEF CalmInv, Presented
  <2>4. JarExplained' /\ burnt' \subseteq lost'
    BY <1>b, <2>s DEF CalmInv, JarExplained
  <2> QED
    BY <2>1, <2>2, <2>3, <2>4 DEF CalmInv
<1> QED
  BY <1>3, <1>5 DEF TokenInv

\* What an answer with cookies leaves as it is.
LEMMA IssueSigns ==
    ASSUME BrowserInv, NumbersInv, NEW a \in Activities, NEW others, NEW token,
           Issue(a, others, token), activity[a].phase \in {"sent", "found"}
    PROVE  /\ \A b \in Activities :
                 /\ Renewing(b)' = Renewing(b) /\ LoggingOut(b)' = LoggingOut(b)
                 /\ activity'[b].token = activity[b].token
                 /\ Leaving(b) => Leaving(b)'
           /\ \A b \in Activities \ {a} : activity'[b] = activity[b]
           /\ activity'[a].phase = "answered"
           /\ activity[a].given = 0
           /\ \A n : n \notin {0, issued'} => (OnItsWay(n)' <=> OnItsWay(n))
<1>1. activity \in [Activities -> Activity] /\ activity[a] \in Activity
  BY DEF BrowserInv, Loose
<1>2. /\ \A b \in Activities \ {a} : activity'[b] = activity[b]
      /\ activity'[a].phase = "answered" /\ activity'[a].at = activity[a].at
      /\ activity'[a].job = activity[a].job /\ activity'[a].token = activity[a].token
      /\ activity'[a].given = issued'
  BY <1>1 DEF Issue, Answer, Activity
<1>3. activity[a].given = 0
  BY DEF NumbersInv, Shape
<1>4. \A b \in Activities :
         /\ Renewing(b)' = Renewing(b) /\ LoggingOut(b)' = LoggingOut(b)
         /\ activity'[b].token = activity[b].token
         /\ Leaving(b) => Leaving(b)'
  BY <1>2 DEF Renewing, LoggingOut, InFlight, Leaving
<1>5. \A n : n \notin {0, issued'} => (OnItsWay(n)' <=> OnItsWay(n))
  BY <1>2, <1>3 DEF OnItsWay
<1> QED
  BY <1>2, <1>3, <1>4, <1>5

\* A login starts a family of its own.
LEMMA LoginKeeps ==
    ASSUME TokenInv, BrowserInv', NEW a \in Activities, ServeLogin(a)
    PROVE  TokenInv'
<1>b. /\ BrowserInv /\ NumbersInv /\ CalmInv /\ Loose
      /\ activity[a].phase = "sent" /\ activity[a].job = "login"
      /\ UNCHANGED <<status, jar, burnt, losses, seen>>
      /\ UNCHANGED <<left, held, lost, crossed>>
  BY DEF TokenInv, BrowserInv, ServeLogin, seen
<1>1. CASE Answer(a, "unauthorised", 0) /\ UNCHANGED <<live, family, issued>>
  BY <1>b, <1>1, PlainAnswerKeeps DEF Answers, server
<1>2. CASE Issue(a, live, 0)
  <2>1. /\ NumbersInv'
        /\ issued' = issued + 1 /\ issued' \in Issues
        /\ activity'[a].given = issued'
        /\ live' = live \cup {issued'}
        /\ family'[issued'] = issued'
        /\ \A m \in 1..issued : family'[m] = family[m]
    BY <1>b, <1>2, IssueKeepsNumbers
  <2>s. /\ \A b \in Activities :
              /\ Renewing(b)' = Renewing(b) /\ LoggingOut(b)' = LoggingOut(b)
              /\ activity'[b].token = activity[b].token
              /\ Leaving(b) => Leaving(b)'
        /\ \A b \in Activities \ {a} : activity'[b] = activity[b]
        /\ activity'[a].phase = "answered" /\ activity[a].given = 0
        /\ \A n : n \notin {0, issued'} => (OnItsWay(n)' <=> OnItsWay(n))
    BY <1>b, <1>2, IssueSigns
  <2>3. ~Renewing(a)
    BY <1>b DEF NumbersInv, Shape, Renewing
  <2>4. /\ live \subseteq 1..issued /\ left \subseteq 1..issued /\ held \subseteq 1..issued
        /\ issued \in Nat /\ issued' \notin 1..issued /\ 0 \notin 1..issued
    BY <1>b, <2>1 DEF NumbersInv, Loose
  <2>n. /\ jar.issue # 0 => jar.issue \in 1..issued
        /\ \A b \in Activities :
              /\ activity[b].given # 0 => activity[b].given \in 1..issued
              /\ activity[b].token # 0 => activity[b].token \in 1..issued
    BY <1>b, <2>4 DEF NumbersInv, Numbered, Loose, Activity
  <2>5. CalmInv'
    <3> SUFFICES ASSUME ~crossed PROVE CalmInv'
      BY <1>b DEF CalmInv
    <3>1. Alone'
      BY <1>b, <2>s DEF CalmInv, Alone
    <3>2. OneLive'
      <4>1. \A m \in live : family[m] \in 1..issued
        BY <1>b, <2>4, FamiliesNumbered
      <4>2. \A m \in live : family'[m] = family[m] /\ family[m] # issued'
        BY <2>1, <2>4, <4>1
      <4>3. \A m, n \in live : family'[m] = family'[n] => m = n
        BY <1>b, <4>2 DEF CalmInv, OneLive
      <4> QED
        BY <2>1, <4>2, <4>3 DEF OneLive
    <3>3. UpToDate'
      <4>1. \A n \in live' \cap held' : n \in live \cap held /\ family'[n] = family[n]
        BY <1>b, <2>1, <2>4
      <4> QED
        BY <1>b, <2>1, <2>s, <2>n, <4>1 DEF CalmInv, UpToDate
    <3>4. Delivered'
      <4>1. \A n \in live : n \in held \/ OnItsWay(n)' \/ family'[n] \in lost
        BY <1>b, <2>1, <2>4, <2>s DEF CalmInv, Delivered
      <4>2. OnItsWay(issued)'
        BY <2>1 DEF OnItsWay
      <4> QED
        BY <1>b, <2>1, <4>1, <4>2 DEF Delivered
    <3>5. LeftDead'
      <4>1. \A n \in live : n \in held \/ OnItsWay(n)' => family'[n] \notin left
        BY <1>b, <2>1, <2>4, <2>s DEF CalmInv, LeftDead
      <4> QED
        BY <1>b, <2>1, <2>4, <4>1 DEF LeftDead
    <3>6. \A b \in Activities : Presented(b)'
      BY <1>b, <2>1, <2>s, <2>3, <2>n DEF CalmInv, Presented, Renewing
    <3>7. JarExplained'
      <4>1. Rotated /\ jar.issue # 0 => Rotated'
        BY <1>b, <2>1, <2>s, <2>n, <2>3 DEF Rotated, Renewing
      <4>2. Removed /\ jar.issue # 0 => Removed'
        <5> SUFFICES ASSUME Removed, jar.issue # 0 PROVE Removed'
          OBVIOUS
        <5>1. PICK b \in Activities :
                 Leaving(b) /\ family[activity[b].token] = family[jar.issue]
          BY DEF Removed
        <5>2. activity[b].token # 0
          BY <1>b, <5>1 DEF NumbersInv, Shape
        <5> QED
          BY <1>b, <2>1, <2>s, <2>n, <5>1, <5>2 DEF Removed
      <4> QED
        BY <1>b, <2>1, <2>n, <4>1, <4>2 DEF CalmInv, JarExplained
    <3>8. burnt' \subseteq lost'
      BY <1>b DEF CalmInv
    <3> QED
      BY <3>1, <3>2, <3>3, <3>4, <3>5, <3>6, <3>7, <3>8 DEF CalmInv
  <2> QED
    BY <2>1, <2>5 DEF TokenInv
<1> QED
  BY <1>1, <1>2 DEF ServeLogin

\* In calm a refresh is alone, so what it finds it keeps; and it presents a dead
\* token only of a family of which an answer got lost.
LEMMA RefreshKeeps ==
    ASSUME TokenInv, BrowserInv', NEW a \in Activities, ServeRefresh(a)
    PROVE  TokenInv'
<1>b. /\ BrowserInv /\ NumbersInv /\ CalmInv /\ Loose
      /\ activity[a].phase = "sent" /\ Renewing(a) /\ activity[a].job # "logout"
      /\ UNCHANGED <<status, flight, jar, family, issued, losses>>
      /\ UNCHANGED <<left, held, lost, crossed>>
  <2>1. BrowserInv /\ NumbersInv /\ CalmInv /\ Loose /\ Renewing(a)
    BY DEF TokenInv, BrowserInv, ServeRefresh
  <2>2. activity[a].job # "logout"
    BY <2>1 DEF NumbersInv, Shape, Renewing
  <2> QED
    BY <2>1, <2>2 DEF ServeRefresh, seen
<1>t. PICK token : token = activity[a].token
  OBVIOUS
<1>g. activity[a].given = 0 /\ activity[a] \in Activity
  BY <1>b DEF NumbersInv, Shape, Loose
<1>1. CASE token \in live
  <2>1. /\ activity' = [activity EXCEPT ![a].phase = "found"]
        /\ UNCHANGED <<live, burnt>>
    BY <1>1, <1>t DEF ServeRefresh
  <2>2. PICK r : r = [activity[a] EXCEPT !.phase = "found"]
    OBVIOUS
  <2>3. /\ r \in Activity /\ r.job = activity[a].job /\ r.at = activity[a].at
        /\ r.header = activity[a].header /\ r.token = token
        /\ r.given = 0 /\ r.phase = "found"
    BY <1>g, <1>t, <2>2 DEF Activity, Phases
  <2>4. activity' = [activity EXCEPT ![a] = r]
    BY <2>1, <2>2
  <2>5. activity'[a] = r /\ \A b \in Activities \ {a} : activity'[b] = activity[b]
    BY <1>b, <2>4 DEF Loose
  <2>6. NumbersInv'
    <3>1. /\ live' \subseteq live /\ left' \subseteq 1..issued /\ burnt' \subseteq 1..issued
          /\ lost' \subseteq 1..issued
          /\ losses' \in 0..MaxLosses /\ crossed' \in BOOLEAN /\ InFlight(a)
      BY <1>b, <2>1 DEF NumbersInv, InFlight
    <3>2. r.token # 0
      BY <1>1, <1>b, <2>3 DEF NumbersInv, Loose
    <3> QED
      BY <1>b, <1>t, <2>3, <2>4, <3>1, <3>2, TouchKeepsNumbers
  <2>7. CalmInv'
    <3> SUFFICES ASSUME ~crossed PROVE CalmInv'
      BY <1>b DEF CalmInv
    <3>s. /\ \A b \in Activities :
                /\ Renewing(b)' = Renewing(b) /\ LoggingOut(b)' = LoggingOut(b)
                /\ activity'[b].token = activity[b].token
                /\ activity'[b].given = activity[b].given
          /\ \A n : OnItsWay(n)' = OnItsWay(n)
          /\ (Rotated => Rotated') /\ (Removed => Removed')
      BY <1>b, <1>g, <1>t, <2>3, <2>4, AnswerSigns
    <3>1. Alone' /\ OneLive' /\ UpToDate'
      BY <1>b, <2>1, <3>s DEF CalmInv, Alone, OneLive, UpToDate
    <3>2. Delivered' /\ LeftDead'
      BY <1>b, <2>1, <3>s DEF CalmInv, Delivered, LeftDead
    <3>3. \A b \in Activities : Presented(b)'
      <4>1. Presented(a)'
        BY <1>1, <2>1, <2>3, <2>5 DEF Presented
      <4>2. \A b \in Activities \ {a} : Presented(b)'
        BY <1>b, <2>1, <2>5, <3>s DEF CalmInv, Presented
      <4> QED
        BY <4>1, <4>2
    <3>4. JarExplained' /\ burnt' \subseteq lost'
      BY <1>b, <2>1, <3>s DEF CalmInv, JarExplained
    <3> QED
      BY <3>1, <3>2, <3>3, <3>4 DEF CalmInv
  <2> QED
    BY <2>6, <2>7 DEF TokenInv
<1>2. CASE token \notin live
  <2>1. /\ Answer(a, "unauthorised", 0)
        /\ live' = (IF token = 0 THEN live ELSE live \ FamilyOf(token))
        /\ burnt' = (IF token = 0 THEN burnt ELSE burnt \cup {family[token]})
    BY <1>2, <1>t DEF ServeRefresh
  <2>2. CASE token = 0
    BY <1>b, <2>1, <2>2, PlainAnswerKeeps DEF Answers, server, seen
  <2>3. CASE token # 0
    <3>1. PICK r \in Activity :
             /\ activity' = [activity EXCEPT ![a] = r]
             /\ r.job = activity[a].job /\ r.at = activity[a].at
             /\ r.header = activity[a].header /\ r.token = activity[a].token
             /\ r.given = 0 /\ r.phase = "answered" /\ r.answer = "unauthorised"
      BY <1>b, <2>1, AnswerTouches DEF Answers
    <3>2. activity'[a] = r /\ \A b \in Activities \ {a} : activity'[b] = activity[b]
      BY <1>b, <3>1 DEF Loose
    <3>3. token \in 1..issued /\ family[token] \in 1..issued
      <4>1. token \in 1..issued
        BY <1>b, <1>t, <2>3 DEF NumbersInv
      <4> QED
        BY <1>b, <4>1, FamiliesNumbered
    <3>4. live' \subseteq live /\ \A m \in live \ live' : family[m] = family[token]
      BY <2>1, <2>3 DEF FamilyOf
    <3>5. \A m \in live : family[m] # family[token] => m \in live'
      BY <2>1, <2>3 DEF FamilyOf
    <3>6. NumbersInv'
      <4>1. /\ left' \subseteq 1..issued /\ burnt' \subseteq 1..issued
            /\ lost' \subseteq 1..issued
            /\ losses' \in 0..MaxLosses /\ crossed' \in BOOLEAN /\ InFlight(a)
        BY <1>b, <2>1, <2>3, <3>3 DEF NumbersInv, InFlight
      <4> QED
        BY <1>b, <3>1, <3>4, <4>1, TouchKeepsNumbers
    <3>7. CalmInv'
      <4> SUFFICES ASSUME ~crossed PROVE CalmInv'
        BY <1>b DEF CalmInv
      <4>s. /\ \A b \in Activities :
                  /\ Renewing(b)' = Renewing(b) /\ LoggingOut(b)' = LoggingOut(b)
                  /\ activity'[b].token = activity[b].token
                  /\ activity'[b].given = activity[b].given
            /\ \A n : OnItsWay(n)' = OnItsWay(n)
            /\ (Removed => Removed')
        BY <1>b, <1>g, <3>1, AnswerSigns
      <4>a. \A b \in Activities : Renewing(b) => b = a
        BY <1>b DEF CalmInv, Alone
      <4>l. family[token] \in lost
        BY <1>2, <1>b, <1>t, <2>3 DEF CalmInv, Presented
      <4>1. Alone' /\ OneLive' /\ UpToDate'
        BY <1>b, <3>4, <4>s DEF CalmInv, Alone, OneLive, UpToDate
      <4>2. Delivered' /\ LeftDead'
        BY <1>b, <3>4, <4>s DEF CalmInv, Delivered, LeftDead
      <4>3. ASSUME NEW b \in Activities
            PROVE  Presented(b)'
        <5>1. CASE b = a
          BY <3>1, <3>2, <5>1 DEF Presented
        <5>2. CASE b # a
          <6>1. activity'[b] = activity[b] /\ ~Renewing(b) /\ activity[b].phase # "found"
            BY <1>b, <3>2, <4>a, <5>2 DEF NumbersInv, Shape
          <6>2. activity[b].given # 0 => activity[b].given \in live'
            <7> SUFFICES ASSUME activity[b].given # 0 PROVE activity[b].given \in live'
              OBVIOUS
            <7>1. activity[b].given \in live /\ activity[b].job = "login"
              BY <1>b, <6>1 DEF CalmInv, Presented, NumbersInv, Shape
            <7>2. family[activity[b].given] # family[token]
              BY <1>b, <1>t, <2>3, <5>2, <7>1 DEF NumbersInv, FamilyFresh
            <7> QED
              BY <3>5, <7>1, <7>2
          <6> QED
            BY <4>s, <6>1, <6>2 DEF Presented
        <5> QED
          BY <5>1, <5>2
      <4>4. JarExplained'
        <5>1. ~Rotated
          BY <1>g, <4>a DEF Rotated
        <5> QED
          BY <1>b, <3>4, <4>s, <4>l, <5>1 DEF CalmInv, JarExplained
      <4>5. burnt' \subseteq lost'
        BY <1>b, <2>1, <2>3, <4>l DEF CalmInv
      <4> QED
        BY <4>1, <4>2, <4>3, <4>4, <4>5 DEF CalmInv
    <3> QED
      BY <3>6, <3>7 DEF TokenInv
  <2> QED
    BY <2>2, <2>3
<1> QED
  BY <1>1, <1>2

\* A rotation replaces the jar's token before the jar has the new one.
LEMMA RotationKeeps ==
    ASSUME TokenInv, BrowserInv', NEW a \in Activities, ServeRotation(a)
    PROVE  TokenInv'
<1>b. /\ BrowserInv /\ NumbersInv /\ CalmInv /\ Loose
      /\ activity[a].phase = "found"
      /\ UNCHANGED <<status, jar, burnt, losses, seen>>
      /\ UNCHANGED <<left, held, lost, crossed>>
  BY DEF TokenInv, BrowserInv, ServeRotation, seen
<1>r. Renewing(a)
  BY <1>b DEF NumbersInv, Shape
<1>t. PICK token : token = activity[a].token
  OBVIOUS
<1>i. Issue(a, live \ {token}, token)
  BY <1>t DEF ServeRotation
<1>z. /\ live \subseteq 1..issued /\ left \subseteq 1..issued /\ held \subseteq 1..issued
      /\ issued \in Nat /\ 0 \notin 1..issued
  BY <1>b DEF NumbersInv, Loose
<1>f. PICK others : others = live \ {token}
  OBVIOUS
<1>n. token # 0 /\ token \in held /\ token \in 1..issued
  <2>1. token # 0
    BY <1>b, <1>t DEF NumbersInv, Shape
  <2> QED
    BY <1>b, <1>t, <1>z, <2>1 DEF NumbersInv
<1>1. /\ NumbersInv'
      /\ issued' = issued + 1 /\ issued' \in Issues
      /\ activity'[a].given = issued'
      /\ live' = others \cup {issued'}
      /\ family'[issued'] = family[token]
      /\ \A m \in 1..issued : family'[m] = family[m]
  <2>1. Issue(a, others, token) /\ others \subseteq live
    BY <1>f, <1>i
  <2> QED
    BY <1>n, <1>b, <1>r, <1>t, <2>1, IssueKeepsNumbers
<1>s. /\ \A b \in Activities :
            /\ Renewing(b)' = Renewing(b) /\ LoggingOut(b)' = LoggingOut(b)
            /\ activity'[b].token = activity[b].token
            /\ Leaving(b) => Leaving(b)'
      /\ \A b \in Activities \ {a} : activity'[b] = activity[b]
      /\ activity'[a].phase = "answered" /\ activity[a].given = 0
      /\ \A n : n \notin {0, issued'} => (OnItsWay(n)' <=> OnItsWay(n))
  <2>1. Issue(a, others, token)
    BY <1>f, <1>i
  <2> QED
    BY <1>b, <2>1, IssueSigns
<1>2. /\ issued' \notin 1..issued
      /\ jar.issue # 0 => jar.issue \in 1..issued
      /\ \A b \in Activities :
            /\ activity[b].given # 0 => activity[b].given \in 1..issued
            /\ activity[b].token # 0 => activity[b].token \in 1..issued
  BY <1>b, <1>z, <1>1 DEF NumbersInv, Numbered, Loose, Activity
<1>3. CalmInv'
  <2> SUFFICES ASSUME ~crossed PROVE CalmInv'
    BY <1>b DEF CalmInv
  <2>a. /\ \A b \in Activities : Renewing(b) => b = a
        /\ \A b \in Activities : ~LoggingOut(b)
    BY <1>b, <1>r DEF CalmInv, Alone
  <2>l. token \in live
    BY <1>b, <1>t DEF CalmInv, Presented
  <2>1. Alone'
    BY <1>b, <1>s DEF CalmInv, Alone
  <2>2. OneLive'
    <3>1. \A m \in others : family'[m] = family[m] /\ family[m] # family[token]
      BY <1>b, <1>f, <1>z, <1>1, <2>l DEF CalmInv, OneLive
    <3>2. \A m, n \in others : family'[m] = family'[n] => m = n
      BY <1>b, <1>f, <3>1 DEF CalmInv, OneLive
    <3> QED
      BY <1>1, <3>1, <3>2 DEF OneLive
  <2>3. UpToDate'
    <3>1. \A n \in live' \cap held' : n \in live \cap held /\ family'[n] = family[n]
      BY <1>b, <1>f, <1>z, <1>1, <1>2
    <3> QED
      BY <1>b, <1>1, <1>s, <1>2, <3>1 DEF CalmInv, UpToDate
  <2>4. Delivered'
    <3>1. \A n \in others : n \in held \/ OnItsWay(n)' \/ family'[n] \in lost
      BY <1>b, <1>f, <1>1, <1>z, <1>2, <1>s DEF CalmInv, Delivered
    <3> QED
      BY <1>b, <1>1, <1>s, <3>1 DEF Delivered, OnItsWay
  <2>5. LeftDead'
    <3>1. \A n \in others : n \in held \/ OnItsWay(n)' => family'[n] \notin left
      BY <1>b, <1>f, <1>1, <1>z, <1>2, <1>s DEF CalmInv, LeftDead
    <3>2. family[token] \notin left
      BY <1>b, <1>n, <2>l DEF CalmInv, LeftDead
    <3> QED
      BY <1>b, <1>1, <3>1, <3>2 DEF LeftDead
  <2>6. ASSUME NEW b \in Activities
        PROVE  Presented(b)'
    <3>1. CASE b = a
      BY <1>1, <1>s, <3>1 DEF Presented
    <3>2. CASE b # a
      <4>1. activity'[b] = activity[b] /\ ~Renewing(b) /\ ~Renewing(b)'
            /\ activity[b].phase # "found"
        BY <1>b, <1>s, <2>a, <3>2 DEF NumbersInv, Shape
      <4>2. activity[b].given # 0 => activity[b].given \in live'
        <5> SUFFICES ASSUME activity[b].given # 0 PROVE activity[b].given \in live'
          OBVIOUS
        <5>1. activity[b].given \in live /\ activity[b].job = "login"
          BY <1>b, <4>1 DEF CalmInv, Presented, NumbersInv, Shape
        <5>2. activity[b].given # token
          BY <1>n, <1>b, <1>t, <3>2, <5>1 DEF NumbersInv, FamilyFresh
        <5> QED
          BY <1>f, <1>1, <5>1, <5>2
      <4> QED
        BY <4>1, <4>2 DEF Presented
    <3> QED
      BY <3>1, <3>2
  <2>7. JarExplained'
    <3> SUFFICES ASSUME jar.issue # 0
                 PROVE  \/ jar.issue \in live' \/ Rotated' \/ Removed'
                        \/ family'[jar.issue] \in lost
      BY <1>b DEF JarExplained
    <3>1. CASE jar.issue = token
      <4>1. family'[activity'[a].given] = family'[jar'.issue] /\ activity'[a].given # 0
        BY <1>b, <1>z, <1>1, <1>n, <3>1
      <4> QED
        BY <1>r, <1>s, <4>1 DEF Rotated
    <3>2. CASE jar.issue \in live /\ jar.issue # token
      BY <1>f, <1>1, <3>2
    <3>3. ~Rotated
      BY <1>s, <2>a DEF Rotated
    <3>4. ~Removed
      BY <2>a DEF Removed, Leaving, LoggingOut, InFlight
    <3> QED
      BY <1>b, <1>1, <1>2, <3>1, <3>2, <3>3, <3>4 DEF CalmInv, JarExplained
  <2>8. burnt' \subseteq lost'
    BY <1>b DEF CalmInv
  <2> QED
    BY <2>1, <2>2, <2>3, <2>4, <2>5, <2>6, <2>7, <2>8 DEF CalmInv
<1> QED
  BY <1>1, <1>3 DEF TokenInv

\* A logout that has met no refresh kills the family of the token presented, if
\* that token is live; if not, what is live of the family has been lost.
LEMMA LogoutKeeps ==
    ASSUME TokenInv, BrowserInv', NEW a \in Activities, ServeLogout(a)
    PROVE  TokenInv'
<1>b. /\ BrowserInv /\ NumbersInv /\ CalmInv /\ Loose
      /\ activity[a].phase = "sent" /\ activity[a].job = "logout"
      /\ UNCHANGED <<status, flight, jar, family, issued, losses, burnt>>
      /\ UNCHANGED <<held, lost, crossed>>
  BY DEF TokenInv, BrowserInv, ServeLogout
<1>t. PICK token : token = activity[a].token
  OBVIOUS
<1>g. activity[a].given = 0 /\ LoggingOut(a)
  BY <1>b DEF NumbersInv, Shape, LoggingOut, InFlight
<1>p. PICK answer \in Answers :
         /\ Answer(a, answer, 0)
         /\ \/ /\ answer = "ok" /\ token # 0
               /\ live' = live \ RevokedByLogout(token)
               /\ left' = left \cup {family[token]}
            \/ answer = "refused" /\ UNCHANGED <<live, left>>
  BY <1>t DEF ServeLogout, Answers, CsrfPasses
<1>1. PICK r \in Activity :
         /\ activity' = [activity EXCEPT ![a] = r]
         /\ r.job = activity[a].job /\ r.at = activity[a].at
         /\ r.header = activity[a].header /\ r.token = activity[a].token
         /\ r.given = 0 /\ r.phase = "answered" /\ r.answer = answer
  BY <1>b, <1>p, AnswerTouches
<1>2. activity'[a] = r /\ \A b \in Activities \ {a} : activity'[b] = activity[b]
  BY <1>b, <1>1 DEF Loose
<1>3. token # 0 => token \in 1..issued /\ family[token] \in 1..issued /\ token \in Issues
  <2>1. token # 0 => token \in 1..issued
    BY <1>b, <1>t DEF NumbersInv
  <2> QED
    BY <1>b, <2>1, FamiliesNumbered
<1>4. live' \subseteq live
  BY <1>p
<1>5. NumbersInv'
  <2>1. /\ left' \subseteq 1..issued /\ burnt' \subseteq 1..issued /\ lost' \subseteq 1..issued
        /\ losses' \in 0..MaxLosses /\ crossed' \in BOOLEAN /\ InFlight(a)
    BY <1>b, <1>p, <1>3 DEF NumbersInv, InFlight
  <2> QED
    BY <1>b, <1>p, <1>t, <1>1, <1>4, <2>1, TouchKeepsNumbers
<1>6. \A m \in live : m \notin live' => answer = "ok" /\ family[m] = family[token]
  BY <1>p DEF RevokedByLogout, FamilyOf
<1>7. \A m \in live : family[m] # family[token] => m \in live'
  BY <1>p DEF RevokedByLogout, FamilyOf
<1>8. CalmInv'
  <2> SUFFICES ASSUME ~crossed PROVE CalmInv'
    BY <1>b DEF CalmInv
  <2>s. /\ \A b \in Activities :
              /\ Renewing(b)' = Renewing(b) /\ LoggingOut(b)' = LoggingOut(b)
              /\ activity'[b].token = activity[b].token
              /\ activity'[b].given = activity[b].given
        /\ \A n : OnItsWay(n)' = OnItsWay(n)
        /\ (Removed => Removed')
    BY <1>b, <1>g, <1>1, AnswerSigns
  <2>a. \A b \in Activities : ~Renewing(b) /\ ~Renewing(b)'
    BY <1>b, <1>g, <2>s DEF CalmInv, Alone
  <2>1. Alone' /\ OneLive' /\ UpToDate'
    BY <1>b, <1>4, <2>s DEF CalmInv, Alone, OneLive, UpToDate
  <2>2. Delivered'
    BY <1>b, <1>4, <2>s DEF CalmInv, Delivered
  <2>f. ASSUME NEW b \in Activities, activity[b].given # 0, token # 0
        PROVE  family[activity[b].given] # family[token]
    <3>1. activity[b].job = "login" /\ b # a
      BY <1>b, <1>g, <2>a, <2>f DEF NumbersInv, Shape
    <3> QED
      BY <1>b, <1>t, <2>f, <3>1 DEF NumbersInv, FamilyFresh
  <2>3. LeftDead'
    <3> SUFFICES ASSUME NEW n \in live', n \in held \/ OnItsWay(n)
                 PROVE  family[n] \notin left'
      BY <1>b, <2>s DEF LeftDead
    <3>1. n \in live /\ n # 0 /\ family[n] \notin left
      BY <1>b, <1>4 DEF CalmInv, LeftDead, NumbersInv
    <3>2. CASE left' = left
      BY <3>1, <3>2
    <3>3. CASE /\ token # 0 /\ live' = live \ RevokedByLogout(token)
               /\ left' = left \cup {family[token]}
      <4> SUFFICES ASSUME family[n] = family[token] PROVE FALSE
        BY <3>1, <3>3
      <4>1. n \in held
        BY <2>f, <3>1, <3>3 DEF OnItsWay
      <4>2. n = token
        BY <1>b, <1>g, <1>t, <3>1, <3>3, <4>1 DEF CalmInv, UpToDate
      <4>3. n \in FamilyOf(token)
        <5>1. issued \in Nat
          BY <1>b DEF Loose
        <5> QED
          BY <1>3, <3>3, <4>2, <5>1 DEF FamilyOf
      <4> QED
        BY <3>1, <3>3, <4>2, <4>3 DEF RevokedByLogout
    <3> QED
      BY <1>p, <3>2, <3>3
  <2>4. ASSUME NEW b \in Activities
        PROVE  Presented(b)'
    <3>1. activity'[b].phase # "found"
      BY <1>b, <1>1, <1>2, <2>a DEF NumbersInv, Shape
    <3>2. activity[b].given # 0 => activity[b].given \in live'
      <4> SUFFICES ASSUME activity[b].given # 0 PROVE activity[b].given \in live'
        OBVIOUS
      <4>1. activity[b].given \in live
        BY <1>b DEF CalmInv, Presented
      <4>2. CASE token # 0
        BY <1>7, <2>f, <4>1, <4>2
      <4>3. CASE token = 0
        BY <1>p, <4>1, <4>3
      <4> QED
        BY <4>2, <4>3
    <3> QED
      BY <2>a, <2>s, <3>1, <3>2 DEF Presented
  <2>5. JarExplained'
    <3> SUFFICES ASSUME jar.issue # 0
                 PROVE  jar.issue \in live' \/ Removed' \/ family[jar.issue] \in lost
      BY <1>b DEF JarExplained
    <3>1. ~Rotated
      BY <2>a DEF Rotated
    <3>2. CASE jar.issue \in live /\ jar.issue \notin live'
      <4>1. Leaving(a)' /\ family'[activity'[a].token] = family'[jar'.issue]
        BY <1>b, <1>t, <1>1, <1>2, <1>6, <3>2 DEF Leaving
      <4> QED
        BY <4>1 DEF Removed
    <3> QED
      BY <1>b, <2>s, <3>1, <3>2 DEF CalmInv, JarExplained
  <2>6. burnt' \subseteq lost'
    BY <1>b DEF CalmInv
  <2> QED
    BY <2>1, <2>2, <2>3, <2>4, <2>5, <2>6 DEF CalmInv
<1> QED
  BY <1>5, <1>8 DEF TokenInv

\* What an answer would have brought or removed is marked as lost with it.
LEMMA LoseKeeps ==
    ASSUME TokenInv, BrowserInv', NEW a \in Activities, Lose(a)
    PROVE  TokenInv'
<1>b. /\ BrowserInv /\ NumbersInv /\ CalmInv /\ Loose
      /\ UNCHANGED <<status, flight, jar, live, family, issued, burnt, left, held, crossed>>
      /\ losses < MaxLosses /\ losses' = losses + 1
      /\ lost' = lost \cup Undelivered(a)
      /\ activity[a].phase \in {"sent", "answered"}
  BY DEF TokenInv, BrowserInv, Lose, server
<1>1. PICK r \in Activity :
         /\ activity' = [activity EXCEPT ![a] = r]
         /\ r.job = activity[a].job /\ r.at = activity[a].at
         /\ r.header = activity[a].header /\ r.token = activity[a].token
         /\ r.given = 0 /\ r.phase = "answered" /\ r.answer = "refused"
  <2>1. Answer(a, "refused", 0)
    BY DEF Lose, Answer
  <2> QED
    BY <1>b, <2>1, AnswerTouches DEF Answers
<1>2. activity'[a] = r /\ \A b \in Activities \ {a} : activity'[b] = activity[b]
  BY <1>b, <1>1 DEF Loose
<1>3. losses' \in 0..MaxLosses
  BY <1>b, BoundsAssumption DEF NumbersInv
<1>4. Undelivered(a) \subseteq 1..issued
  <2>1. activity[a].given # 0 => activity[a].given \in 1..issued
    BY <1>b DEF NumbersInv, Numbered, Loose, Activity
  <2>2. Leaving(a) => activity[a].token \in 1..issued
    BY <1>b DEF NumbersInv, Shape
  <2> QED
    BY <1>b, <2>1, <2>2, FamiliesNumbered DEF Undelivered
<1>5. NumbersInv'
  <2>1. /\ live' \subseteq live /\ left' \subseteq 1..issued /\ burnt' \subseteq 1..issued
        /\ lost' \subseteq 1..issued
        /\ crossed' \in BOOLEAN /\ InFlight(a)
    BY <1>b, <1>4 DEF NumbersInv, InFlight
  <2> QED
    BY <1>b, <1>1, <1>3, <2>1, TouchKeepsNumbers
<1>6. CalmInv'
  <2> SUFFICES ASSUME ~crossed PROVE CalmInv'
    BY <1>b DEF CalmInv
  <2>s. \A b \in Activities :
           /\ Renewing(b)' = Renewing(b) /\ LoggingOut(b)' = LoggingOut(b)
           /\ activity'[b].token = activity[b].token
           /\ activity'[b].given # 0 => activity'[b].given = activity[b].given
    BY <1>b, <1>1, <1>2 DEF Renewing, LoggingOut, InFlight
  <2>l. lost \subseteq lost'
    BY <1>b
  <2>1. Alone' /\ OneLive' /\ UpToDate'
    BY <1>b, <2>s DEF CalmInv, Alone, OneLive, UpToDate
  <2>2. ASSUME NEW n \in live
        PROVE  /\ n \in held \/ OnItsWay(n)' \/ family[n] \in lost'
               /\ OnItsWay(n)' => OnItsWay(n)
    <3>1. n # 0
      BY <1>b DEF NumbersInv
    <3>2. OnItsWay(n)' => OnItsWay(n)
      BY <2>s, <3>1 DEF OnItsWay
    <3>3. ASSUME NEW b \in Activities, activity[b].given = n
          PROVE  OnItsWay(n)' \/ family[n] \in lost'
      <4>1. CASE b = a
        BY <1>b, <3>1, <3>3, <4>1 DEF Undelivered
      <4>2. CASE b # a
        BY <1>2, <3>3, <4>2 DEF OnItsWay
      <4> QED
        BY <4>1, <4>2
    <3>4. n \in held \/ OnItsWay(n) \/ family[n] \in lost
      BY <1>b DEF CalmInv, Delivered
    <3> QED
      BY <2>l, <3>2, <3>3, <3>4 DEF OnItsWay
  <2>3. Delivered' /\ LeftDead'
    BY <1>b, <2>2 DEF CalmInv, Delivered, LeftDead
  <2>4. \A b \in Activities : Presented(b)'
    <3>1. Presented(a)'
      BY <1>1, <1>2 DEF Presented
    <3>2. \A b \in Activities \ {a} : Presented(b)'
      BY <1>b, <1>2, <2>l, <2>s DEF CalmInv, Presented
    <3> QED
      BY <3>1, <3>2
  <2>5. JarExplained'
    <3> SUFFICES ASSUME jar.issue # 0
                 PROVE  jar.issue \in live \/ Rotated' \/ Removed' \/ family[jar.issue] \in lost'
      BY <1>b DEF JarExplained
    <3>1. Rotated => Rotated' \/ family[jar.issue] \in lost'
      <4> SUFFICES ASSUME Rotated PROVE Rotated' \/ family[jar.issue] \in lost'
        OBVIOUS
      <4>1. PICK b \in Activities :
               /\ Renewing(b) /\ activity[b].given # 0
               /\ family[activity[b].given] = family[jar.issue]
        BY DEF Rotated
      <4>2. CASE b = a
        BY <1>b, <4>1, <4>2 DEF Undelivered
      <4>3. CASE b # a
        BY <1>b, <1>2, <2>s, <4>1, <4>3 DEF Rotated
      <4> QED
        BY <4>2, <4>3
    <3>2. Removed => Removed' \/ family[jar.issue] \in lost'
      <4> SUFFICES ASSUME Removed PROVE Removed' \/ family[jar.issue] \in lost'
        OBVIOUS
      <4>1. PICK b \in Activities :
               Leaving(b) /\ family[activity[b].token] = family[jar.issue]
        BY DEF Removed
      <4>2. CASE b = a
        <5>1. activity[a].given = 0
          BY <1>b, <4>1, <4>2 DEF NumbersInv, Shape, Leaving, Renewing
        <5> QED
          BY <1>b, <4>1, <4>2, <5>1 DEF Undelivered
      <4>3. CASE b # a
        BY <1>b, <1>2, <4>1, <4>3 DEF Removed, Leaving
      <4> QED
        BY <4>2, <4>3
    <3> QED
      BY <1>b, <2>l, <3>1, <3>2 DEF CalmInv, JarExplained
  <2>6. burnt' \subseteq lost'
    BY <1>b, <2>l DEF CalmInv
  <2> QED
    BY <2>1, <2>3, <2>4, <2>5, <2>6 DEF CalmInv
<1> QED
  BY <1>5, <1>6 DEF TokenInv

-----------------------------------------------------------------------------
(* The client's steps, and the tokens.                                     *)

\* An exchange made anew: no answer yet, tokens and headers only from the jar.
Anew(b) ==
    /\ activity'[b].given = 0
    /\ activity'[b].phase \in {"none", "composed", "sent"}
    /\ activity'[b].token \in {0, jar.issue, jar'.issue}
    /\ activity'[b].header \in {0, activity[b].header, jar.issue, jar'.issue}
    /\ Shape(b)'

\* The step of an activity, and of those who waited for it, if the jar loses
\* what an answer brings only by taking it, if the token of a new refresh, or of
\* a logout that is sent, is the jar's, and if that marks the crossings.
LEMMA ClientMoveKeeps ==
    ASSUME TokenInv, BrowserInv', NEW a \in Activities, NEW M \in SUBSET Activities, a \in M,
           UNCHANGED <<server, left, lost, losses>>,
           held' = held \cup ({jar'.issue} \ {0}),
           crossed' \in BOOLEAN, crossed => crossed',
           status' \in [Tabs -> {"loading", "anonymous", "authenticated"}],
           (issued + Cardinality({b \in Activities : MayIssue(b)}) <= MaxIssues)',
           \A b \in Activities \ M : Alike(activity'[b], activity[b]),
           \A b \in M \ {a} : activity[b].at = "join" /\ ~Renewing(b)' /\ ~LoggingOut(b)',
           \A b \in M : Anew(b),
           jar'.access => jar'.issue # 0,
           \/ jar'.issue = activity[a].given /\ activity[a].given # 0
           \/ jar'.issue = 0 /\ activity[a].given = 0
           \/ jar'.issue = jar.issue /\ activity[a].given = 0 /\ ~Leaving(a),
           LoggingOut(a)' =>
              /\ activity'[a].token = jar.issue
              /\ jar'.issue = jar.issue /\ activity[a].given = 0
              /\ crossed' \/ \A b \in Activities : ~Renewing(b),
           Renewing(a)' =>
              /\ activity'[a].token = jar.issue
              /\ activity[a].given = 0 /\ activity[a].job # "logout"
              /\ \/ crossed'
                 \/ \A b \in Activities \ {a} : ~Renewing(b) /\ ~LoggingOut(b)
    PROVE  TokenInv'
<1>b. /\ BrowserInv /\ NumbersInv /\ CalmInv /\ Loose /\ Loose'
      /\ UNCHANGED <<live, family, issued, burnt, left, lost, losses>>
  BY DEF TokenInv, BrowserInv, server
<1>n. /\ \A b \in Activities : activity[b].token \in 0..issued /\ activity[b].given \in 0..issued
                               /\ activity[b].header \in 0..issued
      /\ jar.issue \in 0..issued /\ issued \in Nat
  BY <1>b DEF NumbersInv, Numbered, Loose, Activity
<1>j. jar'.issue \in 0..issued
  BY <1>n
<1>o. \A b \in Activities \ M :
         /\ activity'[b].job = activity[b].job /\ activity'[b].at = activity[b].at
         /\ activity'[b].phase = activity[b].phase
         /\ activity'[b].answer = activity[b].answer
         /\ activity'[b].header = activity[b].header
         /\ activity'[b].token = activity[b].token
         /\ activity'[b].given = activity[b].given
  BY DEF Alike
<1>1. \A b \in Activities : Shape(b)'
  <2>1. \A b \in Activities \ M : Shape(b)'
    BY <1>b, <1>o DEF NumbersInv, Shape, Renewing, InFlight, Leaving
  <2> QED
    BY <2>1 DEF Anew
<1>2. \A b \in Activities : Numbered(b)'
  BY <1>b, <1>n, <1>j, <1>o DEF Anew, Numbered
<1>3. \A b \in Activities : FamilyFresh(b)'
  <2>1. \A b \in M : FamilyFresh(b)'
    BY DEF Anew, FamilyFresh
  <2>2. ASSUME NEW b \in Activities \ M
        PROVE  FamilyFresh(b)'
    <3> SUFFICES ASSUME activity[b].job = "login", activity[b].given # 0
                 PROVE  FamilyFresh(b)'
      BY <1>o DEF FamilyFresh
    <3>1. PICK m : m = activity[b].given
      OBVIOUS
    <3>2. /\ family[m] = m
          /\ jar.issue # 0 => family[jar.issue] # m
          /\ \A c \in Activities \ {b} :
                /\ activity[c].token # 0 => family[activity[c].token] # m
                /\ activity[c].given # 0 => family[activity[c].given] # m
      BY <1>b, <3>1 DEF NumbersInv, FamilyFresh
    <3>3. jar'.issue # 0 => family[jar'.issue] # m
      BY <3>2
    <3>4. \A c \in Activities \ {b} :
             /\ activity'[c].token # 0 => family[activity'[c].token] # m
             /\ activity'[c].given # 0 => family[activity'[c].given] # m
      BY <1>o, <3>2, <3>3 DEF Anew
    <3> QED
      BY <1>b, <1>o, <3>1, <3>2, <3>3, <3>4 DEF FamilyFresh
  <2> QED
    BY <2>1, <2>2
<1>h. /\ held' \subseteq 1..issued /\ jar'.issue \in held' \cup {0}
      /\ held \subseteq held' /\ jar.issue \in held' \cup {0}
  <2>1. held \subseteq 1..issued /\ jar.issue \in held \cup {0}
    BY <1>b DEF NumbersInv
  <2>2. PICK k : k = jar'.issue
    OBVIOUS
  <2>3. k \in 0..issued /\ held' = held \cup ({k} \ {0})
    BY <1>j, <2>2
  <2>4. k # 0 => k \in 1..issued
    BY <1>n, <2>3
  <2> QED
    BY <2>1, <2>2, <2>3, <2>4
<1>i. \A b \in Activities : activity'[b].token \in held' \cup {0}
  <2>1. \A b \in Activities \ M : activity'[b].token \in held' \cup {0}
    BY <1>b, <1>h, <1>o DEF NumbersInv
  <2>2. \A b \in M : activity'[b].token \in held' \cup {0}
    BY <1>h DEF Anew
  <2> QED
    BY <2>1, <2>2
<1>4. NumbersInv'
  BY <1>b, <1>n, <1>j, <1>1, <1>2, <1>3, <1>h, <1>i DEF NumbersInv
<1>5. \A b \in Activities : Renewing(b)' => b = a \/ Renewing(b)
  BY <1>o DEF Renewing
<1>6. \A b \in Activities : LoggingOut(b)' => b = a \/ (b \notin M /\ LoggingOut(b))
  BY <1>o DEF LoggingOut, InFlight
<1>7. CalmInv'
  <2> SUFFICES ASSUME ~crossed' PROVE CalmInv'
    BY DEF CalmInv
  <2>c. /\ Alone /\ OneLive /\ UpToDate /\ Delivered /\ LeftDead
        /\ \A b \in Activities : Presented(b)
        /\ JarExplained /\ burnt \subseteq lost
    BY <1>b DEF CalmInv
  <2>m. \A b \in M \ {a} : activity[b].phase = "none" /\ activity[b].given = 0
    BY <1>b DEF NumbersInv, Shape
  <2>1. Alone'
    <3>1. ~(Renewing(a)' /\ LoggingOut(a)')
      BY <1>1 DEF Shape, Renewing, LoggingOut
    <3> QED
      BY <1>5, <1>6, <2>c, <3>1 DEF Alone
  <2>2. OneLive'
    BY <1>b, <2>c DEF OneLive
  <2>h. \A n \in live : n \in held' =>
           n \in held \/ (n = activity[a].given /\ jar'.issue = n)
    BY <1>b DEF NumbersInv
  <2>3. UpToDate'
    <3> SUFFICES ASSUME NEW n \in live, n \in held'
                 PROVE  /\ jar'.issue # 0 /\ family[jar'.issue] = family[n] => jar'.issue = n
                        /\ \A b \in Activities :
                              LoggingOut(b)' /\ activity'[b].token # 0
                              /\ family[activity'[b].token] = family[n]
                                 => activity'[b].token = n
      BY <1>b DEF UpToDate
    <3>1. jar'.issue # 0 /\ family[jar'.issue] = family[n] => jar'.issue = n
      <4>1. CASE jar'.issue = activity[a].given /\ activity[a].given # 0
        BY <2>c, <4>1 DEF Presented, OneLive
      <4>2. CASE jar'.issue = jar.issue /\ activity[a].given = 0 /\ jar'.issue # 0
        BY <2>c, <2>h, <4>2 DEF UpToDate
      <4> QED
        BY <4>1, <4>2
    <3>2. ASSUME LoggingOut(a)', activity'[a].token # 0,
                 family[activity'[a].token] = family[n]
          PROVE  activity'[a].token = n
      BY <3>1, <3>2
    <3>3. ASSUME NEW b \in Activities \ M, LoggingOut(b), activity[b].token # 0,
                 family[activity[b].token] = family[n]
          PROVE  activity[b].token = n
      <4>1. CASE n \in held
        BY <2>c, <3>3, <4>1 DEF UpToDate
      <4>2. CASE n = activity[a].given
        <5>1. activity[a].given # 0 /\ ~Renewing(a)
          BY <1>b, <2>c, <3>3, <4>2 DEF NumbersInv, Alone
        <5>2. activity[a].job = "login"
          BY <1>b, <5>1 DEF NumbersInv, Shape
        <5> QED
          BY <1>b, <3>3, <4>2, <5>1, <5>2 DEF NumbersInv, FamilyFresh
      <4> QED
        BY <2>h, <4>1, <4>2
    <3> QED
      BY <1>6, <1>o, <3>1, <3>2, <3>3
  <2>4. ASSUME NEW n \in live
        PROVE  /\ n \in held' \/ OnItsWay(n)' \/ family[n] \in lost
               /\ n \in held' \/ OnItsWay(n)' => n \in held \/ OnItsWay(n)
    <3>1. n # 0
      BY <1>b DEF NumbersInv
    <3>2. OnItsWay(n) => n \in held' \/ OnItsWay(n)'
      <4> SUFFICES ASSUME NEW b \in Activities, activity[b].given = n
                   PROVE  n \in held' \/ OnItsWay(n)'
        BY DEF OnItsWay
      <4>1. CASE b = a
        BY <3>1, <4>1
      <4>2. CASE b \in M \ {a}
        BY <2>m, <3>1, <4>2
      <4>3. CASE b \notin M
        BY <1>o, <4>3 DEF OnItsWay
      <4> QED
        BY <4>1, <4>2, <4>3
    <3>3. OnItsWay(n)' => OnItsWay(n)
      BY <1>o, <3>1 DEF OnItsWay, Anew
    <3> QED
      BY <1>h, <2>c, <2>h, <3>2, <3>3 DEF Delivered, OnItsWay
  <2>5. Delivered' /\ LeftDead'
    BY <1>b, <2>c, <2>4 DEF Delivered, LeftDead
  <2>6. Renewing(a)' /\ activity'[a].token # 0
           => activity'[a].token \in live \/ family[activity'[a].token] \in lost
    <3> SUFFICES ASSUME Renewing(a)', jar.issue # 0
                 PROVE  jar.issue \in live \/ family[jar.issue] \in lost
      OBVIOUS
    <3>1. ~Rotated
      BY DEF Rotated
    <3>2. ~Removed
      BY DEF Removed, Leaving, LoggingOut, InFlight
    <3> QED
      BY <2>c, <3>1, <3>2 DEF JarExplained
  <2>7. ASSUME NEW b \in Activities
        PROVE  Presented(b)'
    <3>1. CASE b \in M
      BY <1>b, <2>6, <3>1 DEF Anew, Presented
    <3>2. CASE b \notin M
      BY <1>b, <1>o, <2>c, <3>2 DEF Presented, Renewing
    <3> QED
      BY <3>1, <3>2
  <2>8. JarExplained'
    <3> SUFFICES ASSUME jar'.issue # 0
                 PROVE  \/ jar'.issue \in live \/ Rotated' \/ Removed'
                        \/ family[jar'.issue] \in lost
      BY <1>b DEF JarExplained
    <3>1. CASE jar'.issue = activity[a].given /\ activity[a].given # 0
      BY <2>c, <3>1 DEF Presented
    <3>2. CASE jar'.issue = jar.issue /\ activity[a].given = 0 /\ ~Leaving(a)
      <4>1. Rotated => Rotated'
        <5> SUFFICES ASSUME Rotated PROVE Rotated'
          OBVIOUS
        <5>1. PICK b \in Activities : /\ Renewing(b) /\ activity[b].given # 0
                                      /\ family[activity[b].given] = family[jar.issue]
          BY DEF Rotated
        <5>2. b \notin M
          BY <2>m, <3>2, <5>1
        <5>3. Renewing(b)' /\ activity'[b].given = activity[b].given
          BY <1>o, <5>1, <5>2 DEF Renewing
        <5> QED
          BY <1>b, <3>2, <5>1, <5>3 DEF Rotated
      <4>2. Removed => Removed'
        <5> SUFFICES ASSUME Removed PROVE Removed'
          OBVIOUS
        <5>1. PICK b \in Activities :
                 Leaving(b) /\ family[activity[b].token] = family[jar.issue]
          BY DEF Removed
        <5>2. b \notin M
          BY <2>m, <3>2, <5>1 DEF Leaving
        <5>3. Leaving(b)' /\ activity'[b].token = activity[b].token
          BY <1>o, <5>1, <5>2 DEF Leaving
        <5> QED
          BY <1>b, <3>2, <5>1, <5>3 DEF Removed
      <4> QED
        BY <2>c, <3>2, <4>1, <4>2 DEF JarExplained
    <3> QED
      BY <3>1, <3>2
  <2>9. burnt' \subseteq lost'
    BY <1>b, <2>c
  <2> QED
    BY <2>1, <2>2, <2>3, <2>5, <2>7, <2>8, <2>9 DEF CalmInv
<1> QED
  BY <1>4, <1>7 DEF TokenInv

\* The same for a step of one activity.
LEMMA SoloMoveKeeps ==
    ASSUME TokenInv, BrowserInv', NEW a \in Activities, NEW r \in Activity,
           Alike(activity'[a], r),
           \A b \in Activities \ {a} : Alike(activity'[b], activity[b]),
           UNCHANGED <<server, left, lost, losses>>,
           held' = held \cup ({jar'.issue} \ {0}),
           crossed' \in BOOLEAN, crossed => crossed',
           status' \in [Tabs -> {"loading", "anonymous", "authenticated"}],
           r.given = 0, r.phase \in {"none", "composed", "sent"},
           r.token \in {0, jar.issue, jar'.issue},
           r.header \in {0, activity[a].header, jar.issue, jar'.issue},
           r.job \in {"login", "logout"} => r.at = "try",
           r.at \in {"idle", "join"} => r.phase = "none",
           r.at \in {"try", "renew"} => MayIssue(a) \/ (IssueLeft /\ ~Busy(a)),
           jar'.access => jar'.issue # 0,
           \/ jar'.issue = activity[a].given /\ activity[a].given # 0
           \/ jar'.issue = 0 /\ activity[a].given = 0
           \/ jar'.issue = jar.issue /\ activity[a].given = 0 /\ ~Leaving(a),
           r.job = "logout" /\ r.phase = "sent" =>
              /\ r.token = jar.issue
              /\ jar'.issue = jar.issue /\ activity[a].given = 0
              /\ crossed' \/ \A b \in Activities : ~Renewing(b),
           r.at = "renew" =>
              /\ r.phase = "sent" /\ r.token = jar.issue
              /\ activity[a].given = 0 /\ activity[a].job # "logout"
              /\ \/ crossed'
                 \/ \A b \in Activities \ {a} : ~Renewing(b) /\ ~LoggingOut(b)
    PROVE  TokenInv'
<1>b. BrowserInv /\ NumbersInv /\ Loose /\ issued' = issued
  BY DEF TokenInv, BrowserInv, server
<1>1. /\ activity'[a].job = r.job /\ activity'[a].at = r.at /\ activity'[a].phase = r.phase
      /\ activity'[a].header = r.header /\ activity'[a].token = r.token
      /\ activity'[a].given = r.given
  BY DEF Alike
<1>2. Anew(a)
  BY <1>1 DEF Anew, Shape, Renewing, InFlight, Leaving
<1>3. \A b \in Activities \ {a} : MayIssue(b)' => MayIssue(b)
  BY DEF Alike, MayIssue
<1>4. (issued + Cardinality({b \in Activities : MayIssue(b)}) <= MaxIssues)'
  <2>1. MayIssue(a)' => r.at \in {"try", "renew"}
    BY <1>1 DEF MayIssue
  <2>2. CASE ~MayIssue(a)' \/ MayIssue(a)
    BY <1>b, <1>3, <2>2, QuotaKept
  <2>3. CASE IssueLeft /\ ~Busy(a)
    BY <1>b, <1>3, <2>3, QuotaTaken
  <2> QED
    BY <2>1, <2>2, <2>3
<1>5. /\ Renewing(a)' => r.at = "renew" /\ activity'[a].token = jar.issue
      /\ LoggingOut(a)' => r.job = "logout" /\ r.phase = "sent" /\ activity'[a].token = r.token
  BY <1>1 DEF Renewing, LoggingOut, InFlight
<1>6. PICK M \in SUBSET Activities : M = {a}
  OBVIOUS
<1>7. /\ a \in M
      /\ \A b \in Activities \ M : Alike(activity'[b], activity[b])
      /\ \A b \in M \ {a} : activity[b].at = "join" /\ ~Renewing(b)' /\ ~LoggingOut(b)'
      /\ \A b \in M : Anew(b)
  BY <1>2, <1>6
<1> QED
  BY <1>4, <1>5, <1>7, ClientMoveKeeps

\* Sending, starting and waiting bring no new token but the jar's.
LEMMA CallsKeepTokens ==
    ASSUME TokenInv, BrowserInv', NEW a \in Activities,
           Attach(a) \/ (\E job \in Jobs : Start(a, job)) \/ Join(a)
    PROVE  TokenInv'
<1>b. /\ BrowserInv /\ NumbersInv /\ Loose /\ HasJob(a)
      /\ activity \in [Activities -> Activity] /\ activity[a] \in Activity
      /\ jar \in [issue : Nat, access : BOOLEAN]
  BY DEF TokenInv, BrowserInv, Loose
<1>u. /\ UNCHANGED <<status, flight, jar, server, left, lost, losses>>
      /\ held' = held \cup ({jar'.issue} \ {0}) /\ (jar'.access => jar'.issue # 0)
      /\ status' \in [Tabs -> {"loading", "anonymous", "authenticated"}]
  <2>1. UNCHANGED <<status, flight, jar, server, left, lost, losses, held>>
    BY DEF Attach, Start, Join, seen
  <2>2. held = held \cup ({jar.issue} \ {0})
    BY <1>b DEF NumbersInv
  <2> QED
    BY <1>b, <2>1, <2>2 DEF NumbersInv
<1>1. CASE Attach(a)
  <2>1. PICK r : r = [activity[a] EXCEPT !.phase = "sent", !.token = jar.issue,
                                         !.access = jar.access]
    OBVIOUS
  <2>2. /\ r \in Activity /\ r.job = activity[a].job /\ r.at = activity[a].at
        /\ r.phase = "sent" /\ r.token = jar.issue /\ r.given = activity[a].given
        /\ r.header = activity[a].header
    BY <1>b, <2>1 DEF Activity, Phases
  <2>3. /\ activity[a].phase = "composed" /\ activity' = [activity EXCEPT ![a] = r]
        /\ crossed' = (crossed \/ LogoutMeets(a))
    BY <1>b, <1>1, <2>1 DEF Attach
  <2>4. /\ activity[a].given = 0 /\ r.at \notin {"idle", "join", "renew"}
        /\ (r.job \in {"login", "logout"} => r.at = "try")
    BY <1>b, <2>2, <2>3 DEF NumbersInv, Shape, Renewing, InFlight
  <2>5. Alike(activity'[a], r) /\ \A b \in Activities \ {a} : Alike(activity'[b], activity[b])
    BY <1>b, <2>3 DEF Alike
  <2>6. (r.at \in {"try", "renew"} => MayIssue(a)) /\ ~Leaving(a)
    BY <2>2, <2>3 DEF MayIssue, Leaving
  <2>7. /\ crossed' \in BOOLEAN /\ (crossed => crossed')
        /\ r.job = "logout" => crossed' \/ \A b \in Activities : ~Renewing(b)
    <3>1. LogoutMeets(a) \in BOOLEAN
      BY DEF LogoutMeets
    <3> QED
      BY <1>b, <2>2, <2>3, <3>1 DEF NumbersInv, LogoutMeets
  <2> QED
    BY <1>u, <2>2, <2>3, <2>4, <2>5, <2>6, <2>7, SoloMoveKeeps
<1>2. ASSUME NEW job \in Jobs, Start(a, job)
      PROVE  TokenInv'
  <2>1. PICK r : r = Exchange(job, "try", jar)
    OBVIOUS
  <2>2. /\ r \in Activity /\ r.job = job /\ r.at = "try"
        /\ r.phase \in {"composed", "sent"}
        /\ ~(r.job = "logout" /\ r.phase = "sent")
        /\ r.given = 0 /\ r.token \in {0, jar.issue} /\ r.header \in {0, jar.issue}
    BY <1>b, <2>1, ExchangeFields, ExchangeCarries DEF Unsafe
  <2>3. /\ activity' = [activity EXCEPT ![a] = r] /\ ~Busy(a) /\ IssueLeft
        /\ crossed' = crossed /\ crossed' \in BOOLEAN
    BY <1>b, <1>2, <2>1 DEF Start, seen, NumbersInv
  <2>4. activity[a].phase = "none" /\ activity[a].given = 0 /\ ~Leaving(a)
    BY <1>b, <2>3 DEF NumbersInv, Shape, Busy, Leaving
  <2>5. Alike(activity'[a], r) /\ \A b \in Activities \ {a} : Alike(activity'[b], activity[b])
    BY <1>b, <2>3 DEF Alike
  <2> QED
    BY <1>u, <2>2, <2>3, <2>4, <2>5, SoloMoveKeeps
<1>3. CASE Join(a)
  <2>1. activity[a].job = "write" /\ activity[a].answer = "unauthorised"
    BY <1>3 DEF Join
  <2>2. PICK r : r = [Idle EXCEPT !.job = "write", !.at = "join"]
    OBVIOUS
  <2>3. r \in Activity /\ r.at = "join" /\ r.phase = "none" /\ r.job = "write"
        /\ r.given = 0 /\ r.token = 0 /\ r.header = 0
    <3>1. /\ r.job = "write" /\ r.at = "join" /\ r.phase = "none"
          /\ r.given = 0 /\ r.token = 0 /\ r.header = 0
      BY <2>2 DEF Idle
    <3>2. r \in Activity
      BY <2>2, IdleFields DEF Jobs
    <3> QED
      BY <3>1, <3>2
  <2>4. activity' = [activity EXCEPT ![a] = r] /\ crossed' = crossed /\ crossed' \in BOOLEAN
    BY <1>b, <1>3, <2>1, <2>2 DEF Join, seen, NumbersInv
  <2>5. activity[a].given = 0 /\ ~Leaving(a)
    BY <1>b, <2>1 DEF NumbersInv, Shape, Leaving
  <2>6. Alike(activity'[a], r) /\ \A b \in Activities \ {a} : Alike(activity'[b], activity[b])
    BY <1>b, <2>4 DEF Alike
  <2> QED
    BY <1>u, <2>1, <2>3, <2>4, <2>5, <2>6, SoloMoveKeeps
<1> QED
  BY <1>1, <1>2, <1>3

\* A refresh that starts outside a single flight, or next to a logout, marks
\* the crossing.
LEMMA RenewKeepsTokens ==
    ASSUME TokenInv, BrowserInv', NEW a \in Activities, Renew(a)
    PROVE  TokenInv'
<1>b. /\ BrowserInv /\ NumbersInv /\ Loose /\ HasJob(a)
      /\ activity \in [Activities -> Activity] /\ activity[a] \in Activity
      /\ jar \in [issue : Nat, access : BOOLEAN]
  BY DEF TokenInv, BrowserInv, Loose
<1>u. /\ UNCHANGED <<status, jar, server, left, held, lost, losses>>
      /\ crossed' = (crossed \/ Meets(a))
      /\ activity[a].job = "write" /\ activity[a].phase = "answered"
      /\ activity[a].at = "try" /\ activity[a].answer = "unauthorised"
      /\ flight[TabOf[a]] = Null
  BY DEF Renew, Unclaimed
<1>1. /\ crossed' \in BOOLEAN /\ (crossed => crossed') /\ (jar'.access => jar'.issue # 0)
      /\ held' = held \cup ({jar'.issue} \ {0})
      /\ status' \in [Tabs -> {"loading", "anonymous", "authenticated"}]
  <2>1. Meets(a) \in BOOLEAN
    BY DEF Meets
  <2> QED
    BY <1>b, <1>u, <2>1 DEF NumbersInv
<1>2. PICK r : r = Exchange("write", "renew", jar)
  OBVIOUS
<1>3. /\ r \in Activity /\ r.job = "write" /\ r.at = "renew" /\ r.phase = "sent"
      /\ r.given = 0 /\ r.token = jar.issue /\ r.header \in {0, jar.issue}
  BY <1>b, <1>2, ExchangeFields, ExchangeCarries DEF Jobs
<1>4. activity' = [activity EXCEPT ![a] = r]
  BY <1>u, <1>2 DEF Renew
<1>5. Alike(activity'[a], r) /\ \A b \in Activities \ {a} : Alike(activity'[b], activity[b])
  BY <1>b, <1>4 DEF Alike
<1>6. MayIssue(a) /\ activity[a].given = 0 /\ ~Leaving(a)
  BY <1>b, <1>u DEF NumbersInv, Shape, MayIssue, Leaving
<1>7. crossed' \/ \A b \in Activities \ {a} : ~Renewing(b) /\ ~LoggingOut(b)
  <2> SUFFICES ASSUME ~Meets(a), NEW b \in Activities \ {a}
               PROVE  ~Renewing(b) /\ ~LoggingOut(b)
    BY <1>u
  <2>1. Renewing(b) => InFlight(b)
    BY <1>b DEF NumbersInv, Shape
  <2>2. ~(Renewing(b) /\ activity[b].job = "boot")
    BY <2>1 DEF Meets
  <2>3. ~(Renewing(b) /\ activity[b].job # "boot" /\ TabOf[b] = TabOf[a])
    BY <1>b, <1>u, TabsAssumption DEF BrowserInv, OwnsFlight
  <2>4. ~(Renewing(b) /\ TabOf[b] # TabOf[a])
    BY <2>1 DEF Meets
  <2> QED
    BY <2>2, <2>3, <2>4 DEF Meets, LoggingOut
<1> QED
  BY <1>u, <1>1, <1>3, <1>5, <1>6, <1>7, SoloMoveKeeps

\* The jar remembers what it takes.
LEMMA TakenHeld ==
    ASSUME NumbersInv, NEW a \in Activities, TakeCookies(a)
    PROVE  held' = held \cup ({jar'.issue} \ {0})
<1>1. ASSUME NEW n, SetCookies(n)
      PROVE  held' = held \cup ({jar'.issue} \ {0})
  BY <1>1 DEF SetCookies
<1>2. CASE UNCHANGED <<jar, held>>
  BY <1>2 DEF NumbersInv
<1> QED
  BY <1>1, <1>2 DEF TakeCookies

\* A call ends with the jar its answer leaves.
LEMMA EndKeepsTokens ==
    ASSUME TokenInv, BrowserInv', NEW a \in Activities, EndCall(a)
    PROVE  TokenInv'
<1>b. /\ BrowserInv /\ NumbersInv /\ Loose /\ HasJob(a)
      /\ activity[a] \in Activity /\ jar \in [issue : Nat, access : BOOLEAN]
  BY DEF TokenInv, BrowserInv, Loose
<1>u. /\ UNCHANGED <<server, left, lost, losses, crossed>>
      /\ activity[a].phase = "answered" /\ TakeCookies(a) /\ Continue(a, Idle)
      /\ activity[a].at # "renew"
      /\ held' = held \cup ({jar'.issue} \ {0})
  BY <1>b, TakenHeld DEF EndCall
<1>1. crossed' \in BOOLEAN /\ status' \in [Tabs -> {"loading", "anonymous", "authenticated"}]
  BY <1>b, <1>u DEF NumbersInv, EndCall, SetStatus
<1>2. PICK r : r = Idle
  OBVIOUS
<1>3. /\ r \in Activity /\ r.at = "idle" /\ r.phase = "none" /\ r.job = "none"
      /\ r.given = 0 /\ r.token = 0 /\ r.header = 0
  <2>1. r.given = 0 /\ r.token = 0 /\ r.header = 0
    BY <1>2 DEF Idle
  <2> QED
    BY <1>2, <2>1, IdleFields
<1>4. Alike(activity'[a], r) /\ \A b \in Activities \ {a} : Alike(activity'[b], activity[b])
  BY <1>b, <1>u, <1>2, <1>3, ContinueFields
<1>5. /\ jar'.access => jar'.issue # 0
      /\ \/ jar'.issue = activity[a].given /\ activity[a].given # 0
         \/ jar'.issue = 0 /\ activity[a].given = 0
         \/ jar'.issue = jar.issue /\ activity[a].given = 0 /\ ~Leaving(a)
  <2>1. CASE activity[a].given # 0
    <3>1. jar' = [issue |-> activity[a].given, access |-> activity[a].given # 0]
      BY <1>u, <2>1 DEF TakeCookies, SetCookies
    <3> QED
      BY <2>1, <3>1
  <2>2. CASE /\ activity[a].given = 0 /\ activity[a].job = "logout"
             /\ activity[a].answer = "ok"
    <3>1. jar' = [issue |-> 0, access |-> 0 # 0]
      BY <1>u, <2>2 DEF TakeCookies, SetCookies
    <3> QED
      BY <2>2, <3>1
  <2>3. CASE /\ activity[a].given = 0
             /\ ~(activity[a].job = "logout" /\ activity[a].answer = "ok")
    <3>1. jar' = jar
      BY <1>u, <2>3 DEF TakeCookies
    <3> QED
      BY <1>b, <2>3, <3>1 DEF NumbersInv, Leaving
  <2> QED
    BY <2>1, <2>2, <2>3
<1> QED
  BY <1>u, <1>1, <1>3, <1>4, <1>5, SoloMoveKeeps

\* So does the bootstrap, whose refresh marks the crossing.
LEMMA BootKeepsTokens ==
    ASSUME TokenInv, BrowserInv', NEW a \in Activities, Boot(a)
    PROVE  TokenInv'
<1>b. /\ BrowserInv /\ NumbersInv /\ Loose /\ HasJob(a)
      /\ activity[a] \in Activity /\ jar \in [issue : Nat, access : BOOLEAN]
  BY DEF TokenInv, BrowserInv, Loose
<1>u. /\ UNCHANGED <<server, left, lost, losses>>
      /\ activity[a].phase = "answered" /\ activity[a].job = "boot" /\ TakeCookies(a)
      /\ "boot" \in Jobs /\ ~Leaving(a)
      /\ held' = held \cup ({jar'.issue} \ {0})
  BY <1>b, TakenHeld DEF Boot, Jobs, Leaving
<1>j. jar' \in [issue : Nat, access : BOOLEAN]
  BY <1>b, <1>u, TakenCookies
<1>1. /\ jar'.access => jar'.issue # 0
      /\ \/ jar'.issue = activity[a].given /\ activity[a].given # 0
         \/ jar' = jar /\ activity[a].given = 0
  <2>1. CASE activity[a].given # 0
    <3>1. jar' = [issue |-> activity[a].given, access |-> activity[a].given # 0]
      BY <1>u, <2>1 DEF TakeCookies, SetCookies
    <3> QED
      BY <2>1, <3>1
  <2>2. CASE activity[a].given = 0
    <3>1. jar' = jar
      BY <1>u, <2>2 DEF TakeCookies
    <3> QED
      BY <1>b, <2>2, <3>1 DEF NumbersInv
  <2> QED
    BY <2>1, <2>2
<1>2. ASSUME NEW r \in Activity, Continue(a, r), UNCHANGED crossed,
             status' \in [Tabs -> {"loading", "anonymous", "authenticated"}],
             r.given = 0, r.phase \in {"none", "composed", "sent"},
             r.token \in {0, jar'.issue}, r.header \in {0, jar'.issue},
             r.job \in {"boot", "none"}, r.at \in {"idle", "retry"},
             r.at = "idle" => r.phase = "none"
      PROVE  TokenInv'
  <2>1. Alike(activity'[a], r) /\ \A b \in Activities \ {a} : Alike(activity'[b], activity[b])
    BY <1>b, <1>2, ContinueFields
  <2>2. crossed' \in BOOLEAN
    BY <1>b, <1>2 DEF NumbersInv
  <2> QED
    BY <1>u, <1>1, <1>2, <2>1, <2>2, SoloMoveKeeps
<1>3. CASE Continue(a, Idle) /\ SetStatus(a, "authenticated") /\ UNCHANGED crossed
  <2>1. PICK r : r = Idle
    OBVIOUS
  <2>2. /\ r.given = 0 /\ r.token = 0 /\ r.header = 0
    BY <2>1 DEF Idle
  <2>3. r \in Activity /\ r.at = "idle" /\ r.phase = "none" /\ r.job = "none"
    BY <2>1, IdleFields
  <2>4. status' \in [Tabs -> {"loading", "anonymous", "authenticated"}]
    BY <1>b, <1>3 DEF SetStatus, NumbersInv
  <2> QED
    BY <1>2, <1>3, <2>1, <2>2, <2>3, <2>4
<1>4. CASE Continue(a, Idle) /\ SetStatus(a, "anonymous") /\ UNCHANGED crossed
  <2>1. PICK r : r = Idle
    OBVIOUS
  <2>2. /\ r.given = 0 /\ r.token = 0 /\ r.header = 0
    BY <2>1 DEF Idle
  <2>3. r \in Activity /\ r.at = "idle" /\ r.phase = "none" /\ r.job = "none"
    BY <2>1, IdleFields
  <2>4. status' \in [Tabs -> {"loading", "anonymous", "authenticated"}]
    BY <1>b, <1>4 DEF SetStatus, NumbersInv
  <2> QED
    BY <1>2, <1>4, <2>1, <2>2, <2>3, <2>4
<1>5. CASE Continue(a, Exchange("boot", "retry", jar')) /\ UNCHANGED <<status, crossed>>
  <2>1. PICK cookies : cookies = jar'
    OBVIOUS
  <2>2. PICK r : r = Exchange("boot", "retry", cookies)
    OBVIOUS
  <2>3. /\ r \in Activity /\ r.job = "boot" /\ r.at = "retry"
        /\ r.phase \in {"composed", "sent"}
        /\ r.given = 0 /\ r.token \in {0, cookies.issue} /\ r.header \in {0, cookies.issue}
    BY <1>j, <1>u, <2>1, <2>2, ExchangeFields, ExchangeCarries
  <2>4. Continue(a, r)
    BY <1>5, <2>1, <2>2
  <2>5. status' \in [Tabs -> {"loading", "anonymous", "authenticated"}]
    BY <1>b, <1>5 DEF NumbersInv
  <2> QED
    BY <1>2, <1>5, <2>1, <2>3, <2>4, <2>5
<1>6. CASE /\ activity[a].at = "try"
           /\ Continue(a, Exchange("boot", "renew", jar))
           /\ crossed' = (crossed \/ Meets(a)) /\ UNCHANGED status
  <2>1. PICK r : r = Exchange("boot", "renew", jar)
    OBVIOUS
  <2>2. /\ r \in Activity /\ r.job = "boot" /\ r.at = "renew" /\ r.phase = "sent"
        /\ r.given = 0 /\ r.token = jar.issue /\ r.header \in {0, jar.issue}
    BY <1>b, <1>u, <2>1, ExchangeFields, ExchangeCarries
  <2>3. Alike(activity'[a], r) /\ \A b \in Activities \ {a} : Alike(activity'[b], activity[b])
    BY <1>b, <1>6, <2>1, <2>2, ContinueFields
  <2>4. MayIssue(a) /\ activity[a].given = 0 /\ ~Renewing(a)
    BY <1>b, <1>6, <1>u DEF NumbersInv, Shape, MayIssue, Renewing
  <2>5. crossed' \in BOOLEAN /\ (crossed => crossed')
        /\ status' \in [Tabs -> {"loading", "anonymous", "authenticated"}]
    <3>1. Meets(a) \in BOOLEAN
      BY DEF Meets
    <3> QED
      BY <1>b, <1>6, <3>1 DEF NumbersInv
  <2>6. crossed' \/ \A b \in Activities \ {a} : ~Renewing(b) /\ ~LoggingOut(b)
    <3> SUFFICES ASSUME ~Meets(a), NEW b \in Activities \ {a}
                 PROVE  ~Renewing(b) /\ ~LoggingOut(b)
      BY <1>6
    <3>1. Renewing(b) => InFlight(b)
      BY <1>b DEF NumbersInv, Shape
    <3>2. "boot" \in {activity[a].job, activity[b].job}
      BY <1>u
    <3> QED
      BY <3>1, <3>2 DEF Meets, LoggingOut
  <2> QED
    BY <1>u, <1>1, <2>2, <2>3, <2>4, <2>5, <2>6, SoloMoveKeeps
<1> QED
  BY <1>3, <1>4, <1>5, <1>6 DEF Boot

\* When a refresh settles, the jar takes the token that is live.
LEMMA RenewedKeepsTokens ==
    ASSUME TokenInv, BrowserInv', NEW a \in Activities, Renewed(a)
    PROVE  TokenInv'
<1>b. /\ BrowserInv /\ NumbersInv /\ Loose /\ jar \in [issue : Nat, access : BOOLEAN]
      /\ activity \in [Activities -> Activity]
  BY DEF TokenInv, BrowserInv, Loose
<1>u. /\ UNCHANGED <<status, server, left, lost, losses, crossed>>
      /\ activity[a].phase = "answered" /\ Renewing(a) /\ activity[a].job # "boot"
  BY DEF Renewed
<1>h. held' = held \cup ({jar'.issue} \ {0})
  <2>1. CASE activity[a].answer = "ok"
    BY <2>1 DEF Renewed, SetCookies
  <2>2. CASE UNCHANGED <<jar, held>>
    BY <1>b, <2>2 DEF NumbersInv
  <2> QED
    BY <2>1, <2>2 DEF Renewed
<1>1. PICK ok \in BOOLEAN, cookies \in [issue : Nat, access : BOOLEAN] :
         /\ jar' = cookies /\ Resume(a, ok, cookies)
         /\ cookies.access => cookies.issue # 0
         /\ \/ cookies.issue = activity[a].given /\ activity[a].given # 0
            \/ cookies.issue = 0 /\ activity[a].given = 0
            \/ cookies = jar /\ activity[a].given = 0
  <2>1. CASE activity[a].answer = "ok"
    <3>1. PICK n \in Nat : n = activity[a].given
      BY <1>b DEF Loose, Activity
    <3>2. PICK cookies : cookies = jar'
      OBVIOUS
    <3>3. cookies = [issue |-> n, access |-> n # 0]
      BY <2>1, <3>1, <3>2 DEF Renewed, SetCookies
    <3>4. cookies \in [issue : Nat, access : BOOLEAN] /\ cookies.issue = n
          /\ (cookies.access => cookies.issue # 0)
      BY <3>3
    <3>5. Resume(a, TRUE, cookies)
      BY <2>1, <3>2 DEF Renewed
    <3> QED
      BY <3>1, <3>2, <3>4, <3>5
  <2>2. CASE activity[a].answer # "ok"
    <3>1. PICK cookies : cookies = jar
      OBVIOUS
    <3>2. jar' = cookies /\ Resume(a, FALSE, cookies)
      BY <2>2, <3>1 DEF Renewed
    <3>3. activity[a].given = 0 /\ (jar.access => jar.issue # 0)
      BY <1>b, <2>2 DEF NumbersInv, Shape
    <3> QED
      BY <1>b, <3>1, <3>2, <3>3
  <2> QED
    BY <2>1, <2>2
<1>2. /\ activity' \in [Activities -> Activity]
      /\ \A b \in Activities \ GoOn(a) : Aside(b)
      /\ \A b \in GoOn(a) : HeaderFits(b)' /\ HasJob(b)' /\ ~Renewing(b)'
  BY <1>b, <1>1, <1>u, ResumeFields
<1>3. \A b \in Activities \ GoOn(a) : Alike(activity'[b], activity[b])
  BY <1>b, <1>2, AsideAlike
<1>4. GoOn(a) \in SUBSET Activities /\ a \in GoOn(a)
      /\ \A b \in GoOn(a) \ {a} : activity[b].at = "join"
  BY DEF GoOn
<1>5. ASSUME NEW b \in GoOn(a)
      PROVE  Anew(b) /\ activity'[b].at \notin {"try", "renew"} /\ ~LoggingOut(b)'
  <2>1. activity[b].job \in Jobs \ {"login", "logout"}
    <3>1. activity[b].job \in Jobs /\ activity[b].at \in {"renew", "join"}
      BY <1>b, <1>u, <1>5 DEF BrowserInv, HasJob, Busy, GoOn, Renewing
    <3> QED
      BY <1>b, <1>4, <3>1 DEF NumbersInv, Shape
  <2>2. PICK r \in Activity :
           /\ r.given = 0 /\ r.phase \in {"none", "composed", "sent"}
           /\ r.token \in {0, cookies.issue} /\ r.header \in {0, cookies.issue}
           /\ r.at \in {"idle", "retry"} /\ (r.at = "idle" => r.phase = "none")
           /\ r.job \notin {"login", "logout"}
           /\ r = IF ok THEN Exchange(activity[b].job, "retry", cookies) ELSE Idle
    <3>1. CASE ok
      <4>1. PICK r : r = Exchange(activity[b].job, "retry", cookies)
        OBVIOUS
      <4> QED
        BY <2>1, <3>1, <4>1, ExchangeFields, ExchangeCarries
    <3>2. CASE ~ok
      <4>1. PICK r : r = Idle
        OBVIOUS
      <4>2. r.given = 0 /\ r.token = 0 /\ r.header = 0
        BY <4>1 DEF Idle
      <4> QED
        BY <3>2, <4>1, <4>2, IdleFields
    <3> QED
      BY <3>1, <3>2
  <2>3. PICK s \in BOOLEAN :
           s = (r.swapped \/ (activity[b].phase = "composed" /\ jar'.issue # jar.issue))
    BY DEF Activity
  <2>4. activity'[b] = [r EXCEPT !.swapped = s]
    <3>1. b \in Activities
      BY <1>4
    <3>2. CASE ok
      <4>1. r = Exchange(activity[b].job, "retry", cookies)
        BY <2>2, <3>2
      <4> QED
        BY <1>1, <1>5, <2>3, <3>1, <3>2, <4>1 DEF Resume, Swap
    <3>3. CASE ~ok
      <4>1. r = Idle
        BY <2>2, <3>3
      <4> QED
        BY <1>1, <1>5, <2>3, <3>1, <3>3, <4>1 DEF Resume, Swap
    <3> QED
      BY <3>2, <3>3
  <2>5. /\ activity'[b].job = r.job /\ activity'[b].at = r.at
        /\ activity'[b].phase = r.phase /\ activity'[b].header = r.header
        /\ activity'[b].token = r.token /\ activity'[b].given = r.given
    BY <2>4 DEF Activity
  <2> QED
    BY <1>1, <2>2, <2>5 DEF Anew, Shape, Renewing, InFlight, Leaving, LoggingOut
<1>6. (issued + Cardinality({b \in Activities : MayIssue(b)}) <= MaxIssues)'
  <2>1. \A b \in Activities : MayIssue(b)' => MayIssue(b)
    BY <1>3, <1>5 DEF MayIssue, Alike
  <2> QED
    BY <1>b, <1>u, <2>1, QuotaKept DEF server
<1>7. crossed' \in BOOLEAN /\ status' \in [Tabs -> {"loading", "anonymous", "authenticated"}]
  BY <1>b, <1>u DEF NumbersInv
<1>8. /\ jar'.access => jar'.issue # 0
      /\ \/ jar'.issue = activity[a].given /\ activity[a].given # 0
         \/ jar'.issue = 0 /\ activity[a].given = 0
         \/ jar'.issue = jar.issue /\ activity[a].given = 0 /\ ~Leaving(a)
  <2>1. ~Leaving(a)
    BY <1>b, <1>u DEF NumbersInv, Shape, Renewing, Leaving
  <2> QED
    BY <1>1, <2>1
<1>9. PICK M \in SUBSET Activities : M = GoOn(a)
  BY <1>4
<1> QED
  BY <1>u, <1>h, <1>2, <1>3, <1>4, <1>5, <1>6, <1>7, <1>8, <1>9, ClientMoveKeeps

-----------------------------------------------------------------------------
(* The invariant holds throughout.                                         *)

\* Every answer of the server keeps it,
LEMMA ServeKeepsTokens ==
    ASSUME TokenInv, BrowserInv', NEW a \in Activities, Serve(a)
    PROVE  TokenInv'
<1>1. CASE ServePage(a)
  <2>1. PICK v : v = IF Unsafe(activity[a].job) /\ ~CsrfPasses(a) THEN "refused"
                     ELSE IF activity[a].access THEN "ok" ELSE "unauthorised"
    OBVIOUS
  <2>2. v \in Answers
    BY <2>1 DEF Answers
  <2>3. Answer(a, v, 0) /\ activity[a].phase = "sent"
        /\ activity[a].job # "logout" /\ UNCHANGED <<status, jar, server, losses, seen>>
    BY <1>1, <2>1 DEF ServePage
  <2> QED
    BY <2>2, <2>3, PlainAnswerKeeps
<1>2. CASE ServeLogin(a)
  BY <1>2, LoginKeeps
<1>3. CASE ServeRefresh(a)
  BY <1>3, RefreshKeeps
<1>4. CASE ServeRotation(a)
  BY <1>4, RotationKeeps
<1>5. CASE ServeLogout(a)
  BY <1>5, LogoutKeeps
<1> QED
  BY <1>1, <1>2, <1>3, <1>4, <1>5 DEF Serve

\* and so do the expiry of the access cookie and a tab that is loaded anew.
LEMMA EnvironmentKeepsTokens ==
    ASSUME TokenInv, BrowserInv',
           \/ \E t \in Tabs : Reload(t)
           \/ ExpireAccess
           \/ UNCHANGED vars
    PROVE  TokenInv'
<1>b. BrowserInv /\ NumbersInv /\ CalmInv /\ Loose
  BY DEF TokenInv, BrowserInv
<1>1. /\ UNCHANGED <<activity, live, family, issued, burnt, losses, left, held, lost, crossed>>
      /\ jar'.issue = jar.issue /\ (jar'.access => jar.access)
      /\ status' \in [Tabs -> {"loading", "anonymous", "authenticated"}]
  <2>1. CASE \E t \in Tabs : Reload(t)
    BY <1>b, <2>1 DEF Reload, server, seen, NumbersInv
  <2>2. CASE ExpireAccess
    BY <1>b, <2>2 DEF ExpireAccess, server, seen, NumbersInv, Loose
  <2>3. CASE UNCHANGED vars
    BY <1>b, <2>3 DEF vars, server, seen, NumbersInv
  <2> QED
    BY <2>1, <2>2, <2>3
<1>2. NumbersInv'
  <2>1. (issued + Cardinality({b \in Activities : MayIssue(b)}) <= MaxIssues)'
    BY <1>b, <1>1, QuotaKept DEF MayIssue
  <2>2. \A b \in Activities : Shape(b)' /\ Numbered(b)' /\ FamilyFresh(b)'
    BY <1>b, <1>1 DEF NumbersInv, Shape, Numbered, FamilyFresh, Renewing, InFlight, Leaving
  <2> QED
    BY <1>b, <1>1, <2>1, <2>2 DEF NumbersInv
<1>3. CalmInv'
  <2>1. UNCHANGED <<Alone, OneLive, UpToDate, Delivered, LeftDead, JarExplained>>
    BY <1>1 DEF Alone, OneLive, UpToDate, Delivered, LeftDead, JarExplained, OnItsWay,
                Rotated, Removed, Renewing, LoggingOut, InFlight, Leaving
  <2>2. \A a \in Activities : Presented(a)' = Presented(a)
    BY <1>1 DEF Presented, Renewing
  <2> QED
    BY <1>b, <1>1, <2>1, <2>2 DEF CalmInv
<1> QED
  BY <1>2, <1>3 DEF TokenInv

\* It holds when the tabs open,
LEMMA InitTokenInv == Init => TokenInv
<1> SUFFICES ASSUME Init PROVE TokenInv
  OBVIOUS
<1>1. /\ \A a \in Activities : activity[a] = Idle
      /\ live = {1} /\ issued = 1 /\ losses = 0 /\ burnt = {} /\ left = {} /\ crossed = FALSE
      /\ held = {1} /\ lost = {}
      /\ family = [n \in Issues |-> n] /\ status = [t \in Tabs |-> "loading"]
  BY DEF Init
<1>2. BrowserInv
  BY InitBrowserInv
<1>3. /\ Idle.at = "idle" /\ Idle.phase = "none" /\ Idle.job = "none"
      /\ Idle.header = 0 /\ Idle.token = 0 /\ Idle.given = 0
  BY DEF Idle
<1>4. jar.issue \in {0, 1} /\ (jar.access => jar.issue # 0)
  <2>1. CASE jar \in [issue : {1}, access : BOOLEAN]
    BY <2>1
  <2>2. CASE jar \in [issue : {0}, access : {FALSE}]
    <3>1. PICK n \in {0}, has \in {FALSE} : jar = [issue |-> n, access |-> has]
      BY <2>2, Zenon
    <3> QED
      BY <3>1
  <2> QED
    BY <2>1, <2>2 DEF Init
<1>5. {a \in Activities : MayIssue(a)} = {}
  BY <1>1, <1>3 DEF MayIssue
<1>6. (issued + Cardinality({a \in Activities : MayIssue(a)})) <= MaxIssues
  <2>1. Cardinality({a \in Activities : MayIssue(a)}) = 0
    BY <1>5, FS_EmptySet
  <2> QED
    BY <1>1, <2>1, BoundsAssumption
<1>7. NumbersInv
  <2>1. \A a \in Activities : /\ Shape(a) /\ Numbered(a) /\ FamilyFresh(a)
                               /\ activity[a].token \in held \cup {0}
    BY <1>1, <1>3 DEF Shape, Numbered, FamilyFresh, Renewing, InFlight, Leaving
  <2>2. family \in [Issues -> Issues] /\ \A n \in 1..issued : family[n] <= issued
    BY <1>1, BoundsAssumption DEF Issues
  <2>3. losses \in 0..MaxLosses
    BY <1>1, BoundsAssumption
  <2>4. /\ live \subseteq 1..issued /\ left \subseteq 1..issued /\ burnt \subseteq 1..issued
        /\ held \subseteq 1..issued /\ lost \subseteq 1..issued /\ jar.issue \in held \cup {0}
        /\ issued # 0 /\ jar.issue <= issued
    BY <1>1, <1>4
  <2> QED
    BY <1>1, <1>4, <1>6, <2>1, <2>2, <2>3, <2>4 DEF NumbersInv
<1>8. CalmInv
  <2>1. Alone /\ OneLive /\ Delivered /\ LeftDead
    BY <1>1, <1>3 DEF Alone, OneLive, Delivered, LeftDead, Renewing
  <2>2. UpToDate
    BY <1>1, <1>3, <1>4 DEF UpToDate, LoggingOut
  <2>3. (\A a \in Activities : Presented(a)) /\ JarExplained
    BY <1>1, <1>3, <1>4 DEF Presented, Renewing, JarExplained
  <2> QED
    BY <1>1, <2>1, <2>2, <2>3 DEF CalmInv
<1> QED
  BY <1>2, <1>7, <1>8 DEF TokenInv

\* and every step keeps it.
LEMMA NextTokenInv == TokenInv /\ [Next]_vars => TokenInv'
<1> SUFFICES ASSUME TokenInv, [Next]_vars PROVE TokenInv'
  OBVIOUS
<1>b. BrowserInv'
  BY NextBrowserInv DEF TokenInv
<1>1. ASSUME NEW a \in Activities, Serve(a)
      PROVE  TokenInv'
  BY <1>b, <1>1, ServeKeepsTokens
<1>2. ASSUME NEW a \in Activities, Client(a)
      PROVE  TokenInv'
  BY <1>b, <1>2, CallsKeepTokens, RenewKeepsTokens, EndKeepsTokens, BootKeepsTokens,
     RenewedKeepsTokens DEF Client
<1>3. ASSUME NEW a \in Activities, Lose(a)
      PROVE  TokenInv'
  BY <1>b, <1>3, LoseKeeps
<1>4. ASSUME NEW a \in Activities, NEW job \in Jobs, Start(a, job)
      PROVE  TokenInv'
  BY <1>b, <1>4, CallsKeepTokens
<1>5. CASE (\E t \in Tabs : Reload(t)) \/ ExpireAccess \/ UNCHANGED vars
  BY <1>b, <1>5, EnvironmentKeepsTokens
<1> QED
  BY <1>1, <1>2, <1>3, <1>4, <1>5 DEF Next

\* As long as no refresh meets a logout or a refresh outside its single flight,
\* a family has one live token at most, that token is in the jar, on its way
\* there or lost, and a refresh presents a dead token only of a family of which
\* an answer got lost.
THEOREM TokenInvariance == Spec => []TokenInv
BY InitTokenInv, NextTokenInv, PTL DEF Spec

\* Every variable keeps its type, and the responses that set cookies are
\* numbered within their bound.
THEOREM TypeCorrect == Spec => []TypeOK
<1>1. TokenInv => TypeOK
  <2> SUFFICES ASSUME TokenInv PROVE TypeOK
    OBVIOUS
  <2>1. Loose /\ NumbersInv
    BY DEF TokenInv, BrowserInv
  <2>2. issued \in Nat /\ issued <= MaxIssues
    BY <2>1, IssuedBounded DEF Loose
  <2>3. \A a \in Activities : activity[a] \in
           [job : Jobs \cup {"none"}, at : Places, phase : Phases,
            header : 0..MaxIssues, token : 0..MaxIssues, access : BOOLEAN,
            swapped : BOOLEAN, answer : Answers, given : 0..MaxIssues]
    <3> TAKE a \in Activities
    <3>1. activity[a] \in Activity /\ Numbered(a)
      BY <2>1 DEF Loose, NumbersInv
    <3>2. /\ activity[a].header \in 0..MaxIssues /\ activity[a].token \in 0..MaxIssues
          /\ activity[a].given \in 0..MaxIssues
      BY <2>2, <3>1, BoundsAssumption DEF Activity, Numbered
    <3> QED
      BY <3>1, <3>2 DEF Activity
  <2>4. jar.issue \in 0..MaxIssues
    BY <2>1, <2>2, BoundsAssumption DEF Loose, NumbersInv
  <2>5. jar \in [issue : 0..MaxIssues, access : BOOLEAN]
    BY <2>1, <2>4 DEF Loose
  <2>6. /\ burnt \subseteq Issues /\ left \subseteq Issues /\ issued \in 0..MaxIssues
        /\ held \subseteq Issues /\ lost \subseteq Issues
    BY <2>1, <2>2, BoundsAssumption DEF NumbersInv, Issues
  <2> QED
    BY <2>1, <2>3, <2>5, <2>6 DEF Loose, NumbersInv, TypeOK
<1> QED
  BY <1>1, TokenInvariance, PTL

\* Reuse detection never burns a family of the console's own unless an answer that
\* would have set or removed cookies of that very family was lost, or a refresh
\* met a logout or one outside its single flight, whatever the number of tabs and
\* of calls.
THEOREM BurnsAreExplained == Spec => []BurnExplained
<1>1. TokenInv => BurnExplained
  BY DEF TokenInv, CalmInv, BurnExplained
<1> QED
  BY <1>1, TokenInvariance, PTL

\* Whatever token a logout presented, once it is answered 204 no token of its
\* family that the browser was ever given is live, and what is live of it was
\* lost; the jar holds one of the family only until that answer is there, or if
\* one of the family's got lost; unless a refresh met a logout.
THEOREM LogoutEnds == Spec => []LogoutEndsFamily
<1>1. TokenInv => LogoutEndsFamily
  <2> SUFFICES ASSUME TokenInv, ~crossed PROVE LogoutEndsFamily
    BY DEF LogoutEndsFamily
  <2>c. /\ Delivered /\ LeftDead /\ JarExplained
        /\ \A a \in Activities : Presented(a)
        /\ NumbersInv
    BY DEF TokenInv, CalmInv
  <2>1. \A n \in live : family[n] \in left => n \notin held /\ family[n] \in lost
    BY <2>c DEF Delivered, LeftDead
  <2>2. ASSUME jar.issue # 0, family[jar.issue] \in left, family[jar.issue] \notin lost
        PROVE  Removed
    <3>1. jar.issue \notin live
      BY <2>1, <2>2
    <3>2. ~Rotated
      BY <2>c, <2>2 DEF Rotated, Presented, LeftDead, OnItsWay
    <3> QED
      BY <2>c, <2>2, <3>1, <3>2 DEF JarExplained
  <2> QED
    BY <2>1, <2>2 DEF LogoutEndsFamily, Removed
<1> QED
  BY <1>1, TokenInvariance, PTL

=============================================================================
