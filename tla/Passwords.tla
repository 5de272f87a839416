----------------------------- MODULE Passwords -----------------------------
(***************************************************************************)
(* The password of one operator: seeded as a one-time password, verified   *)
(* by login, replaced by changePassword, which keeps a history and revokes *)
(* the sessions, and the sessions, opened by login and renewed by refresh. *)
(* Handlers and seed runs are cut at their awaits.                         *)
(*                                                                         *)
(* A hash stands for the password it was made of: verifyPassword accepts   *)
(* the one it was given, whatever the salt.  Of a session only the login   *)
(* it stems from is kept (its tokens are in Sessions), of a failed         *)
(* verification nothing (the counters are in Login), and what              *)
(* authenticate asks of changePassword's caller is an access token some    *)
(* login has handed out.                                                   *)
(*                                                                         *)
(* past, forgetful, unevicted and seedDied are auxiliary, and so are two   *)
(* marks.  A request is `overtaken` when a password is written after it    *)
(* has read the operator.  A session has `escaped` when its password was   *)
(* replaced already and the sessions are revoked while the login that      *)
(* opens it, or a refresh that renews it, is under way.                    *)
(***************************************************************************)
EXTENDS Integers, Sequences

CONSTANTS
    Workers,      \* requests that may be in flight at the same time
    Seeds,        \* runs of the seed script
    Passwords,    \* passwords that meet the policy
    HistorySize,  \* config.auth.passwordHistorySize: 10
    MaxChanges,   \* bound: no change starts after so many
    Null

ASSUME HistoryAssumption == HistorySize \in Nat \ {0} /\ MaxChanges \in Nat

VARIABLES
    user,       \* the operator's document, Null until it is seeded
    live,       \* what sessions that are not revoked there are
    entered,    \* a login has handed out an access token
    request,    \* what each request in flight holds
    seed,       \* where each run of the seed script is
    past,       \* passwords replaced, latest first
    forgetful,  \* a change that was overtaken has written its history
    unevicted,  \* a process died between a new password and the revocation
    seedDied    \* a seed died after creating the operator

vars == <<user, live, entered, request, seed, past, forgetful, unevicted, seedDied>>

User ==
    [hash : Passwords, history : Seq(Passwords), mustChangePassword : BOOLEAN]

Session == [password : Passwords, escaped : BOOLEAN]

ASSUME NullAssumption == Null \notin Passwords \cup User \cup Session

\* The places at which a request relies on the copy of the operator it read.
Copying == {"verifying", "opening", "confirming", "comparing", "writing"}

Places == Copying \cup {"idle", "evicting", "rotating", "renewing"}

Request ==
    [at : Places, user : User \cup {Null}, newPassword : Passwords \cup {Null},
     session : Session \cup {Null}, overtaken : BOOLEAN]

NoRequest ==
    [at |-> "idle", user |-> Null, newPassword |-> Null, session |-> Null, overtaken |-> FALSE]

SeedPlaces == {"idle", "found none", "creating", "marking"}

TypeOK ==
    /\ user \in User \cup {Null}
    /\ user # Null => Len(user.history) <= HistorySize
    /\ live \subseteq Session
    /\ entered \in BOOLEAN
    /\ request \in [Workers -> Request]
    /\ seed \in [Seeds -> SeedPlaces]
    /\ past \in Seq(Passwords)
    /\ forgetful \in BOOLEAN /\ unevicted \in BOOLEAN /\ seedDied \in BOOLEAN

Init ==
    /\ user = Null
    /\ live = {}
    /\ entered = FALSE
    /\ request = [w \in Workers |-> NoRequest]
    /\ seed = [s \in Seeds |-> "idle"]
    /\ past = <<>>
    /\ forgetful = FALSE /\ unevicted = FALSE /\ seedDied = FALSE

-----------------------------------------------------------------------------
(* login.                                                                  *)

Goto(w, place) == request' = [request EXCEPT ![w].at = place]

Finish(w) == request' = [request EXCEPT ![w] = NoRequest]

\* findByEmailIndex or findById: the request goes on with what it read.
Read(w, place, session) ==
    /\ request[w].at = "idle"
    /\ user # Null
    /\ request' = [request EXCEPT ![w] = [NoRequest EXCEPT
                     !.at = place, !.user = user, !.session = session]]
    /\ UNCHANGED <<user, live, entered, seed, past, forgetful, unevicted, seedDied>>

LoginFind(w) == Read(w, "verifying", [password |-> user.hash, escaped |-> FALSE])

\* verifyPassword, and the counters' write; a wrong password ends the request.
LoginVerify(w, password) ==
    /\ request[w].at = "verifying"
    /\ IF password = request[w].user.hash THEN Goto(w, "opening") ELSE Finish(w)
    /\ UNCHANGED <<user, live, entered, seed, past, forgetful, unevicted, seedDied>>

\* sessionRepository.create, the access token, and the answer: whether the
\* password must be changed is told, and nothing else comes of it.
LoginOpen(w) ==
    /\ request[w].at = "opening"
    /\ live' = live \cup {request[w].session}
    /\ entered' = TRUE
    /\ Finish(w)
    /\ UNCHANGED <<user, seed, past, forgetful, unevicted, seedDied>>

-----------------------------------------------------------------------------
(* refresh.                                                                *)

\* findActiveByTokenHash, and findById, of which nothing is kept.
RefreshFind(w, session) ==
    /\ request[w].at = "idle"
    /\ session \in live
    /\ request' = [request EXCEPT ![w] = [NoRequest EXCEPT
                     !.at = "rotating", !.session = session]]
    /\ UNCHANGED <<user, live, entered, seed, past, forgetful, unevicted, seedDied>>

\* revokeById; other sessions may be just like the one it ends.
RefreshRevoke(w) ==
    /\ request[w].at = "rotating"
    /\ live' \in {live, live \ {request[w].session}}
    /\ Goto(w, "renewing")
    /\ UNCHANGED <<user, entered, seed, past, forgetful, unevicted, seedDied>>

\* sessionRepository.create, whatever was revoked since the token was found.
RefreshInsert(w) ==
    /\ request[w].at = "renewing"
    /\ live' = live \cup {request[w].session}
    /\ Finish(w)
    /\ UNCHANGED <<user, entered, seed, past, forgetful, unevicted, seedDied>>

-----------------------------------------------------------------------------
(* changePassword.                                                         *)

\* slice(0, passwordHistorySize)
Latest(passwords) ==
    SubSeq(passwords, 1,
           IF Len(passwords) <= HistorySize THEN Len(passwords) ELSE HistorySize)

Elements(passwords) == {passwords[i] : i \in DOMAIN passwords}

\* A mutant: the password in force is not in the history.
WithoutCurrent(doc) == Latest(doc.history)

\* The passwords a new one is compared with, and the history that is stored.
History(doc) == Latest(<<doc.hash>> \o doc.history)

ChangeFind(w) == entered /\ Len(past) < MaxChanges /\ Read(w, "confirming", Null)

ChangeVerify(w, currentPassword) ==
    /\ request[w].at = "confirming"
    /\ IF currentPassword = request[w].user.hash THEN Goto(w, "comparing") ELSE Finish(w)
    /\ UNCHANGED <<user, live, entered, seed, past, forgetful, unevicted, seedDied>>

ChangeCompare(w, newPassword) ==
    /\ request[w].at = "comparing"
    /\ IF newPassword \in Elements(History(request[w].user))
       THEN Finish(w)
       ELSE request' = [request EXCEPT ![w].at = "writing", ![w].newPassword = newPassword]
    /\ UNCHANGED <<user, live, entered, seed, past, forgetful, unevicted, seedDied>>

\* Every other copy of the operator is older than what this request writes.
OvertakeOthers(w) ==
    request' = [v \in Workers |->
        IF v = w THEN [request[w] EXCEPT !.at = "evicting"]
        ELSE [request[v] EXCEPT !.overtaken = @ \/ request[v].at \in Copying]]

\* A mutant: the history that is stored is not cut.
WriteUncut(w) ==
    /\ request[w].at = "writing"
    /\ user' = [hash |-> request[w].newPassword,
                history |-> <<request[w].user.hash>> \o request[w].user.history,
                mustChangePassword |-> FALSE]
    /\ past' = <<user.hash>> \o past
    /\ forgetful' = (forgetful \/ request[w].overtaken)
    /\ OvertakeOthers(w)
    /\ UNCHANGED <<live, entered, seed, unevicted, seedDied>>

\* hashPassword, and updateById, which sets all four fields from the copy.
ChangeWrite(w) ==
    /\ request[w].at = "writing"
    /\ user' = [hash |-> request[w].newPassword, history |-> History(request[w].user),
                mustChangePassword |-> FALSE]
    /\ past' = <<user.hash>> \o past
    /\ forgetful' = (forgetful \/ request[w].overtaken)
    /\ OvertakeOthers(w)
    /\ UNCHANGED <<live, entered, seed, unevicted, seedDied>>

\* A mutant: the sessions stay.
EvictNobody(w) ==
    /\ request[w].at = "evicting"
    /\ Finish(w)
    /\ UNCHANGED <<user, live, entered, seed, past, forgetful, unevicted, seedDied>>

\* Logins and refreshes under way have still to store the session they hold.
Escapes(v) == request[v].session # Null /\ request[v].session.password # user.hash

EscapeOthers(w) ==
    request' = [v \in Workers |->
        IF v = w THEN NoRequest
        ELSE IF Escapes(v) THEN [request[v] EXCEPT !.session.escaped = TRUE]
        ELSE request[v]]

\* revokeAllForUser ends the sessions stored by now; the audit entry, the answer.
Evict(w) ==
    /\ request[w].at = "evicting"
    /\ live' = {}
    /\ EscapeOthers(w)
    /\ UNCHANGED <<user, entered, seed, past, forgetful, unevicted, seedDied>>

\* The process dies, or a database call throws.
Crash(w) ==
    /\ request[w].at # "idle"
    /\ Finish(w)
    /\ unevicted' = (unevicted \/ request[w].at = "evicting")
    /\ UNCHANGED <<user, live, entered, seed, past, forgetful, seedDied>>

\* logout, reuse, idleness or age: sessions end for other reasons too.
End(session) ==
    /\ session \in live
    /\ live' = live \ {session}
    /\ UNCHANGED <<user, entered, request, seed, past, forgetful, unevicted, seedDied>>

-----------------------------------------------------------------------------
(* seed-admin.js.                                                          *)

SeedGoto(s, place) == seed' = [seed EXCEPT ![s] = place]

\* The script looks for the operator, and has nothing to do if there is one.
SeedLook(s) ==
    /\ seed[s] = "idle"
    /\ user = Null
    /\ SeedGoto(s, "found none")
    /\ UNCHANGED <<user, live, entered, request, past, forgetful, unevicted, seedDied>>

\* createUser looks again; it fails if there is one by now.
SeedLookAgain(s) ==
    /\ seed[s] = "found none"
    /\ SeedGoto(s, IF user = Null THEN "creating" ELSE "idle")
    /\ UNCHANGED <<user, live, entered, request, past, forgetful, unevicted, seedDied>>

\* userRepository.create: the unique index on emailIndex lets one in.
SeedCreate(s, password) ==
    /\ seed[s] = "creating"
    /\ IF user = Null
       THEN /\ user' = [hash |-> password, history |-> <<>>, mustChangePassword |-> FALSE]
            /\ SeedGoto(s, "marking")
       ELSE /\ SeedGoto(s, "idle")
            /\ UNCHANGED user
    /\ UNCHANGED <<live, entered, request, past, forgetful, unevicted, seedDied>>

\* A mutant: the script ends with the operator created.
SeedMarkNothing(s) ==
    /\ seed[s] = "marking"
    /\ SeedGoto(s, "idle")
    /\ UNCHANGED <<user, live, entered, request, past, forgetful, unevicted, seedDied>>

SeedMark(s) ==
    /\ seed[s] = "marking"
    /\ user' = [user EXCEPT !.mustChangePassword = TRUE]
    /\ SeedGoto(s, "idle")
    /\ UNCHANGED <<live, entered, request, past, forgetful, unevicted, seedDied>>

SeedDie(s) ==
    /\ seed[s] # "idle"
    /\ SeedGoto(s, "idle")
    /\ seedDied' = (seedDied \/ seed[s] = "marking")
    /\ UNCHANGED <<user, live, entered, request, past, forgetful, unevicted>>

-----------------------------------------------------------------------------
Serve(w) ==
    \/ LoginFind(w) \/ LoginOpen(w)
    \/ (\E session \in live : RefreshFind(w, session)) \/ RefreshRevoke(w) \/ RefreshInsert(w)
    \/ ChangeFind(w) \/ ChangeWrite(w) \/ Evict(w)
    \/ Crash(w)
    \/ \E p \in Passwords : LoginVerify(w, p) \/ ChangeVerify(w, p) \/ ChangeCompare(w, p)

RunSeed(s) ==
    \/ SeedLook(s) \/ SeedLookAgain(s) \/ SeedMark(s) \/ SeedDie(s)
    \/ \E p \in Passwords : SeedCreate(s, p)

Next ==
    \/ \E w \in Workers : Serve(w)
    \/ \E s \in Seeds : RunSeed(s)
    \/ \E session \in live : End(session)

Spec == Init /\ [][Next]_vars

-----------------------------------------------------------------------------
(* Properties.                                                             *)

\* "Password history of 10, no re-use" (auth.service.js): a change does not
\* bring back the password in force or one of its predecessors within the
\* history, whatever logins, seeds and deaths lie between.  It lasts until two
\* changes overlap: the later one then writes a history without the earlier.
RecentNotReused ==
    [][past' # past /\ ~forgetful'
          => user'.hash \notin Elements(Latest(<<user.hash>> \o past))]_vars

\* "A password change must evict an attacker who already holds a live session"
\* (auth.service.js), as far as it goes.  A session of a login with another
\* password than the one in force has escaped: when the sessions were revoked,
\* the login that opened it stood between findByEmailIndex and create, or a
\* refresh between findActiveByTokenHash and create.  Else the revocation is
\* about to come, or died with its process.
StaleSessionsExplained ==
    \A session \in live :
        session.password # user.hash =>
            \/ session.escaped
            \/ unevicted
            \/ \E w \in Workers : request[w].at = "evicting"

\* "The seeded admin is created with mustChangePassword: true"
\* (seed-admin.js): no login, concurrent seed or failed change clears the mark
\* of a seeded password.  It holds unless the script dies before the mark.
SeededIsOneTime ==
    \/ user = Null
    \/ past # <<>>
    \/ user.mustChangePassword
    \/ seedDied
    \/ \E s \in Seeds : seed[s] = "marking"
=============================================================================
