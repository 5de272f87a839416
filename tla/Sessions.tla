------------------------------ MODULE Sessions ------------------------------
(***************************************************************************)
(* The refresh-token sessions of one operator: what login, refresh, logout *)
(* and changePassword of the auth service do to the sessions collection,   *)
(* one awaited database operation at a time.                               *)
(*                                                                         *)
(* A session document is found by the hash of its token, so the collection *)
(* is a function on tokens; documents are revoked, never deleted, until    *)
(* MongoDB's TTL index reaps them.  A family, random in the code, is named *)
(* by its first token.  Of the password only the number of its changes is   *)
(* kept.  Any token ever issued may be presented at any time: by   *)
(* the browser that owns it, by a second tab, or again by a client whose   *)
(* answer was lost.                                                        *)
(*                                                                         *)
(* The login counters are in Login, and the access tokens, which outlive   *)
(* the revocation of their family, are left out.  parent, bornAt, burnt    *)
(* and evicted are auxiliary: they say what happened to each token.        *)
(***************************************************************************)
EXTENDS Integers, FiniteSets, FiniteSetsExt

CONSTANTS
    Workers,       \* requests that may be in flight at the same time
    Tokens,        \* refresh tokens
    AbsoluteTtl,   \* config.tokens.refreshTtl, in units of the clock
    IdleTimeout,   \* config.tokens.refreshIdleTimeout
    MaxTime,       \* bound: the clock stops here
    MaxPassword,   \* bound: password changes
    Crashes,       \* TRUE: a process may die with a request in flight
    Null

ASSUME TimeoutsAssumption ==
    /\ AbsoluteTtl \in Nat \ {0}
    /\ IdleTimeout \in Nat

ASSUME BoundsAssumption ==
    MaxTime \in Nat /\ MaxPassword \in Nat /\ Crashes \in BOOLEAN

VARIABLES
    sessions,   \* the sessions collection, by token
    user,       \* the operator's document: password changes and isActive
    now,        \* the clock of the processes and of the database
    request,    \* what each request in flight holds
    issued,     \* tokens ever issued
    parent,     \* the token a token was exchanged for, Null for a login's
    bornAt,     \* when a family was started
    burnt,      \* families revokeFamily was called on
    evicted     \* families revokeAllForUser found

history == <<issued, parent, bornAt>>
vars == <<sessions, user, now, request, history, burnt, evicted>>

Session == [family : Tokens, expiresAt : Nat, lastUsedAt : Nat, revoked : BOOLEAN]

ASSUME NullAssumption == Null \notin Tokens \cup Session

Places ==
    {"idle", "minting", "replayed", "burning", "lapsing", "admitting",
     "rotating", "exchanging", "hashing", "evicting"}

NoRequest == [at |-> "idle", token |-> Null, session |-> Null]

TypeOK ==
    /\ sessions \in [Tokens -> Session \cup {Null}]
    /\ user \in [password : Nat, isActive : BOOLEAN]
    /\ now \in Nat
    /\ request \in [Workers -> [at : Places, token : Tokens \cup {Null},
                                session : Session \cup {Null}]]
    /\ issued \subseteq Tokens
    /\ parent \in [Tokens -> Tokens \cup {Null}]
    /\ bornAt \in [Tokens -> Nat]
    /\ burnt \subseteq issued
    /\ evicted \subseteq issued

Init ==
    /\ sessions = [t \in Tokens |-> Null]
    /\ user = [password |-> 0, isActive |-> TRUE]
    /\ now = 0
    /\ request = [w \in Workers |-> NoRequest]
    /\ issued = {}
    /\ parent = [t \in Tokens |-> Null]
    /\ bornAt = [t \in Tokens |-> 0]
    /\ burnt = {}
    /\ evicted = {}

-----------------------------------------------------------------------------
(* The repository.                                                         *)

Exists(t) == sessions[t] # Null

Live(t) == Exists(t) /\ ~sessions[t].revoked /\ sessions[t].expiresAt > now

\* A mutant: revokedAt is not in the filter.
FindUnexpired(t) ==
    IF Exists(t) /\ sessions[t].expiresAt > now THEN sessions[t] ELSE Null

FindActive(t) == IF Live(t) THEN sessions[t] ELSE Null

\* updateMany: the documents of S still unrevoked.
Revoke(S) ==
    sessions' = [t \in Tokens |->
                    IF t \in S /\ Exists(t) THEN [sessions[t] EXCEPT !.revoked = TRUE]
                                            ELSE sessions[t]]

InFamily(f) == {t \in Tokens : Exists(t) /\ sessions[t].family = f}

Insert(t, family, expiresAt) ==
    sessions' = [sessions EXCEPT ![t] =
                    [family |-> family, expiresAt |-> expiresAt,
                     lastUsedAt |-> now, revoked |-> FALSE]]

-----------------------------------------------------------------------------
(* Requests.                                                               *)

\* Bound: no request starts that might find the tokens used up.
TokenLeft ==
    Cardinality(issued) + Cardinality({w \in Workers : request[w].at # "idle"})
        < Cardinality(Tokens)

Goto(w, place) == request' = [request EXCEPT ![w].at = place]

Finish(w) == request' = [request EXCEPT ![w] = NoRequest]

\* The right password for the user as read; the session follows two awaits
\* later (scrypt, and the write Login models).
LoginFind(w) ==
    /\ request[w].at = "idle"
    /\ user.isActive
    /\ TokenLeft
    /\ request' = [request EXCEPT ![w] = [NoRequest EXCEPT !.at = "minting"]]
    /\ UNCHANGED <<sessions, user, now, history, burnt, evicted>>

LoginCreate(w, t) ==
    /\ request[w].at = "minting"
    /\ t \notin issued
    /\ issued' = issued \cup {t}
    /\ Insert(t, t, now + AbsoluteTtl)
    /\ bornAt' = [bornAt EXCEPT ![t] = now]
    /\ Finish(w)
    /\ UNCHANGED <<user, now, parent, burnt, evicted>>

IdleTooLong(session) == now - session.lastUsedAt > IdleTimeout

\* findActiveByTokenHash, and the idle check on what it returned.
RefreshFind(w, t) ==
    /\ request[w].at = "idle"
    /\ t \in issued
    /\ LET session == FindActive(t)
           place == IF session = Null THEN "replayed"
                    ELSE IF IdleTooLong(session) THEN "lapsing"
                    ELSE "admitting"
       IN /\ place = "admitting" => TokenLeft
          /\ request' = [request EXCEPT ![w] = [NoRequest EXCEPT !.at = place,
                                            !.token = t, !.session = session]]
    /\ UNCHANGED <<sessions, user, now, history, burnt, evicted>>

\* No active session: findAnyByTokenHash.
RefreshFindAny(w) ==
    /\ request[w].at = "replayed"
    /\ IF Exists(request[w].token)
       THEN request' = [request EXCEPT ![w].at = "burning",
                                       ![w].session = sessions[request[w].token]]
       ELSE Finish(w)
    /\ UNCHANGED <<sessions, user, now, history, burnt, evicted>>

\* revokeFamily, for a replay, an inactive principal or a logout.
RevokeFamily(w) ==
    /\ request[w].at = "burning"
    /\ Revoke(InFamily(request[w].session.family))
    /\ burnt' = burnt \cup {request[w].session.family}
    /\ Finish(w)
    /\ UNCHANGED <<user, now, history, evicted>>

RevokeLapsed(w) ==
    /\ request[w].at = "lapsing"
    /\ Revoke({request[w].token})
    /\ Finish(w)
    /\ UNCHANGED <<user, now, history, burnt, evicted>>

RefreshFindUser(w) ==
    /\ request[w].at = "admitting"
    /\ Goto(w, IF user.isActive THEN "rotating" ELSE "burning")
    /\ UNCHANGED <<sessions, user, now, history, burnt, evicted>>

\* A mutant: the presented token stays good.
RotateNothing(w) ==
    /\ request[w].at = "rotating"
    /\ Goto(w, "exchanging")
    /\ UNCHANGED <<sessions, user, now, history, burnt, evicted>>

Rotate(w) ==
    /\ request[w].at = "rotating"
    /\ Revoke({request[w].token})
    /\ Goto(w, "exchanging")
    /\ UNCHANGED <<user, now, history, burnt, evicted>>

\* A mutant: the new token gets a full lifetime.
Uncapped(session) == now + AbsoluteTtl

CappedExpiry(session) == Min({now + AbsoluteTtl, session.expiresAt})

RefreshCreate(w, t) ==
    /\ request[w].at = "exchanging"
    /\ t \notin issued
    /\ issued' = issued \cup {t}
    /\ Insert(t, request[w].session.family, CappedExpiry(request[w].session))
    /\ parent' = [parent EXCEPT ![t] = request[w].token]
    /\ Finish(w)
    /\ UNCHANGED <<user, now, bornAt, burnt, evicted>>

\* A logout whose token is not active revokes nothing.
LogoutFind(w, t) ==
    /\ request[w].at = "idle"
    /\ FindActive(t) # Null
    /\ request' = [request EXCEPT ![w] = [NoRequest EXCEPT !.at = "burning",
                                    !.token = t, !.session = FindActive(t)]]
    /\ UNCHANGED <<sessions, user, now, history, burnt, evicted>>

\* authenticate has let the operator in, and the current password is right.
ChangeFind(w) ==
    /\ request[w].at = "idle"
    /\ user.isActive
    /\ user.password < MaxPassword
    /\ request' = [request EXCEPT ![w] = [NoRequest EXCEPT !.at = "hashing"]]
    /\ UNCHANGED <<sessions, user, now, history, burnt, evicted>>

ChangeWrite(w) ==
    /\ request[w].at = "hashing"
    /\ user' = [user EXCEPT !.password = @ + 1]
    /\ Goto(w, "evicting")
    /\ UNCHANGED <<sessions, now, history, burnt, evicted>>

FoundFamilies == {sessions[t].family : t \in {u \in Tokens : Exists(u)}}

\* A mutant: the sessions are left alone.
EvictNobody(w) ==
    /\ request[w].at = "evicting"
    /\ evicted' = evicted \cup FoundFamilies
    /\ Finish(w)
    /\ UNCHANGED <<sessions, user, now, history, burnt>>

RevokeAllForUser(w) ==
    /\ request[w].at = "evicting"
    /\ Revoke(Tokens)
    /\ evicted' = evicted \cup FoundFamilies
    /\ Finish(w)
    /\ UNCHANGED <<user, now, history, burnt>>

-----------------------------------------------------------------------------
(* The environment.                                                        *)

Crash(w) ==
    /\ Crashes
    /\ request[w].at # "idle"
    /\ Finish(w)
    /\ UNCHANGED <<sessions, user, now, history, burnt, evicted>>

\* External: an administrator (de)activates the operator in the database.
SetActive ==
    /\ user' = [user EXCEPT !.isActive = ~@]
    /\ UNCHANGED <<sessions, now, request, history, burnt, evicted>>

\* A mutant: revoked documents are cleaned up too.
ReapRevoked(t) ==
    /\ Exists(t)
    /\ sessions[t].revoked \/ sessions[t].expiresAt <= now
    /\ sessions' = [sessions EXCEPT ![t] = Null]
    /\ UNCHANGED <<user, now, request, history, burnt, evicted>>

\* The TTL index deletes a document some time after it expired.
Reap(t) ==
    /\ Exists(t)
    /\ sessions[t].expiresAt <= now
    /\ sessions' = [sessions EXCEPT ![t] = Null]
    /\ UNCHANGED <<user, now, request, history, burnt, evicted>>

Tick ==
    /\ now < MaxTime
    /\ now' = now + 1
    /\ UNCHANGED <<sessions, user, request, history, burnt, evicted>>

Serve(w) ==
    \/ LoginFind(w)
    \/ RefreshFindAny(w)
    \/ RevokeFamily(w)
    \/ RevokeLapsed(w)
    \/ RefreshFindUser(w)
    \/ Rotate(w)
    \/ ChangeFind(w)
    \/ ChangeWrite(w)
    \/ RevokeAllForUser(w)
    \/ Crash(w)
    \/ \E t \in Tokens :
          \/ LoginCreate(w, t)
          \/ RefreshFind(w, t)
          \/ RefreshCreate(w, t)
          \/ LogoutFind(w, t)

Next ==
    \/ \E w \in Workers : Serve(w)
    \/ \E t \in Tokens : Reap(t)
    \/ SetActive
    \/ Tick

Spec == Init /\ [][Next]_vars

-----------------------------------------------------------------------------
(* Properties.                                                             *)

\* "Refreshing can never extend a session past its absolute timeout": however
\* refreshes interleave, die or repeat, no document outlives the login that
\* started its family by more than the refresh token's lifetime.
AbsoluteTimeout ==
    \A t \in Tokens :
        Exists(t) => sessions[t].expiresAt <= bornAt[sessions[t].family] + AbsoluteTtl

\* What reuse detection stands on: as long as a token is live, the document
\* of the token it was exchanged for is still there to be recognised (the TTL
\* index has not reaped it), it is revoked, and it names the same family.
ReuseIsTraceable ==
    \A t \in Tokens :
        Live(t) /\ parent[t] # Null
            => /\ Exists(parent[t])
               /\ sessions[parent[t]].revoked
               /\ sessions[parent[t]].family = sessions[t].family

\* Rotation replaces: a family never has two live tokens.
OneLivePerFamily ==
    \A t, u \in Tokens :
        Live(t) /\ Live(u) /\ sessions[t].family = sessions[u].family => t = u

\* A family that was logged out, or burnt on reuse, has no live token again.
BurntStaysBurnt == \A t \in Tokens : Live(t) => sessions[t].family \notin burnt

\* "Every existing session is invalidated: a password change must evict an
\* attacker who already holds a live session" (auth.service.js), for good: a
\* family the change found has no live token again.
EvictedStaysEvicted ==
    \A t \in Tokens : Live(t) => sessions[t].family \notin evicted

-----------------------------------------------------------------------------
(* What makes AbsoluteTimeout and ReuseIsTraceable inductive: what the     *)
(* copies that requests hold, and the documents the TTL index has deleted, *)
(* still say about the documents that are there.                           *)

OnlyIssued ==
    \A t \in Tokens :
        /\ Exists(t) => t \in issued /\ sessions[t].family \in issued
        /\ parent[t] # Null => t \in issued /\ parent[t] \in issued

\* Places a request reaches with a session it has read.
HoldingSession == {"burning", "lapsing", "admitting", "rotating", "exchanging"}

RequestShape ==
    \A w \in Workers :
        /\ request[w].token # Null => request[w].token \in issued
        /\ request[w].at \in HoldingSession \cup {"replayed"} => request[w].token # Null
        /\ request[w].at \in HoldingSession => request[w].session # Null

\* No copy says more than its login's lifetime either.
CopiesBounded ==
    \A w \in Workers :
        LET session == request[w].session
        IN session # Null =>
              /\ session.family \in issued
              /\ session.expiresAt <= bornAt[session.family] + AbsoluteTtl

\* Token t's document, of that family, lasts until the time given at least, or
\* that time has come and the TTL index may have taken it.
OutlivedBy(t, family, time) ==
    \/ time <= now
    \/ Exists(t) /\ sessions[t].family = family /\ time <= sessions[t].expiresAt

\* A token expires no later than the revoked one it was exchanged for.
Descent ==
    \A t \in Tokens :
        Exists(t) /\ parent[t] # Null =>
            /\ OutlivedBy(parent[t], sessions[t].family, sessions[t].expiresAt)
            /\ Exists(parent[t]) => sessions[parent[t]].revoked

\* So will the token a refresh is about to issue.
PendingExchange ==
    \A w \in Workers :
        LET r == request[w]
        IN r.at \in {"admitting", "rotating", "exchanging"} =>
              /\ OutlivedBy(r.token, r.session.family, r.session.expiresAt)
              /\ r.at = "exchanging" /\ Exists(r.token) => sessions[r.token].revoked

\* Holds in every reachable state, and every step preserves it.
IndInv ==
    /\ TypeOK
    /\ OnlyIssued
    /\ RequestShape
    /\ AbsoluteTimeout
    /\ CopiesBounded
    /\ Descent
    /\ PendingExchange
=============================================================================
