--------------------------- MODULE SessionsProofs ---------------------------
(***************************************************************************)
(* Theorems about Sessions, for any number of requests in flight and of    *)
(* tokens, any two timeouts, every bound, and with or without crashes; and *)
(* the three that two requests at once break, for one request at a time.   *)
(***************************************************************************)
EXTENDS Sessions, TLAPS

-----------------------------------------------------------------------------
(* The operators.                                                          *)

\* The smaller of two times.
LEMMA MinOfTwo ==
    ASSUME NEW a \in Nat, NEW b \in Nat
    PROVE  /\ Min({a, b}) \in Nat
           /\ Min({a, b}) <= a
           /\ Min({a, b}) <= b
<1>1. \E x \in {a, b} : \A y \in {a, b} : x =< y
  <2>1. CASE a <= b
    BY <2>1
  <2>2. CASE ~(a <= b)
    BY <2>2
  <2> QED
    BY <2>1, <2>2
<1>2. Min({a, b}) \in {a, b} /\ \A y \in {a, b} : Min({a, b}) =< y
  BY <1>1 DEF Min
<1> QED
  BY <1>2

\* A successor's expiry is a time, and no later than its predecessor's.
LEMMA CappedExpiryBounds ==
    ASSUME TypeOK, NEW session \in Session
    PROVE  /\ CappedExpiry(session) \in Nat
           /\ CappedExpiry(session) <= session.expiresAt
<1>1. now + AbsoluteTtl \in Nat /\ session.expiresAt \in Nat
  BY TimeoutsAssumption DEF TypeOK, Session
<1> QED
  BY <1>1, MinOfTwo DEF CappedExpiry

\* Revoking changes nothing but the revoked flag, and only sets it.
LEMMA RevokeKeeps ==
    ASSUME TypeOK, NEW S, Revoke(S)
    PROVE  /\ sessions' \in [Tokens -> Session \cup {Null}]
           /\ \A t \in Tokens :
                 /\ sessions'[t] = Null <=> sessions[t] = Null
                 /\ sessions[t] # Null =>
                       /\ sessions'[t].family = sessions[t].family
                       /\ sessions'[t].expiresAt = sessions[t].expiresAt
                       /\ sessions[t].revoked => sessions'[t].revoked
                       /\ t \in S => sessions'[t].revoked
<1>1. sessions \in [Tokens -> Session \cup {Null}] /\ Null \notin Session
  BY NullAssumption DEF TypeOK
<1>2. \A t \in Tokens : sessions'[t] = IF t \in S /\ sessions[t] # Null
                                        THEN [sessions[t] EXCEPT !.revoked = TRUE]
                                        ELSE sessions[t]
  BY DEF Revoke, Exists
<1>3. \A doc \in Session : [doc EXCEPT !.revoked = TRUE] \in Session
  BY DEF Session
<1>4. \A t \in Tokens : sessions'[t] \in Session \cup {Null}
  BY <1>1, <1>2, <1>3
<1>5. sessions' \in [Tokens -> Session \cup {Null}]
  BY <1>4 DEF Revoke
<1>6. ASSUME NEW t \in Tokens
      PROVE  /\ sessions'[t] = Null <=> sessions[t] = Null
             /\ sessions[t] # Null =>
                   /\ sessions'[t].family = sessions[t].family
                   /\ sessions'[t].expiresAt = sessions[t].expiresAt
                   /\ sessions[t].revoked => sessions'[t].revoked
                   /\ t \in S => sessions'[t].revoked
  <2>1. CASE t \in S /\ sessions[t] # Null
    <3>1. sessions'[t] = [sessions[t] EXCEPT !.revoked = TRUE] /\ sessions[t] \in Session
      BY <1>1, <1>2, <2>1
    <3> QED
      BY <1>1, <1>3, <2>1, <3>1 DEF Session
  <2>2. CASE ~(t \in S /\ sessions[t] # Null)
    BY <1>2, <2>2
  <2> QED
    BY <2>1, <2>2
<1> QED
  BY <1>5, <1>6

-----------------------------------------------------------------------------
(* Type correctness.                                                       *)

\* The empty database is well typed.
LEMMA InitType == Init => TypeOK
BY TimeoutsAssumption DEF Init, TypeOK, NoRequest, Places

\* A new document is well typed and lands in an empty place.
LEMMA InsertType ==
    ASSUME TypeOK, NEW t \in Tokens, NEW family \in Tokens, NEW expiresAt \in Nat,
           Insert(t, family, expiresAt)
    PROVE  /\ sessions' \in [Tokens -> Session \cup {Null}]
           /\ sessions'[t] \in Session
           /\ sessions'[t].family = family
           /\ sessions'[t].expiresAt = expiresAt
           /\ \A u \in Tokens \ {t} : sessions'[u] = sessions[u]
<1> DEFINE doc == [family |-> family, expiresAt |-> expiresAt,
                   lastUsedAt |-> now, revoked |-> FALSE]
<1>1. doc \in Session
  BY DEF TypeOK, Session
<1>2. sessions' = [sessions EXCEPT ![t] = doc]
  BY DEF Insert
<1>3. doc.family = family /\ doc.expiresAt = expiresAt
  OBVIOUS
<1> HIDE DEF doc
<1> QED
  BY <1>1, <1>2, <1>3 DEF TypeOK

Request ==
    [at : Places, token : Tokens \cup {Null}, session : Session \cup {Null}]

\* A request that moves on, or comes to its end, is a request.
LEMMA RequestMoves ==
    ASSUME TypeOK, NEW w \in Workers, NEW place \in Places
    PROVE  /\ Goto(w, place) => request' \in [Workers -> Request]
           /\ Finish(w) => request' \in [Workers -> Request]
<1>1. request[w] \in Request
  BY DEF TypeOK, Request
<1>2. [request[w] EXCEPT !.at = place] \in Request
  BY <1>1 DEF Request
<1>3. NoRequest \in Request
  BY DEF NoRequest, Request, Places
<1> QED
  BY <1>2, <1>3 DEF TypeOK, Request, Goto, Finish

\* What a request that has read a session has in hand.
LEMMA InHand ==
    ASSUME IndInv, NEW w \in Workers
    PROVE  /\ request[w].at \in HoldingSession =>
                 /\ request[w].session \in Session
                 /\ request[w].session.family \in Tokens
                 /\ request[w].session.family \in issued
           /\ request[w].at \in HoldingSession \cup {"replayed"} =>
                 request[w].token \in issued /\ request[w].token \in Tokens
<1>1. request[w].session \in Session \cup {Null} /\ request[w].token \in Tokens \cup {Null}
  BY DEF IndInv, TypeOK
<1> QED
  BY <1>1 DEF IndInv, RequestShape, CopiesBounded, Session

\* Every step is well typed.
LEMMA TypeStep == IndInv /\ [Next]_vars => TypeOK'
<1> SUFFICES ASSUME IndInv, [Next]_vars
             PROVE  TypeOK'
  OBVIOUS
<1>t. TypeOK
  BY DEF IndInv
<1> USE DEF Request
<1>1. ASSUME NEW w \in Workers, Serve(w)
      PROVE  TypeOK'
  <2>a. NoRequest.token = Null /\ NoRequest.session = Null
    BY DEF NoRequest
  <2>b. CASE LoginFind(w)
    <3>1. [NoRequest EXCEPT !.at = "minting"] \in Request
      BY DEF NoRequest, Places
    <3> QED
      BY <1>t, <2>b, <3>1 DEF LoginFind, TypeOK, history
  <2>c. CASE RefreshFindAny(w)
    <3>1. request' \in [Workers -> Request]
      <4>1. CASE Exists(request[w].token)
        <5>1. request[w].token \in Tokens
          BY <2>c, InHand DEF RefreshFindAny
        <5>2. sessions[request[w].token] \in Session \cup {Null}
          BY <1>t, <5>1 DEF TypeOK
        <5>3. [request[w] EXCEPT !.at = "burning", !.session = sessions[request[w].token]]
                 \in Request
          <6>1. request[w] \in Request
            BY <1>t DEF TypeOK
          <6> QED
            BY <5>2, <6>1 DEF Places
        <5> QED
          BY <1>t, <2>c, <4>1, <5>3 DEF RefreshFindAny, TypeOK
      <4>2. CASE ~Exists(request[w].token)
        BY <1>t, <2>c, <4>2, RequestMoves DEF RefreshFindAny, Places
      <4> QED
        BY <4>1, <4>2
    <3> QED
      BY <1>t, <2>c, <3>1 DEF RefreshFindAny, TypeOK, history
  <2>d. CASE RevokeFamily(w)
    <3>1. request' \in [Workers -> Request]
      BY <1>t, <2>d, RequestMoves DEF RevokeFamily, Places
    <3>2. sessions' \in [Tokens -> Session \cup {Null}]
      BY <1>t, <2>d, RevokeKeeps DEF RevokeFamily
    <3>3. burnt' \subseteq issued'
      BY <1>t, <2>d, InHand DEF RevokeFamily, HoldingSession, TypeOK, history
    <3> QED
      BY <1>t, <2>d, <3>1, <3>2, <3>3 DEF RevokeFamily, TypeOK, history
  <2>e. CASE RevokeLapsed(w)
    <3>1. request' \in [Workers -> Request]
      BY <1>t, <2>e, RequestMoves DEF RevokeLapsed, Places
    <3>2. sessions' \in [Tokens -> Session \cup {Null}]
      BY <1>t, <2>e, RevokeKeeps DEF RevokeLapsed
    <3> QED
      BY <1>t, <2>e, <3>1, <3>2 DEF RevokeLapsed, TypeOK, history
  <2>f. CASE RefreshFindUser(w)
    <3>1. request' \in [Workers -> Request]
      BY <1>t, <2>f, RequestMoves DEF RefreshFindUser, Places
    <3> QED
      BY <1>t, <2>f, <3>1 DEF RefreshFindUser, TypeOK, history
  <2>g. CASE Rotate(w)
    <3>1. request' \in [Workers -> Request]
      BY <1>t, <2>g, RequestMoves DEF Rotate, Places
    <3>2. sessions' \in [Tokens -> Session \cup {Null}]
      BY <1>t, <2>g, RevokeKeeps DEF Rotate
    <3> QED
      BY <1>t, <2>g, <3>1, <3>2 DEF Rotate, TypeOK, history
  <2>h. CASE ChangeFind(w)
    <3>1. [NoRequest EXCEPT !.at = "hashing"] \in Request
      BY DEF NoRequest, Places
    <3> QED
      BY <1>t, <2>h, <3>1 DEF ChangeFind, TypeOK, history
  <2>i. CASE ChangeWrite(w)
    <3>1. request' \in [Workers -> Request]
      BY <1>t, <2>i, RequestMoves DEF ChangeWrite, Places
    <3>2. user' \in [password : Nat, isActive : BOOLEAN]
      BY <1>t, <2>i DEF ChangeWrite, TypeOK
    <3> QED
      BY <1>t, <2>i, <3>1, <3>2 DEF ChangeWrite, TypeOK, history
  <2>j. CASE RevokeAllForUser(w)
    <3>1. request' \in [Workers -> Request]
      BY <1>t, <2>j, RequestMoves DEF RevokeAllForUser, Places
    <3>2. sessions' \in [Tokens -> Session \cup {Null}]
      BY <1>t, <2>j, RevokeKeeps DEF RevokeAllForUser
    <3>3. FoundFamilies \subseteq issued
      BY DEF FoundFamilies, IndInv, OnlyIssued
    <3> QED
      BY <1>t, <2>j, <3>1, <3>2, <3>3 DEF RevokeAllForUser, TypeOK, history
  <2>k. CASE Crash(w)
    <3>1. request' \in [Workers -> Request]
      BY <1>t, <2>k, RequestMoves DEF Crash, Places
    <3> QED
      BY <1>t, <2>k, <3>1 DEF Crash, TypeOK, history
  <2>l. ASSUME NEW t \in Tokens, LoginCreate(w, t)
        PROVE  TypeOK'
    <3>1. request' \in [Workers -> Request]
      BY <1>t, <2>l, RequestMoves DEF LoginCreate, Places
    <3>2. now + AbsoluteTtl \in Nat
      BY <1>t, TimeoutsAssumption DEF TypeOK
    <3>3. sessions' \in [Tokens -> Session \cup {Null}]
      BY <1>t, <2>l, <3>2, InsertType DEF LoginCreate
    <3> QED
      BY <1>t, <2>l, <3>1, <3>3 DEF LoginCreate, TypeOK
  <2>m. ASSUME NEW t \in Tokens, RefreshFind(w, t)
        PROVE  TypeOK'
    <3>1. PICK place \in Places :
             request' = [request EXCEPT ![w] = [NoRequest EXCEPT !.at = place,
                                       !.token = t, !.session = FindActive(t)]]
      BY <2>m DEF RefreshFind, Places
    <3>2. FindActive(t) \in Session \cup {Null}
      BY <1>t DEF FindActive, TypeOK
    <3>3. [NoRequest EXCEPT !.at = place, !.token = t, !.session = FindActive(t)] \in Request
      BY <3>2 DEF NoRequest
    <3> QED
      BY <1>t, <2>m, <3>1, <3>3 DEF RefreshFind, TypeOK, history
  <2>n. ASSUME NEW t \in Tokens, RefreshCreate(w, t)
        PROVE  TypeOK'
    <3>1. request' \in [Workers -> Request]
      BY <1>t, <2>n, RequestMoves DEF RefreshCreate, Places
    <3>2. /\ request[w].session \in Session
          /\ request[w].session.family \in Tokens
          /\ request[w].token \in Tokens
      BY <2>n, InHand DEF RefreshCreate, HoldingSession
    <3>3. CappedExpiry(request[w].session) \in Nat
      BY <1>t, <3>2, CappedExpiryBounds
    <3>4. sessions' \in [Tokens -> Session \cup {Null}]
      BY <1>t, <2>n, <3>2, <3>3, InsertType DEF RefreshCreate
    <3> QED
      BY <1>t, <2>n, <3>1, <3>2, <3>4 DEF RefreshCreate, TypeOK
  <2>o. ASSUME NEW t \in Tokens, LogoutFind(w, t)
        PROVE  TypeOK'
    <3>1. FindActive(t) \in Session \cup {Null}
      BY <1>t DEF FindActive, TypeOK
    <3>2. [NoRequest EXCEPT !.at = "burning", !.token = t, !.session = FindActive(t)]
             \in Request
      BY <3>1 DEF NoRequest, Places
    <3> QED
      BY <1>t, <2>o, <3>2 DEF LogoutFind, TypeOK, history
  <2> QED
    BY <1>1, <2>b, <2>c, <2>d, <2>e, <2>f, <2>g, <2>h, <2>i, <2>j, <2>k, <2>l, <2>m,
       <2>n, <2>o DEF Serve
<1>2. ASSUME NEW t \in Tokens, Reap(t)
      PROVE  TypeOK'
  BY <1>t, <1>2 DEF Reap, TypeOK, history
<1>3. CASE SetActive
  BY <1>t, <1>3 DEF SetActive, TypeOK, history
<1>4. CASE Tick
  BY <1>t, <1>4 DEF Tick, TypeOK, history
<1>5. CASE UNCHANGED vars
  BY <1>t, <1>5 DEF vars, TypeOK, history
<1> QED
  BY <1>1, <1>2, <1>3, <1>4, <1>5 DEF Next

-----------------------------------------------------------------------------
(* What a step can do to the collection.                                   *)

\* A refresh or a login adds the document of a new token.
Adds(w, t) == LoginCreate(w, t) \/ RefreshCreate(w, t)

\* Every other step leaves the tokens alone and revokes, deletes what has
\* expired, or does not touch the collection.
LEMMA CollectionStep ==
    ASSUME [Next]_vars
    PROVE  \/ \E w \in Workers : \E t \in Tokens : Adds(w, t)
           \/ /\ UNCHANGED history
              /\ \/ UNCHANGED sessions
                 \/ \E S \in SUBSET Tokens : Revoke(S) /\ now' = now
                 \/ \E t \in Tokens : Reap(t)
<1>1. ASSUME NEW w \in Workers, Serve(w)
      PROVE  \/ \E t \in Tokens : Adds(w, t)
             \/ /\ UNCHANGED history
                /\ \/ UNCHANGED sessions
                   \/ \E S \in SUBSET Tokens : Revoke(S) /\ now' = now
  <2>1. CASE \/ LoginFind(w) \/ RefreshFindAny(w) \/ RefreshFindUser(w) \/ ChangeFind(w)
             \/ ChangeWrite(w) \/ Crash(w)
             \/ \E t \in Tokens : RefreshFind(w, t) \/ LogoutFind(w, t)
    BY <2>1 DEF LoginFind, RefreshFindAny, RefreshFindUser, ChangeFind, ChangeWrite,
                Crash, RefreshFind, LogoutFind
  <2>2. CASE RevokeFamily(w)
    <3>1. InFamily(request[w].session.family) \in SUBSET Tokens
      BY DEF InFamily
    <3> QED
      BY <2>2, <3>1 DEF RevokeFamily
  <2>3. CASE RevokeLapsed(w) \/ Rotate(w)
    <3>1. Revoke({request[w].token}) /\ now' = now /\ UNCHANGED history
      BY <2>3 DEF RevokeLapsed, Rotate
    <3>2. Revoke({request[w].token} \cap Tokens)
      BY <3>1 DEF Revoke
    <3> QED
      BY <3>1, <3>2
  <2>4. CASE RevokeAllForUser(w)
    BY <2>4 DEF RevokeAllForUser
  <2>5. CASE \E t \in Tokens : LoginCreate(w, t) \/ RefreshCreate(w, t)
    BY <2>5 DEF Adds
  <2> QED
    BY <1>1, <2>1, <2>2, <2>3, <2>4, <2>5 DEF Serve
<1>2. CASE \E t \in Tokens : Reap(t)
  BY <1>2 DEF Reap
<1>3. CASE SetActive \/ Tick \/ UNCHANGED vars
  BY <1>3 DEF SetActive, Tick, vars
<1> QED
  BY <1>1, <1>2, <1>3 DEF Next

\* The clock never goes back, and stands still while a document is added.
LEMMA ClockStep ==
    ASSUME TypeOK, [Next]_vars
    PROVE  /\ now \in Nat /\ now' \in Nat /\ now <= now'
           /\ \A w \in Workers, t \in Tokens : Adds(w, t) => now' = now
<1>1. now \in Nat
  BY DEF TypeOK
<1>2. now' = now \/ now' = now + 1
  <2>1. ASSUME NEW w \in Workers, Serve(w)
        PROVE  now' = now
    BY <2>1 DEF Serve, LoginFind, RefreshFindAny, RefreshFindUser, ChangeFind, ChangeWrite,
                Crash, RefreshFind, LogoutFind, RevokeFamily, RevokeLapsed, Rotate,
                RevokeAllForUser, LoginCreate, RefreshCreate
  <2> QED
    BY <2>1 DEF Next, Reap, SetActive, Tick, vars
<1>3. \A w \in Workers, t \in Tokens : Adds(w, t) => now' = now
  BY DEF Adds, LoginCreate, RefreshCreate
<1> QED
  BY <1>1, <1>2, <1>3

\* A document that is added is a new token's: a login's starts a family, a
\* refresh's continues the one of the session it read, within its lifetime.
LEMMA AddedDocument ==
    ASSUME IndInv, NEW w \in Workers, NEW t \in Tokens, Adds(w, t)
    PROVE  /\ t \notin issued
           /\ issued' = issued \cup {t}
           /\ \A u \in Tokens \ {t} : sessions'[u] = sessions[u]
           /\ LoginCreate(w, t) =>
                 /\ sessions'[t].family = t
                 /\ sessions'[t].expiresAt = now + AbsoluteTtl
                 /\ parent' = parent
                 /\ bornAt' = [bornAt EXCEPT ![t] = now]
           /\ RefreshCreate(w, t) =>
                 /\ sessions'[t].family = request[w].session.family
                 /\ sessions'[t].expiresAt \in Nat
                 /\ sessions'[t].expiresAt <= request[w].session.expiresAt
                 /\ parent' = [parent EXCEPT ![t] = request[w].token]
                 /\ bornAt' = bornAt
<1>t. TypeOK
  BY DEF IndInv
<1>1. CASE LoginCreate(w, t)
  <2>1. now + AbsoluteTtl \in Nat
    BY <1>t, TimeoutsAssumption DEF TypeOK
  <2>2. Insert(t, t, now + AbsoluteTtl)
    BY <1>1 DEF LoginCreate
  <2> QED
    BY <1>t, <1>1, <2>1, <2>2, InsertType DEF LoginCreate, RefreshCreate
<1>2. CASE RefreshCreate(w, t)
  <2>1. request[w].session \in Session /\ request[w].session.family \in Tokens
    BY <1>2, InHand DEF RefreshCreate, HoldingSession
  <2>2. /\ CappedExpiry(request[w].session) \in Nat
        /\ CappedExpiry(request[w].session) <= request[w].session.expiresAt
    BY <1>t, <2>1, CappedExpiryBounds
  <2>3. Insert(t, request[w].session.family, CappedExpiry(request[w].session))
    BY <1>2 DEF RefreshCreate
  <2> QED
    BY <1>t, <1>2, <2>1, <2>2, <2>3, InsertType DEF LoginCreate, RefreshCreate
<1> QED
  BY <1>1, <1>2 DEF Adds

\* An issued token's document is never added again, keeps its family and
\* expiry, stays revoked, and is deleted only once it has expired.  What is
\* recorded of an issued token does not change.
LEMMA IssuedStep ==
    ASSUME IndInv, [Next]_vars, NEW t \in issued
    PROVE  /\ t \in Tokens
           /\ t \in issued'
           /\ parent'[t] = parent[t]
           /\ bornAt'[t] = bornAt[t]
           /\ sessions'[t] # Null =>
                 /\ sessions[t] # Null
                 /\ sessions'[t].family = sessions[t].family
                 /\ sessions'[t].expiresAt = sessions[t].expiresAt
                 /\ sessions[t].revoked => sessions'[t].revoked
           /\ sessions[t] # Null /\ sessions'[t] = Null =>
                 sessions[t].expiresAt <= now
<1>t. TypeOK
  BY DEF IndInv
<1>i. t \in Tokens
  BY <1>t DEF TypeOK
<1>1. ASSUME NEW w \in Workers, NEW u \in Tokens, Adds(w, u)
      PROVE  /\ t # u /\ t \in issued'
             /\ sessions'[t] = sessions[t] /\ parent'[t] = parent[t] /\ bornAt'[t] = bornAt[t]
  <2>1. t # u /\ t \in issued' /\ sessions'[t] = sessions[t]
    BY <1>1, <1>i, AddedDocument
  <2>2. parent' = parent \/ parent' = [parent EXCEPT ![u] = request[w].token]
    BY <1>1, AddedDocument DEF Adds
  <2>3. bornAt' = bornAt \/ bornAt' = [bornAt EXCEPT ![u] = now]
    BY <1>1, AddedDocument DEF Adds
  <2> QED
    BY <1>t, <1>i, <2>1, <2>2, <2>3 DEF TypeOK
<1>2. ASSUME UNCHANGED history, UNCHANGED sessions
      PROVE  /\ t \in issued' /\ sessions'[t] = sessions[t]
             /\ parent'[t] = parent[t] /\ bornAt'[t] = bornAt[t]
  BY <1>2 DEF history
<1>3. ASSUME UNCHANGED history, NEW S \in SUBSET Tokens, Revoke(S)
      PROVE  /\ t \in issued' /\ parent'[t] = parent[t] /\ bornAt'[t] = bornAt[t]
             /\ sessions'[t] = Null <=> sessions[t] = Null
             /\ sessions[t] # Null =>
                   /\ sessions'[t].family = sessions[t].family
                   /\ sessions'[t].expiresAt = sessions[t].expiresAt
                   /\ sessions[t].revoked => sessions'[t].revoked
  BY <1>t, <1>i, <1>3, RevokeKeeps DEF history
<1>4. ASSUME UNCHANGED history, NEW u \in Tokens, Reap(u)
      PROVE  /\ t \in issued' /\ parent'[t] = parent[t] /\ bornAt'[t] = bornAt[t]
             /\ \/ sessions'[t] = sessions[t]
                \/ sessions'[t] = Null /\ sessions[t].expiresAt <= now
  <2>1. CASE t = u
    BY <1>t, <1>i, <1>4, <2>1 DEF history, Reap, TypeOK
  <2>2. CASE t # u
    BY <1>t, <1>i, <1>4, <2>2 DEF history, Reap, TypeOK
  <2> QED
    BY <2>1, <2>2
<1> QED
  BY <1>i, <1>1, <1>2, <1>3, <1>4, CollectionStep

\* So what is known of a token's lifetime stays true.
LEMMA OutlivedStep ==
    ASSUME IndInv, [Next]_vars, NEW t \in issued, NEW family, NEW time \in Nat,
           OutlivedBy(t, family, time)
    PROVE  /\ \/ time <= now'
              \/ /\ sessions'[t] # Null
                 /\ sessions'[t].family = family
                 /\ time <= sessions'[t].expiresAt
           /\ (sessions[t] # Null => sessions[t].revoked)
                 => (sessions'[t] # Null => sessions'[t].revoked)
<1>1. now \in Nat /\ now' \in Nat /\ now <= now'
  BY ClockStep DEF IndInv
<1>2. sessions[t] # Null => sessions[t].expiresAt \in Nat
  <2>1. t \in Tokens /\ sessions[t] \in Session \cup {Null}
    BY IssuedStep DEF IndInv, TypeOK
  <2> QED
    BY <2>1 DEF Session
<1>3. CASE time <= now
  BY <1>1, <1>3, IssuedStep
<1>4. CASE /\ sessions[t] # Null /\ sessions[t].family = family
           /\ time <= sessions[t].expiresAt
  BY <1>1, <1>2, <1>4, IssuedStep
<1> QED
  BY <1>3, <1>4 DEF OutlivedBy, Exists

-----------------------------------------------------------------------------
(* The collection's part of the invariant.                                 *)

\* Documents, families and parents are issued tokens.
LEMMA OnlyIssuedStep == IndInv /\ [Next]_vars => OnlyIssued'
<1> SUFFICES ASSUME IndInv, [Next]_vars, NEW t \in Tokens
             PROVE  /\ sessions'[t] # Null =>
                          t \in issued' /\ sessions'[t].family \in issued'
                    /\ parent'[t] # Null => t \in issued' /\ parent'[t] \in issued'
  BY DEF OnlyIssued, Exists
<1>o. /\ sessions[t] # Null => t \in issued /\ sessions[t].family \in issued
      /\ parent[t] # Null => t \in issued /\ parent[t] \in issued
  BY DEF IndInv, OnlyIssued, Exists
<1>1. CASE t \in issued
  BY <1>1, <1>o, IssuedStep
<1>2. CASE t \notin issued
  <2>1. sessions[t] = Null /\ parent[t] = Null
    BY <1>2, <1>o
  <2>2. ASSUME NEW w \in Workers, NEW u \in Tokens, Adds(w, u)
        PROVE  /\ sessions'[t] # Null =>
                     t \in issued' /\ sessions'[t].family \in issued'
               /\ parent'[t] # Null => t \in issued' /\ parent'[t] \in issued'
    <3>1. CASE t = u
      <4>1. CASE LoginCreate(w, u)
        <5>1. sessions'[u].family = u /\ parent' = parent /\ issued' = issued \cup {u}
          BY <2>2, <4>1, AddedDocument
        <5> QED
          BY <2>1, <3>1, <5>1
      <4>2. CASE RefreshCreate(w, u)
        <5>1. request[w].session.family \in issued /\ request[w].token \in issued
          BY <4>2, InHand DEF RefreshCreate, HoldingSession
        <5>2. parent' = [parent EXCEPT ![u] = request[w].token] /\ issued' = issued \cup {u}
          BY <4>2 DEF RefreshCreate
        <5>3. sessions'[u].family = request[w].session.family
          BY <2>2, <4>2, AddedDocument
        <5>4. parent \in [Tokens -> Tokens \cup {Null}]
          BY DEF IndInv, TypeOK
        <5> QED
          BY <3>1, <5>1, <5>2, <5>3, <5>4
      <4> QED
        BY <2>2, <4>1, <4>2 DEF Adds
    <3>2. CASE t # u
      <4>1. sessions'[t] = Null
        BY <2>1, <2>2, <3>2, AddedDocument
      <4>2. parent' = parent \/ parent' = [parent EXCEPT ![u] = request[w].token]
        BY <2>2, AddedDocument DEF Adds
      <4>3. parent'[t] = Null
        BY <2>1, <3>2, <4>2 DEF IndInv, TypeOK
      <4> QED
        BY <4>1, <4>3
    <3> QED
      BY <3>1, <3>2
  <2>3. ASSUME UNCHANGED history, UNCHANGED sessions \/ \E u \in Tokens : Reap(u)
        PROVE  sessions'[t] = Null /\ parent'[t] = Null
    BY <2>1, <2>3 DEF history, Reap, IndInv, TypeOK
  <2>4. ASSUME UNCHANGED history, NEW S \in SUBSET Tokens, Revoke(S)
        PROVE  sessions'[t] = Null /\ parent'[t] = Null
    BY <2>1, <2>4, RevokeKeeps DEF history, IndInv
  <2> QED
    BY <2>2, <2>3, <2>4, CollectionStep
<1> QED
  BY <1>1, <1>2

\* A document is an issued token's, and an added one starts within the bound.
LEMMA TimeoutStep == IndInv /\ [Next]_vars => AbsoluteTimeout'
<1> SUFFICES ASSUME IndInv, [Next]_vars, NEW t \in Tokens, sessions'[t] # Null
             PROVE  sessions'[t].expiresAt <= bornAt'[sessions'[t].family] + AbsoluteTtl
  BY DEF AbsoluteTimeout, Exists
<1>t. bornAt \in [Tokens -> Nat] /\ now \in Nat /\ issued \subseteq Tokens /\ AbsoluteTtl \in Nat
  BY TimeoutsAssumption DEF IndInv, TypeOK
<1>1. CASE t \in issued
  <2>1. /\ sessions[t] # Null
        /\ sessions'[t].family = sessions[t].family
        /\ sessions'[t].expiresAt = sessions[t].expiresAt
    BY <1>1, IssuedStep
  <2>2. /\ sessions[t].family \in issued
        /\ sessions[t].expiresAt <= bornAt[sessions[t].family] + AbsoluteTtl
    BY <2>1 DEF IndInv, OnlyIssued, AbsoluteTimeout, Exists
  <2>3. bornAt'[sessions[t].family] = bornAt[sessions[t].family]
    BY <2>2, IssuedStep
  <2> QED
    BY <2>1, <2>2, <2>3
<1>2. CASE t \notin issued
  <2>1. t \in issued'
    BY OnlyIssuedStep DEF OnlyIssued, Exists
  <2>2. PICK w \in Workers, u \in Tokens : Adds(w, u)
    BY <1>2, <2>1, CollectionStep DEF history
  <2>3. u = t
    BY <1>2, <2>1, <2>2, AddedDocument
  <2>4. CASE LoginCreate(w, t)
    <3>1. /\ sessions'[t].family = t
          /\ sessions'[t].expiresAt = now + AbsoluteTtl
          /\ bornAt' = [bornAt EXCEPT ![t] = now]
      BY <2>2, <2>3, <2>4, AddedDocument
    <3> QED
      BY <1>t, <3>1
  <2>5. CASE RefreshCreate(w, t)
    <3>1. /\ sessions'[t].family = request[w].session.family
          /\ sessions'[t].expiresAt \in Nat
          /\ sessions'[t].expiresAt <= request[w].session.expiresAt
          /\ bornAt' = bornAt
      BY <2>2, <2>3, <2>5, AddedDocument
    <3>2. /\ request[w].session \in Session
          /\ request[w].session.family \in issued
          /\ request[w].session # Null
      BY <2>5, InHand, NullAssumption DEF RefreshCreate, HoldingSession
    <3>3. request[w].session.expiresAt <= bornAt[request[w].session.family] + AbsoluteTtl
      BY <3>2 DEF IndInv, CopiesBounded
    <3>4. request[w].session.expiresAt \in Nat /\ bornAt[request[w].session.family] \in Nat
      BY <1>t, <3>2 DEF Session
    <3> QED
      BY <1>t, <3>1, <3>3, <3>4
  <2> QED
    BY <2>2, <2>3, <2>4, <2>5 DEF Adds
<1> QED
  BY <1>1, <1>2

\* A token's predecessor outlives it, revoked.  For a token that is added this
\* is what PendingExchange kept of the refresh that adds it.
LEMMA DescentStep == IndInv /\ [Next]_vars => Descent'
<1> SUFFICES ASSUME IndInv, [Next]_vars, NEW t \in Tokens,
                    sessions'[t] # Null, parent'[t] # Null
             PROVE  /\ OutlivedBy(parent[t], sessions[t].family, sessions[t].expiresAt)'
                    /\ sessions'[parent'[t]] # Null => sessions'[parent'[t]].revoked
  BY DEF Descent, Exists
<1>1. CASE t \in issued
  <2>1. /\ sessions[t] # Null
        /\ sessions'[t].family = sessions[t].family
        /\ sessions'[t].expiresAt = sessions[t].expiresAt
        /\ parent'[t] = parent[t]
    BY <1>1, IssuedStep
  <2>2. /\ parent[t] \in issued
        /\ OutlivedBy(parent[t], sessions[t].family, sessions[t].expiresAt)
        /\ sessions[parent[t]] # Null => sessions[parent[t]].revoked
    BY <2>1 DEF IndInv, OnlyIssued, Descent, Exists
  <2>3. sessions[t].expiresAt \in Nat
    BY <2>1 DEF IndInv, TypeOK, Session
  <2> QED
    BY <2>1, <2>2, <2>3, OutlivedStep DEF OutlivedBy, Exists
<1>2. CASE t \notin issued
  <2>1. t \in issued'
    BY OnlyIssuedStep DEF OnlyIssued, Exists
  <2>2. PICK w \in Workers, u \in Tokens : Adds(w, u)
    BY <1>2, <2>1, CollectionStep DEF history
  <2>3. u = t
    BY <1>2, <2>1, <2>2, AddedDocument
  <2>4. parent[t] = Null
    BY <1>2 DEF IndInv, OnlyIssued
  <2>5. RefreshCreate(w, t)
    BY <2>2, <2>3, <2>4, AddedDocument DEF Adds
  <2>6. /\ sessions'[t].family = request[w].session.family
        /\ sessions'[t].expiresAt \in Nat
        /\ sessions'[t].expiresAt <= request[w].session.expiresAt
        /\ parent'[t] = request[w].token
    BY <2>2, <2>3, <2>5, AddedDocument DEF IndInv, TypeOK
  <2>7. /\ request[w].token \in issued
        /\ request[w].session.expiresAt \in Nat
        /\ OutlivedBy(request[w].token, request[w].session.family,
                      request[w].session.expiresAt)
        /\ sessions[request[w].token] # Null => sessions[request[w].token].revoked
    BY <2>5, InHand DEF RefreshCreate, HoldingSession, IndInv, PendingExchange, Exists, Session
  <2>8. now' \in Nat
    BY ClockStep DEF IndInv
  <2>9. sessions'[request[w].token] # Null => sessions'[request[w].token].expiresAt \in Nat
    BY <2>7, TypeStep DEF IndInv, TypeOK, Session
  <2> DEFINE p == request[w].token
             end == request[w].session.expiresAt
  <2>10. /\ \/ end <= now'
            \/ /\ sessions'[p] # Null
               /\ sessions'[p].family = request[w].session.family
               /\ end <= sessions'[p].expiresAt
         /\ sessions'[p] # Null => sessions'[p].revoked
    BY <2>7, OutlivedStep
  <2>11. \/ sessions'[t].expiresAt <= now'
         \/ /\ sessions'[p] # Null
            /\ sessions'[p].family = sessions'[t].family
            /\ sessions'[t].expiresAt <= sessions'[p].expiresAt
    BY <2>6, <2>7, <2>8, <2>9, <2>10
  <2> QED
    BY <2>6, <2>10, <2>11 DEF OutlivedBy, Exists
<1> QED
  BY <1>1, <1>2

-----------------------------------------------------------------------------
(* The requests' part of the invariant.                                    *)

\* RequestShape, CopiesBounded and PendingExchange say this of each request.
Carries(r) ==
    /\ r.token # Null => r.token \in issued
    /\ r.session # Null =>
          /\ r.session.family \in issued
          /\ r.session.expiresAt <= bornAt[r.session.family] + AbsoluteTtl

Exchanges(r) ==
    r.at \in {"admitting", "rotating", "exchanging"} =>
        /\ OutlivedBy(r.token, r.session.family, r.session.expiresAt)
        /\ r.at = "exchanging" /\ Exists(r.token) => sessions[r.token].revoked

FitForPlace(r) ==
    /\ r.at \in HoldingSession \cup {"replayed"} => r.token # Null
    /\ r.at \in HoldingSession => r.session # Null

LEMMA RequestsInvariant ==
    ASSUME IndInv, NEW w \in Workers
    PROVE  /\ request[w] \in Request
           /\ Carries(request[w])
           /\ Exchanges(request[w])
           /\ FitForPlace(request[w])
BY DEF IndInv, TypeOK, Request, RequestShape, CopiesBounded, PendingExchange, Carries,
       Exchanges, FitForPlace

\* What a request carries stays good, whoever moves.
LEMMA CarriesStep ==
    ASSUME IndInv, [Next]_vars, NEW r \in Request, Carries(r)
    PROVE  Carries(r)'
<1>1. r.session # Null => bornAt'[r.session.family] = bornAt[r.session.family]
  BY IssuedStep DEF Carries
<1> QED
  BY <1>1, IssuedStep DEF Carries

\* So does the promise of an exchange.
LEMMA ExchangesStep ==
    ASSUME IndInv, [Next]_vars, NEW r \in Request,
           Carries(r), Exchanges(r), FitForPlace(r)
    PROVE  Exchanges(r)'
<1> SUFFICES ASSUME r.at \in {"admitting", "rotating", "exchanging"}
             PROVE  /\ OutlivedBy(r.token, r.session.family, r.session.expiresAt)'
                    /\ r.at = "exchanging" /\ sessions'[r.token] # Null =>
                          sessions'[r.token].revoked
  BY DEF Exchanges, Exists
<1>1. r.token \in issued /\ r.session \in Session
  BY DEF Request, Carries, FitForPlace, HoldingSession
<1>2. r.session.expiresAt \in Nat
  BY <1>1 DEF Session
<1>3. OutlivedBy(r.token, r.session.family, r.session.expiresAt)
  BY DEF Exchanges
<1>4. r.at = "exchanging" => (sessions[r.token] # Null => sessions[r.token].revoked)
  BY DEF Exchanges, Exists
<1> QED
  BY <1>1, <1>2, <1>3, <1>4, OutlivedStep DEF OutlivedBy, Exists

Fit(r) == Carries(r) /\ Exchanges(r) /\ FitForPlace(r)

\* A request with nothing in hand is fit for the places it may be in.
LEMMA EmptyHandsFit ==
    ASSUME NEW place \in {"idle", "minting", "hashing"}
    PROVE  Fit([NoRequest EXCEPT !.at = place])
BY DEF Fit, Carries, Exchanges, FitForPlace, NoRequest, HoldingSession

\* A request that has just read an issued token's document is fit for any
\* place before the rotation, and without it to look for a replay.
LEMMA FreshCopyFits ==
    ASSUME IndInv, NEW t \in issued,
           NEW session, session \in {sessions[t], Null},
           NEW place \in {"replayed", "burning", "lapsing", "admitting"},
           place # "replayed" => session # Null
    PROVE  Fit([at |-> place, token |-> t, session |-> session])
<1> DEFINE r == [at |-> place, token |-> t, session |-> session]
<1>1. t \in Tokens /\ t # Null
  BY NullAssumption DEF IndInv, TypeOK
<1>2. session # Null => Exists(t) /\ session = sessions[t]
  BY DEF Exists
<1>3. Carries(r)
  BY <1>1, <1>2 DEF Carries, IndInv, OnlyIssued, AbsoluteTimeout
<1>4. Exchanges(r)
  <2> SUFFICES ASSUME place = "admitting"
               PROVE  OutlivedBy(t, session.family, session.expiresAt)
    BY DEF Exchanges
  <2>1. session = sessions[t] /\ session \in Session /\ Exists(t)
    BY <1>1, <1>2 DEF IndInv, TypeOK, Exists
  <2> QED
    BY <2>1 DEF OutlivedBy, Session
<1>5. FitForPlace(r)
  BY <1>1 DEF FitForPlace, HoldingSession
<1> QED
  BY <1>3, <1>4, <1>5 DEF Fit

\* The request that moves is fit, in the state it leaves, for where it goes -
\* but for a rotation, which makes the exchange good by its own step.
LEMMA MoverFit ==
    ASSUME IndInv, NEW w \in Workers, Serve(w), ~Rotate(w)
    PROVE  Fit(request'[w])
<1>t. request \in [Workers -> Request] /\ request[w] \in Request
  BY DEF IndInv, TypeOK, Request
<1>r. Carries(request[w]) /\ Exchanges(request[w]) /\ FitForPlace(request[w])
  BY RequestsInvariant
<1>f. ASSUME Finish(w)
      PROVE  Fit(request'[w])
  <2>1. [NoRequest EXCEPT !.at = "idle"] = NoRequest
    BY DEF NoRequest
  <2>2. Fit(NoRequest)
    BY <2>1, EmptyHandsFit
  <2> QED
    BY <1>t, <1>f, <2>2 DEF Finish
<1>1. CASE LoginFind(w) \/ ChangeFind(w)
  BY <1>t, <1>1, EmptyHandsFit DEF LoginFind, ChangeFind
<1>2. CASE RefreshFindAny(w)
  <2>1. CASE Exists(request[w].token)
    <3>1. request[w].token \in issued
      BY <1>2, InHand DEF RefreshFindAny
    <3>2. request'[w] = [at |-> "burning", token |-> request[w].token,
                         session |-> sessions[request[w].token]]
      BY <1>t, <1>2, <2>1 DEF RefreshFindAny, Request
    <3> QED
      BY <2>1, <3>1, <3>2, FreshCopyFits DEF Exists
  <2>2. CASE ~Exists(request[w].token)
    BY <1>2, <1>f, <2>2 DEF RefreshFindAny
  <2> QED
    BY <2>1, <2>2
<1>3. CASE RevokeFamily(w) \/ RevokeLapsed(w) \/ RevokeAllForUser(w) \/ Crash(w)
             \/ \E t \in Tokens : LoginCreate(w, t) \/ RefreshCreate(w, t)
  BY <1>3, <1>f DEF RevokeFamily, RevokeLapsed, RevokeAllForUser, Crash, LoginCreate,
                    RefreshCreate
<1>4. CASE RefreshFindUser(w)
  <2>1. PICK place \in {"rotating", "burning"} :
           request'[w] = [at |-> place, token |-> request[w].token,
                          session |-> request[w].session]
    BY <1>t, <1>4 DEF RefreshFindUser, Goto, Request
  <2>2. request[w].at = "admitting"
    BY <1>4 DEF RefreshFindUser
  <2> QED
    BY <1>r, <2>1, <2>2 DEF Fit, Carries, Exchanges, FitForPlace, HoldingSession
<1>5. CASE ChangeWrite(w)
  <2>1. request'[w] = [at |-> "evicting", token |-> request[w].token,
                       session |-> request[w].session]
    BY <1>t, <1>5 DEF ChangeWrite, Goto, Request
  <2> QED
    BY <1>r, <2>1 DEF Fit, Carries, Exchanges, FitForPlace, HoldingSession
<1>6. ASSUME NEW t \in Tokens, RefreshFind(w, t)
      PROVE  Fit(request'[w])
  <2> DEFINE place == IF FindActive(t) = Null THEN "replayed"
                      ELSE IF IdleTooLong(FindActive(t)) THEN "lapsing"
                      ELSE "admitting"
  <2>1. request'[w] = [at |-> place, token |-> t, session |-> FindActive(t)]
    BY <1>t, <1>6 DEF RefreshFind, NoRequest
  <2>2. t \in issued /\ FindActive(t) \in {sessions[t], Null}
    BY <1>6 DEF RefreshFind, FindActive
  <2>3. place \in {"replayed", "lapsing", "admitting"}
        /\ (place # "replayed" => FindActive(t) # Null)
    OBVIOUS
  <2> QED
    BY <2>1, <2>2, <2>3, FreshCopyFits
<1>7. ASSUME NEW t \in Tokens, LogoutFind(w, t)
      PROVE  Fit(request'[w])
  <2>1. request'[w] = [at |-> "burning", token |-> t, session |-> FindActive(t)]
    BY <1>t, <1>7 DEF LogoutFind, NoRequest
  <2>2. FindActive(t) = sessions[t] /\ FindActive(t) # Null /\ Exists(t)
    BY <1>7 DEF LogoutFind, FindActive, Live
  <2>3. t \in issued
    BY <2>2 DEF IndInv, OnlyIssued
  <2> QED
    BY <2>1, <2>2, <2>3, FreshCopyFits
<1> QED
  BY <1>1, <1>2, <1>3, <1>4, <1>5, <1>6, <1>7 DEF Serve

\* Only the request that is served changes.
LEMMA OthersStay ==
    ASSUME IndInv, NEW w \in Workers, Serve(w), NEW v \in Workers \ {w}
    PROVE  request'[v] = request[v]
BY DEF Serve, LoginFind, RefreshFindAny, RefreshFindUser, ChangeFind, ChangeWrite, Crash,
       RefreshFind, LogoutFind, RevokeFamily, RevokeLapsed, Rotate, RevokeAllForUser,
       LoginCreate, RefreshCreate, Goto, Finish, IndInv, TypeOK

\* Requests stay fit: the one that moves, and the others.
LEMMA RequestsStep ==
    IndInv /\ [Next]_vars => RequestShape' /\ CopiesBounded' /\ PendingExchange'
<1> SUFFICES ASSUME IndInv, [Next]_vars, NEW v \in Workers
             PROVE  Fit(request[v])'
  BY DEF Fit, Carries, Exchanges, FitForPlace, RequestShape, CopiesBounded, PendingExchange
<1>1. CASE Fit(request'[v])
  <2>1. PICK r \in Request : r = request'[v]
    BY TypeStep DEF TypeOK, Request
  <2>2. Carries(r)' /\ Exchanges(r)' /\ FitForPlace(r)
    BY <1>1, <2>1, CarriesStep, ExchangesStep DEF Fit
  <2> QED
    BY <2>1, <2>2 DEF Fit, Carries, Exchanges, FitForPlace
<1>2. CASE Rotate(v)
  <2>1. PICK r \in Request : r = request[v]
    BY RequestsInvariant
  <2>2. Carries(r)' /\ Exchanges(r)'
    BY <2>1, RequestsInvariant, CarriesStep, ExchangesStep
  <2>3. request'[v] = [r EXCEPT !.at = "exchanging"] /\ r.at = "rotating"
    BY <1>2, <2>1 DEF Rotate, Goto, IndInv, TypeOK
  <2>4. /\ request'[v].at = "exchanging"
        /\ request'[v].token = r.token
        /\ request'[v].session = r.session
    BY <2>3 DEF Request
  <2>5. r.token \in Tokens /\ r.token # Null /\ r.session # Null
    BY <2>1, <2>3, InHand, RequestsInvariant DEF HoldingSession, FitForPlace
  <2>6. sessions'[r.token] # Null => sessions'[r.token].revoked
    BY <1>2, <2>1, <2>5, RevokeKeeps DEF Rotate, IndInv
  <2>7. Carries(request[v])' /\ FitForPlace(request[v])'
    BY <2>2, <2>4, <2>5 DEF Carries, FitForPlace
  <2>8. Exchanges(request[v])'
    BY <2>2, <2>3, <2>4, <2>6 DEF Exchanges, Exists, OutlivedBy
  <2> QED
    BY <2>7, <2>8 DEF Fit
<1>3. Fit(request'[v]) \/ Rotate(v)
  <2>1. Fit(request[v])
    BY RequestsInvariant DEF Fit
  <2>2. CASE request' = request
    BY <2>1, <2>2
  <2>3. ASSUME NEW w \in Workers, Serve(w)
        PROVE  Fit(request'[v]) \/ Rotate(v)
    BY <2>1, <2>3, MoverFit, OthersStay
  <2> QED
    BY <2>2, <2>3 DEF Next, Reap, SetActive, Tick, vars
<1> QED
  BY <1>1, <1>2, <1>3

-----------------------------------------------------------------------------
(* Theorems.                                                               *)

\* The empty database satisfies the invariant.
LEMMA InitInvariant == Init => IndInv
<1> SUFFICES ASSUME Init
             PROVE  IndInv
  OBVIOUS
<1>1. TypeOK
  BY InitType
<1> QED
  BY <1>1 DEF Init, IndInv, OnlyIssued, RequestShape, AbsoluteTimeout, CopiesBounded, Descent,
              PendingExchange, NoRequest, Exists, HoldingSession

\* Every step of every request, crash, administrator and clock preserves it.
LEMMA NextInvariant == IndInv /\ [Next]_vars => IndInv'
BY TypeStep, OnlyIssuedStep, TimeoutStep, DescentStep, RequestsStep DEF IndInv

\* The inductive invariant of the session collection and of the copies that
\* requests in flight hold of it.
THEOREM Invariance == Spec => []IndInv
<1> QED
  BY InitInvariant, NextInvariant, PTL DEF Spec

\* Documents, requests and records of both are well typed.
THEOREM TypeCorrect == Spec => []TypeOK
<1>1. IndInv => TypeOK
  BY DEF IndInv
<1> QED
  BY <1>1, Invariance, PTL

\* However many refreshes interleave, die or repeat, no session outlives the
\* login that started its family by more than the refresh token's lifetime.
THEOREM TimeoutIsAbsolute == Spec => []AbsoluteTimeout
<1>1. IndInv => AbsoluteTimeout
  BY DEF IndInv
<1> QED
  BY <1>1, Invariance, PTL

\* While a token is live, the token it was exchanged for is still on record,
\* revoked and of the same family: the TTL index never makes reuse detection
\* blind.
THEOREM ReuseDetectable == Spec => []ReuseIsTraceable
<1>1. IndInv => ReuseIsTraceable
  <2> SUFFICES ASSUME IndInv, NEW t \in Tokens, Live(t), parent[t] # Null
               PROVE  /\ Exists(parent[t])
                      /\ sessions[parent[t]].revoked
                      /\ sessions[parent[t]].family = sessions[t].family
    BY DEF ReuseIsTraceable
  <2>1. OutlivedBy(parent[t], sessions[t].family, sessions[t].expiresAt)
        /\ (Exists(parent[t]) => sessions[parent[t]].revoked)
    BY DEF IndInv, Descent, Live
  <2>2. sessions[t].expiresAt \in Nat /\ now \in Nat /\ sessions[t].expiresAt > now
    BY DEF IndInv, TypeOK, Live, Exists, Session
  <2> QED
    BY <2>1, <2>2 DEF OutlivedBy
<1> QED
  BY <1>1, Invariance, PTL

-----------------------------------------------------------------------------
(* One request at a time, which may die between any two of its steps: the  *)
(* three properties that requests in each other's way break.               *)

\* A document nobody has revoked, whether or not it has expired.
Good(t) == Exists(t) /\ ~sessions[t].revoked

\* Families that were to have no live token again.
Dead == burnt \cup evicted

GoodAlone ==
    \A t, u \in Tokens :
        Good(t) /\ Good(u) /\ sessions[t].family = sessions[u].family => t = u

GoodAlive == \A t \in Tokens : Good(t) => sessions[t].family \notin Dead

\* A request on its way to an exchange has the one good token its family may
\* have, and the family has not been revoked behind its back.
ExchangeUndisturbed ==
    \A w \in Workers :
        request[w].at \in {"admitting", "rotating", "exchanging"} =>
            /\ request[w].session.family \notin Dead
            /\ \A t \in Tokens :
                  Good(t) /\ sessions[t].family = request[w].session.family
                      => t = request[w].token

SerialInv == IndInv /\ GoodAlone /\ GoodAlive /\ ExchangeUndisturbed

\* A good token of the next state was good already, or is the one a login or
\* a refresh adds.
LEMMA GoodStep ==
    ASSUME IndInv, [Next]_vars, NEW t \in Tokens, Good(t)'
    PROVE  \/ Good(t) /\ sessions'[t].family = sessions[t].family
           \/ \E w \in Workers : Adds(w, t)
<1>1. CASE t \in issued
  BY <1>1, IssuedStep DEF Good, Exists
<1>2. CASE t \notin issued
  <2>1. sessions[t] = Null /\ sessions'[t] # Null /\ t \in issued'
    BY <1>2, OnlyIssuedStep DEF IndInv, OnlyIssued, Exists, Good
  <2>2. ~ UNCHANGED history
    BY <1>2, <2>1 DEF history
  <2>3. PICK w \in Workers, u \in Tokens : Adds(w, u)
    BY <2>2, CollectionStep
  <2>4. t = u
    BY <2>1, <2>3, AddedDocument
  <2> QED
    BY <2>3, <2>4
<1> QED
  BY <1>1, <1>2

\* A family dies with every good token it has.
LEMMA DeadStep ==
    ASSUME IndInv, [Next]_vars, NEW t \in Tokens, Good(t)',
           sessions'[t].family \in Dead'
    PROVE  sessions'[t].family \in Dead
<1>t. TypeOK
  BY DEF IndInv
<1>1. ASSUME NEW w \in Workers, RevokeFamily(w)
      PROVE  sessions'[t].family \in Dead
  <2>1. t \in InFamily(request[w].session.family)
           => (sessions'[t] # Null => sessions'[t].revoked)
    BY <1>t, <1>1, RevokeKeeps DEF RevokeFamily
  <2>2. sessions[t] # Null /\ sessions'[t].family = sessions[t].family
    BY <1>t, <1>1, RevokeKeeps DEF RevokeFamily, Good, Exists
  <2>3. sessions'[t].family # request[w].session.family
    BY <2>1, <2>2 DEF InFamily, Good, Exists
  <2> QED
    BY <1>1, <2>3 DEF RevokeFamily, Dead
<1>2. ASSUME NEW w \in Workers, RevokeAllForUser(w)
      PROVE  sessions'[t].family \in Dead
  BY <1>t, <1>2, RevokeKeeps DEF RevokeAllForUser, Good, Exists
<1>3. ASSUME NEW w \in Workers, Serve(w), ~RevokeFamily(w), ~RevokeAllForUser(w)
      PROVE  UNCHANGED <<burnt, evicted>>
  BY <1>3 DEF Serve, LoginFind, RefreshFindAny, RefreshFindUser, ChangeFind, ChangeWrite,
              Crash, RefreshFind, LogoutFind, RevokeLapsed, Rotate, LoginCreate,
              RefreshCreate
<1>4. CASE UNCHANGED <<burnt, evicted>>
  BY <1>4 DEF Dead
<1> QED
  BY <1>1, <1>2, <1>3, <1>4 DEF Next, Reap, SetActive, Tick, vars

\* The document a login or a refresh adds has a family with no good token in
\* it, and one that has not died.
LEMMA AddedAlone ==
    ASSUME SerialInv, NEW w \in Workers, NEW t \in Tokens, Adds(w, t)
    PROVE  /\ sessions'[t].family \notin Dead
           /\ \A u \in Tokens : Good(u) => sessions[u].family # sessions'[t].family
           /\ UNCHANGED <<burnt, evicted>>
<1>i. IndInv
  BY DEF SerialInv
<1>1. CASE LoginCreate(w, t)
  <2>1. sessions'[t].family = t /\ t \notin issued
    BY <1>i, <1>1, AddedDocument DEF Adds
  <2>2. Dead \subseteq issued /\ \A u \in Tokens : Good(u) => sessions[u].family \in issued
    BY <1>i DEF Dead, Good, IndInv, TypeOK, OnlyIssued
  <2> QED
    BY <1>1, <2>1, <2>2 DEF LoginCreate
<1>2. CASE RefreshCreate(w, t)
  <2>1. sessions'[t].family = request[w].session.family /\ request[w].at = "exchanging"
    BY <1>i, <1>2, AddedDocument DEF Adds, RefreshCreate
  <2>2. ~Good(request[w].token)
    BY <1>i, <2>1 DEF Good, IndInv, PendingExchange
  <2> QED
    BY <1>2, <2>1, <2>2 DEF SerialInv, ExchangeUndisturbed, RefreshCreate
<1> QED
  BY <1>1, <1>2 DEF Adds

\* So a family has one good token at most, and none once it has died.
LEMMA GoodStays ==
    ASSUME SerialInv, [Next]_vars
    PROVE  GoodAlone' /\ GoodAlive'
<1>i. IndInv
  BY DEF SerialInv
<1>1. ASSUME NEW w \in Workers, NEW t \in Tokens, NEW u \in Tokens, Adds(w, t), Good(u)',
             u # t
      PROVE  sessions'[u].family # sessions'[t].family
  <2>1. Good(u) /\ sessions'[u] = sessions[u]
    BY <1>i, <1>1, AddedDocument DEF Good, Exists
  <2> QED
    BY <1>1, <2>1, AddedAlone
<1>2. GoodAlone'
  <2> SUFFICES ASSUME NEW t \in Tokens, NEW u \in Tokens, Good(t)', Good(u)',
                      sessions'[t].family = sessions'[u].family
               PROVE  t = u
    BY DEF GoodAlone
  <2>1. CASE \E w \in Workers : Adds(w, t) \/ Adds(w, u)
    BY <1>1, <2>1
  <2>2. CASE ~ \E w \in Workers : Adds(w, t) \/ Adds(w, u)
    <3>1. Good(t) /\ Good(u) /\ sessions[t].family = sessions[u].family
      BY <1>i, <2>2, GoodStep
    <3> QED
      BY <3>1 DEF SerialInv, GoodAlone
  <2> QED
    BY <2>1, <2>2
<1>3. GoodAlive'
  <2> SUFFICES ASSUME NEW t \in Tokens, Good(t)', sessions'[t].family \in Dead'
               PROVE  FALSE
    BY DEF GoodAlive
  <2>1. sessions'[t].family \in Dead
    BY <1>i, DeadStep
  <2>2. CASE \E w \in Workers : Adds(w, t)
    BY <2>1, <2>2, AddedAlone
  <2>3. CASE ~ \E w \in Workers : Adds(w, t)
    <3>1. Good(t) /\ sessions'[t].family = sessions[t].family
      BY <1>i, <2>3, GoodStep
    <3> QED
      BY <2>1, <3>1 DEF SerialInv, GoodAlive
  <2> QED
    BY <2>2, <2>3
<1> QED
  BY <1>2, <1>3

\* The single request goes to its exchange with a good token, and nothing but
\* its own steps touches the family meanwhile.
LEMMA ExchangeStep ==
    ASSUME NEW single, Workers = {single}, SerialInv, [Next]_vars
    PROVE  ExchangeUndisturbed'
<1>i. IndInv
  BY DEF SerialInv
<1>w. single \in Workers /\ request \in [Workers -> Request] /\ request[single] \in Request
  BY <1>i DEF IndInv, TypeOK, Request
<1> DEFINE Exchanging(r) == r.at \in {"admitting", "rotating", "exchanging"}
<1> SUFFICES ASSUME Exchanging(request'[single])
             PROVE  /\ request'[single].session.family \notin Dead'
                    /\ \A t \in Tokens :
                          Good(t)' /\ sessions'[t].family = request'[single].session.family
                              => t = request'[single].token
  BY DEF ExchangeUndisturbed
\* The request was on its way already, and this step leaves its family alone.
<1>1. ASSUME Exchanging(request[single]), UNCHANGED <<burnt, evicted>>,
             UNCHANGED history,
             request'[single].token = request[single].token,
             request'[single].session = request[single].session
      PROVE  /\ request'[single].session.family \notin Dead'
             /\ \A t \in Tokens :
                   Good(t)' /\ sessions'[t].family = request'[single].session.family
                       => t = request'[single].token
  <2>1. /\ request[single].session.family \notin Dead
        /\ \A t \in Tokens :
              Good(t) /\ sessions[t].family = request[single].session.family
                  => t = request[single].token
    BY <1>1, <1>w DEF SerialInv, ExchangeUndisturbed
  <2>2. \A w \in Workers, t \in Tokens : ~Adds(w, t)
    BY <1>i, <1>1, AddedDocument DEF history
  <2>3. \A t \in Tokens : Good(t)' => Good(t) /\ sessions'[t].family = sessions[t].family
    BY <1>i, <2>2, GoodStep
  <2> QED
    BY <1>1, <2>1, <2>3 DEF Dead
<1>2. CASE (\E t \in Tokens : Reap(t)) \/ SetActive \/ Tick \/ UNCHANGED vars
  <2>1. UNCHANGED <<request, burnt, evicted>> /\ UNCHANGED history
    BY <1>2 DEF Reap, SetActive, Tick, vars
  <2> QED
    BY <1>1, <2>1
<1>3. CASE Serve(single)
  <2>1. ASSUME NEW t \in Tokens, RefreshFind(single, t)
        PROVE  /\ request'[single].session.family \notin Dead'
               /\ \A u \in Tokens :
                     Good(u)' /\ sessions'[u].family = request'[single].session.family
                         => u = request'[single].token
    <3>1. /\ request'[single].token = t
          /\ request'[single].session = FindActive(t)
          /\ request'[single].at = "replayed" \/ FindActive(t) # Null
      BY <1>w, <2>1 DEF RefreshFind, NoRequest
    <3>2. FindActive(t) # Null
      BY <3>1
    <3>3. Good(t) /\ request'[single].session = sessions[t]
      BY <3>1, <3>2 DEF FindActive, Live, Good
    <3>4. UNCHANGED <<sessions, burnt, evicted>>
      BY <2>1 DEF RefreshFind
    <3>5. sessions[t].family \notin Dead
      BY <3>3 DEF SerialInv, GoodAlive
    <3>6. \A u \in Tokens : Good(u) /\ sessions[u].family = sessions[t].family => u = t
      BY <3>3 DEF SerialInv, GoodAlone
    <3> QED
      BY <3>1, <3>3, <3>4, <3>5, <3>6 DEF Dead, Good, Exists
  <2>2. CASE RefreshFindUser(single) \/ Rotate(single)
    <3>1. \E place \in Places : Goto(single, place)
      BY <2>2 DEF RefreshFindUser, Rotate, Places
    <3>2. /\ request'[single].token = request[single].token
          /\ request'[single].session = request[single].session
      BY <1>w, <3>1 DEF Goto, Request
    <3>3. Exchanging(request[single]) /\ UNCHANGED <<burnt, evicted>> /\ UNCHANGED history
      BY <2>2 DEF RefreshFindUser, Rotate
    <3> QED
      BY <1>1, <3>2, <3>3
  <2>3. CASE LoginFind(single) \/ ChangeFind(single)
    BY <1>w, <2>3 DEF LoginFind, ChangeFind, NoRequest
  <2>4. CASE Finish(single)
    BY <1>w, <2>4 DEF Finish, NoRequest
  <2>5. CASE RefreshFindAny(single) /\ ~Finish(single)
    <3>1. request'[single].at = "burning"
      BY <1>w, <2>5 DEF RefreshFindAny, Request
    <3> QED
      BY <3>1
  <2>6. CASE ChangeWrite(single)
    <3>1. request'[single].at = "evicting"
      BY <1>w, <2>6 DEF ChangeWrite, Goto, Request
    <3> QED
      BY <3>1
  <2>7. ASSUME NEW t \in Tokens, LogoutFind(single, t)
        PROVE  FALSE
    BY <1>w, <2>7 DEF LogoutFind, NoRequest
  <2>8. ASSUME \/ RevokeFamily(single) \/ RevokeLapsed(single)
               \/ RevokeAllForUser(single) \/ Crash(single)
               \/ \E t \in Tokens : LoginCreate(single, t) \/ RefreshCreate(single, t)
        PROVE  Finish(single)
    BY <2>8 DEF RevokeFamily, RevokeLapsed, RevokeAllForUser, Crash, LoginCreate, RefreshCreate
  <2> QED
    BY <1>3, <2>1, <2>2, <2>3, <2>4, <2>5, <2>6, <2>7, <2>8 DEF Serve
<1> QED
  BY <1>2, <1>3 DEF Next

\* Nothing is good, dead or under way in the empty database, and one request
\* at a time keeps it so.
LEMMA SerialStep ==
    ASSUME NEW single, Workers = {single}
    PROVE  /\ Init => SerialInv
           /\ SerialInv /\ [Next]_vars => SerialInv'
<1>1. ASSUME Init
      PROVE  SerialInv
  <2>1. \A t \in Tokens : ~Good(t)
    BY <1>1 DEF Init, Good, Exists
  <2>2. \A w \in Workers : request[w].at = "idle"
    BY <1>1 DEF Init, NoRequest
  <2> QED
    BY <1>1, <2>1, <2>2, InitInvariant DEF SerialInv, GoodAlone, GoodAlive,
                                           ExchangeUndisturbed
<1>2. ASSUME SerialInv, [Next]_vars
      PROVE  SerialInv'
  BY <1>2, NextInvariant, GoodStays, ExchangeStep DEF SerialInv
<1> QED
  BY <1>1, <1>2

\* One request at a time, the serial invariant holds in every state.
THEOREM SerialInvariance ==
    ASSUME NEW single, Workers = {single}
    PROVE  Spec => []SerialInv
<1> QED
  BY SerialStep, PTL DEF Spec

\* Rotation replaces a token by one other: when the requests of an operator
\* do not overlap, and whichever of them die, no family has two live tokens.
THEOREM RotationReplaces ==
    ASSUME NEW single, Workers = {single}
    PROVE  Spec => []OneLivePerFamily
<1>1. SerialInv => OneLivePerFamily
  BY DEF SerialInv, GoodAlone, Good, Live, OneLivePerFamily
<1> QED
  BY <1>1, SerialInvariance, PTL

\* A family that was logged out, or burnt on reuse, never has a live token
\* again when requests do not overlap.
THEOREM BurningIsFinal ==
    ASSUME NEW single, Workers = {single}
    PROVE  Spec => []BurntStaysBurnt
<1>1. SerialInv => BurntStaysBurnt
  BY DEF SerialInv, GoodAlive, Good, Live, Dead, BurntStaysBurnt
<1> QED
  BY <1>1, SerialInvariance, PTL

\* A password change locks out whoever holds a session, for good, when
\* requests do not overlap; run sessions_evict_race shows what two do.
THEOREM EvictionIsFinal ==
    ASSUME NEW single, Workers = {single}
    PROVE  Spec => []EvictedStaysEvicted
<1>1. SerialInv => EvictedStaysEvicted
  BY DEF SerialInv, GoodAlive, Good, Live, Dead, EvictedStaysEvicted
<1> QED
  BY <1>1, SerialInvariance, PTL
=============================================================================
