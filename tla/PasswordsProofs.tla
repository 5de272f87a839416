--------------------------- MODULE PasswordsProofs ---------------------------
(***************************************************************************)
(* The properties of Passwords hold for any number of requests and seed    *)
(* runs, any set of passwords and any size of the history.                 *)
(*                                                                         *)
(* What carries them: a request that no change has overtaken holds the     *)
(* hash and the history in force, so the history it writes is the recent   *)
(* past.  And what is said of the sessions that are stored holds of those  *)
(* that logins and refreshes under way have still to store: a change       *)
(* revokes the former and marks the latter.                                *)
(***************************************************************************)
EXTENDS Passwords, SequenceTheorems, TLAPS

\* Before the seed there is nothing else.
Unseeded ==
    user = Null =>
        /\ live = {} /\ past = <<>>
        /\ \A w \in Workers : request[w].at = "idle" /\ request[w].session = Null
        /\ \A s \in Seeds : seed[s] # "marking"

\* What a request that is not overtaken read is still so.
CopyOK(w) ==
    /\ request[w].at = "idle" => ~request[w].overtaken
    /\ request[w].at \in Copying =>
        /\ request[w].user \in User
        /\ ~request[w].overtaken =>
            /\ request[w].user.hash = user.hash
            /\ request[w].user.history = user.history
    /\ request[w].at = "writing" =>
        /\ request[w].newPassword \in Passwords
        /\ request[w].newPassword \notin Elements(History(request[w].user))

CopiesOK == \A w \in Workers : CopyOK(w)

\* A revocation is about to come, or has died.
Owed == unevicted \/ \E w \in Workers : request[w].at = "evicting"

\* A session of the password in force, or one with an explanation.
Explained(session) == session.password # user.hash => session.escaped \/ Owed

\* The places at which a request has a session to store.
Holding == {"verifying", "opening", "rotating", "renewing"}

HoldOK(w) ==
    /\ request[w].at \in Holding => request[w].session # Null
    /\ request[w].session # Null => Explained(request[w].session)

HoldsOK == \A w \in Workers : HoldOK(w)

HistoryIsPast == user # Null /\ ~forgetful => user.history = Latest(past)

IndInv == TypeOK /\ Unseeded /\ CopiesOK /\ HoldsOK /\ StaleSessionsExplained
            /\ SeededIsOneTime /\ HistoryIsPast

-----------------------------------------------------------------------------
(* Histories.                                                              *)

\* Latest keeps the first HistorySize elements.
LEMMA LatestIs ==
    ASSUME NEW s \in Seq(Passwords)
    PROVE  /\ Latest(s) \in Seq(Passwords)
           /\ Len(Latest(s)) = IF Len(s) <= HistorySize THEN Len(s) ELSE HistorySize
           /\ \A i \in 1..Len(Latest(s)) : Latest(s)[i] = s[i]
  <1> DEFINE n == IF Len(s) <= HistorySize THEN Len(s) ELSE HistorySize
  <1>1. Len(s) \in Nat /\ HistorySize \in Nat
    BY LenProperties, HistoryAssumption
  <1>2. n \in Nat /\ n <= Len(s)
    BY <1>1
  <1>3. \A i \in 1..n : s[i] \in Passwords
    BY <1>1, <1>2, ElementOfSeq
  <1>4. Latest(s) = SubSeq(s, 1, n)
    BY DEF Latest
  <1> HIDE DEF n
  <1>5. /\ SubSeq(s, 1, n) \in Seq(Passwords)
        /\ Len(SubSeq(s, 1, n)) = IF 1 <= n THEN n - 1 + 1 ELSE 0
        /\ \A i \in 1 .. n - 1 + 1 : SubSeq(s, 1, n)[i] = s[1 + i - 1]
    BY <1>2, <1>3, SubSeqProperties
  <1>6. Len(Latest(s)) = n
    BY <1>2, <1>4, <1>5
  <1>7. \A i \in 1..n : Latest(s)[i] = s[i]
    BY <1>2, <1>4, <1>5
  <1> QED
    BY <1>4, <1>5, <1>6, <1>7 DEF n

LEMMA PushIs ==
    ASSUME NEW p \in Passwords, NEW s \in Seq(Passwords)
    PROVE  /\ <<p>> \o s \in Seq(Passwords)
           /\ Len(<<p>> \o s) = Len(s) + 1
           /\ \A i \in 1 .. Len(s) + 1 : (<<p>> \o s)[i] = IF i = 1 THEN p ELSE s[i - 1]
  <1>1. <<p>> \in Seq(Passwords) /\ Len(<<p>>) = 1 /\ <<p>>[1] = p
    OBVIOUS
  <1>2. Len(s) \in Nat
    BY LenProperties
  <1> QED
    BY <1>1, <1>2, ConcatProperties

\* A password pushed on a cut history gives the history cut after the push.
LEMMA LatestOfPush ==
    ASSUME NEW p \in Passwords, NEW s \in Seq(Passwords)
    PROVE  Latest(<<p>> \o Latest(s)) = Latest(<<p>> \o s)
  <1> DEFINE t == Latest(s)
  <1> DEFINE a == <<p>> \o t
  <1> DEFINE b == <<p>> \o s
  <1>1. /\ t \in Seq(Passwords)
        /\ Len(t) = IF Len(s) <= HistorySize THEN Len(s) ELSE HistorySize
        /\ \A i \in 1..Len(t) : t[i] = s[i]
    BY LatestIs
  <1>2. Len(s) \in Nat /\ HistorySize \in Nat
    BY LenProperties, HistoryAssumption
  <1> HIDE DEF t
  <1>3. /\ a \in Seq(Passwords) /\ Len(a) = Len(t) + 1
        /\ \A i \in 1 .. Len(t) + 1 : a[i] = IF i = 1 THEN p ELSE t[i - 1]
    BY <1>1, PushIs
  <1>4. /\ b \in Seq(Passwords) /\ Len(b) = Len(s) + 1
        /\ \A i \in 1 .. Len(s) + 1 : b[i] = IF i = 1 THEN p ELSE s[i - 1]
    BY PushIs
  <1> HIDE DEF a, b
  <1>5. /\ Latest(a) \in Seq(Passwords)
        /\ Len(Latest(a)) = IF Len(a) <= HistorySize THEN Len(a) ELSE HistorySize
        /\ \A i \in 1..Len(Latest(a)) : Latest(a)[i] = a[i]
    BY <1>3, LatestIs
  <1>6. /\ Latest(b) \in Seq(Passwords)
        /\ Len(Latest(b)) = IF Len(b) <= HistorySize THEN Len(b) ELSE HistorySize
        /\ \A i \in 1..Len(Latest(b)) : Latest(b)[i] = b[i]
    BY <1>4, LatestIs
  <1>7. Len(Latest(a)) = Len(Latest(b))
    BY <1>1, <1>2, <1>3, <1>4, <1>5, <1>6
  <1>8. ASSUME NEW i \in 1..Len(Latest(a)) PROVE Latest(a)[i] = Latest(b)[i]
    <2>1. Latest(a)[i] = a[i] /\ Latest(b)[i] = b[i]
      BY <1>5, <1>6, <1>7
    <2>2. i \in 1 .. Len(t) + 1 /\ i \in 1 .. Len(s) + 1
      BY <1>1, <1>2, <1>3, <1>5
    <2>3. i # 1 => i - 1 \in 1..Len(t)
      BY <1>1, <1>2, <2>2
    <2> QED
      BY <1>1, <1>3, <1>4, <2>1, <2>2, <2>3
  <1>9. Latest(a) = Latest(b)
    BY <1>5, <1>6, <1>7, <1>8, SeqEqual
  <1> QED
    BY <1>9 DEF a, b, t

\* The history a change stores is one.
LEMMA HistoryIs ==
    ASSUME NEW doc \in User
    PROVE  History(doc) \in Seq(Passwords) /\ Len(History(doc)) <= HistorySize
  <1> DEFINE all == <<doc.hash>> \o doc.history
  <1>1. all \in Seq(Passwords)
    BY PushIs DEF User
  <1> HIDE DEF all
  <1>2. Len(all) \in Nat /\ HistorySize \in Nat
    BY <1>1, LenProperties, HistoryAssumption
  <1>3. /\ Latest(all) \in Seq(Passwords)
        /\ Len(Latest(all)) = IF Len(all) <= HistorySize THEN Len(all) ELSE HistorySize
    BY <1>1, LatestIs
  <1>4. History(doc) = Latest(all)
    BY DEF History, all
  <1> QED
    BY <1>2, <1>3, <1>4

-----------------------------------------------------------------------------
(* The invariant.                                                          *)

LEMMA InitOK == Init => IndInv
  <1> SUFFICES ASSUME Init PROVE IndInv
    OBVIOUS
  <1>1. TypeOK
    <2>1. request \in [Workers -> Request]
      BY DEF Init, NoRequest, Places, Request
    <2>2. past \in Seq(Passwords)
      BY EmptySeq DEF Init
    <2> QED
      BY <2>1, <2>2 DEF Init, TypeOK, SeedPlaces
  <1>2. CopiesOK /\ HoldsOK
    BY DEF Init, CopiesOK, CopyOK, Copying, HoldsOK, HoldOK, Holding, NoRequest
  <1>3. Unseeded /\ StaleSessionsExplained /\ SeededIsOneTime /\ HistoryIsPast
    BY DEF Init, Unseeded, StaleSessionsExplained, SeededIsOneTime, HistoryIsPast, NoRequest
  <1> QED
    BY <1>1, <1>2, <1>3 DEF IndInv

\* An idle request relies on nothing.
LEMMA NothingOK ==
    ASSUME NEW w \in Workers, request'[w] = NoRequest
    PROVE  CopyOK(w)' /\ HoldOK(w)'
  BY DEF CopyOK, HoldOK, Holding, NoRequest, Copying

\* A step of one request that may store the session it holds, writes nothing
\* else, does not evict, and keeps what it relies on in order.
LEMMA Quiet ==
    ASSUME IndInv, NEW w \in Workers, NEW r \in Request,
           request' = [request EXCEPT ![w] = r],
           request[w].at # "evicting", user # Null, CopyOK(w)',
           r.at \in Holding => r.session # Null,
           r.session # Null => Explained(r.session),
           \A s \in live' : s \in live \/ (s = request[w].session /\ s # Null),
           entered' \in BOOLEAN,
           UNCHANGED <<user, seed, past, forgetful, unevicted, seedDied>>
    PROVE  IndInv'
  <1>1. TypeOK'
    <2>1. live' \subseteq Session
      BY DEF IndInv, TypeOK, Request
    <2> QED
      BY <2>1 DEF IndInv, TypeOK
  <1>2. Unseeded'
    BY DEF Unseeded
  <1>3. ASSUME NEW v \in Workers, v # w PROVE request'[v] = request[v]
    BY <1>3 DEF IndInv, TypeOK
  <1>4. CopiesOK'
    <2> SUFFICES ASSUME NEW v \in Workers, v # w PROVE CopyOK(v)'
      BY DEF CopiesOK
    <2>1. CopyOK(v)
      BY DEF IndInv, CopiesOK
    <2> QED
      BY <1>3, <2>1 DEF CopyOK
  <1>5. Owed => Owed'
    <2>1. ASSUME NEW v \in Workers, request[v].at = "evicting"
          PROVE  request'[v].at = "evicting"
      BY <1>3, <2>1
    <2> QED
      BY <2>1 DEF Owed
  <1>6. HoldsOK'
    <2> SUFFICES ASSUME NEW v \in Workers PROVE HoldOK(v)'
      BY DEF HoldsOK
    <2>1. CASE v = w
      <3>1. request'[v] = r
        BY <2>1 DEF IndInv, TypeOK
      <3> QED
        BY <1>5, <3>1 DEF HoldOK, Explained
    <2>2. CASE v # w
      <3>1. request'[v] = request[v] /\ HoldOK(v)
        BY <1>3, <2>2 DEF IndInv, HoldsOK
      <3> QED
        BY <1>5, <3>1 DEF HoldOK, Explained
    <2> QED
      BY <2>1, <2>2
  <1>7. StaleSessionsExplained'
    <2> SUFFICES ASSUME NEW s \in live', s.password # user'.hash
                 PROVE  s.escaped \/ Owed'
      BY DEF StaleSessionsExplained, Owed
    <2>1. CASE s \in live
      BY <1>5, <2>1 DEF IndInv, StaleSessionsExplained, Owed
    <2>2. CASE s = request[w].session /\ s # Null
      BY <1>5, <2>2 DEF IndInv, HoldsOK, HoldOK, Explained
    <2> QED
      BY <2>1, <2>2
  <1>8. SeededIsOneTime' /\ HistoryIsPast'
    BY DEF IndInv, SeededIsOneTime, HistoryIsPast
  <1> QED
    BY <1>1, <1>2, <1>4, <1>6, <1>7, <1>8 DEF IndInv

LEMMA ReadOK ==
    ASSUME IndInv, NEW w \in Workers, LoginFind(w) \/ ChangeFind(w)
    PROVE  IndInv'
  <1> DEFINE place == IF LoginFind(w) THEN "verifying" ELSE "confirming"
  <1> DEFINE session ==
        IF LoginFind(w) THEN [password |-> user.hash, escaped |-> FALSE] ELSE Null
  <1> DEFINE r == [NoRequest EXCEPT !.at = place, !.user = user, !.session = session]
  <1>1. /\ request[w].at = "idle" /\ user # Null /\ user \in User
        /\ request' = [request EXCEPT ![w] = r]
        /\ UNCHANGED <<user, live, entered, seed, past, forgetful, unevicted, seedDied>>
    BY DEF LoginFind, ChangeFind, Read, IndInv, TypeOK
  <1>2. session \in Session \cup {Null} /\ (session # Null => session.password = user.hash)
    BY <1>1 DEF Session, User
  <1>3. \/ place = "verifying" /\ session \in Session
        \/ place = "confirming" /\ session = Null
    BY <1>1 DEF Session, User
  <1> HIDE DEF place, session
  <1>4. /\ r.at = place /\ r.user = user /\ r.session = session /\ r.overtaken = FALSE
        /\ r.newPassword = Null /\ r \in Request
    BY <1>1, <1>2, <1>3 DEF NoRequest, Request, Places, Copying
  <1> HIDE DEF r
  <1>5. request'[w] = r
    BY <1>1 DEF IndInv, TypeOK
  <1>6. CopyOK(w)'
    BY <1>1, <1>3, <1>4, <1>5 DEF CopyOK, Copying
  <1>7. /\ r.at \in Holding => r.session # Null
        /\ r.session # Null => Explained(r.session)
    BY <1>2, <1>3, <1>4, NullAssumption DEF Holding, Explained
  <1> QED
    BY <1>1, <1>4, <1>6, <1>7, Quiet DEF IndInv, TypeOK

\* A request that ends without a trace, or with the session it holds.
LEMMA FinishOK ==
    ASSUME IndInv, NEW w \in Workers, Finish(w),
           request[w].at # "evicting", request[w].at # "idle",
           \A s \in live' : s \in live \/ (s = request[w].session /\ s # Null),
           entered' \in BOOLEAN,
           UNCHANGED <<user, seed, past, forgetful, unevicted, seedDied>>
    PROVE  IndInv'
  <1>1. NoRequest \in Request /\ NoRequest.at \notin Holding /\ NoRequest.session = Null
    BY DEF NoRequest, Places, Request, Holding
  <1>2. user # Null
    BY DEF IndInv, Unseeded
  <1>3. request' = [request EXCEPT ![w] = NoRequest]
    BY DEF Finish
  <1>4. request'[w] = NoRequest
    BY <1>3 DEF IndInv, TypeOK
  <1>5. CopyOK(w)'
    BY <1>4, NothingOK
  <1> HIDE DEF NoRequest
  <1> QED
    BY <1>1, <1>2, <1>3, <1>5, Quiet

\* A request that goes on with what it has.
LEMMA GotoOK ==
    ASSUME IndInv, NEW w \in Workers, NEW place \in {"opening", "comparing", "renewing"},
           Goto(w, place),
           request[w].at = IF place = "opening" THEN "verifying"
                           ELSE IF place = "comparing" THEN "confirming" ELSE "rotating",
           live' \subseteq live,
           UNCHANGED <<user, entered, seed, past, forgetful, unevicted, seedDied>>
    PROVE  IndInv'
  <1> DEFINE r == [request[w] EXCEPT !.at = place]
  <1>1. request[w] \in Request
    BY DEF IndInv, TypeOK
  <1>2. /\ r \in Request /\ r.at = place /\ r.user = request[w].user
        /\ r.session = request[w].session /\ r.overtaken = request[w].overtaken
    BY <1>1 DEF Places, Copying, Request
  <1>3. user # Null /\ entered' \in BOOLEAN
    BY DEF IndInv, TypeOK, Unseeded
  <1>4. request' = [request EXCEPT ![w] = r]
    BY DEF Goto
  <1> HIDE DEF r
  <1>5. request'[w] = r
    BY <1>4 DEF IndInv, TypeOK
  <1>6. CopyOK(w) /\ HoldOK(w)
    BY DEF IndInv, CopiesOK, HoldsOK
  <1>7. CopyOK(w)'
    BY <1>2, <1>5, <1>6 DEF CopyOK, Copying
  <1>8. /\ r.at \in Holding => r.session # Null
        /\ r.session # Null => Explained(r.session)
    BY <1>2, <1>6 DEF HoldOK, Holding
  <1> QED
    BY <1>2, <1>3, <1>4, <1>7, <1>8, Quiet

LEMMA VerifyOK ==
    ASSUME IndInv, NEW w \in Workers, NEW p \in Passwords,
           LoginVerify(w, p) \/ ChangeVerify(w, p)
    PROVE  IndInv'
  <1>1. entered \in BOOLEAN
    BY DEF IndInv, TypeOK
  <1>2. CASE LoginVerify(w, p)
    BY <1>1, <1>2, GotoOK, FinishOK DEF LoginVerify
  <1>3. CASE ChangeVerify(w, p)
    BY <1>1, <1>3, GotoOK, FinishOK DEF ChangeVerify
  <1> QED
    BY <1>2, <1>3

\* The session that is stored is the one the request holds.
LEMMA StoreOK ==
    ASSUME IndInv, NEW w \in Workers, LoginOpen(w) \/ RefreshInsert(w)
    PROVE  IndInv'
  <1>1. /\ request[w].at \in {"opening", "renewing"} /\ Finish(w)
        /\ live' = live \cup {request[w].session}
        /\ entered' = TRUE \/ entered' = entered
        /\ UNCHANGED <<user, seed, past, forgetful, unevicted, seedDied>>
    BY DEF LoginOpen, RefreshInsert
  <1>2. request[w].session # Null
    BY <1>1 DEF IndInv, HoldsOK, HoldOK, Holding
  <1>3. entered' \in BOOLEAN
    BY <1>1 DEF IndInv, TypeOK
  <1>4. \A s \in live' : s \in live \/ (s = request[w].session /\ s # Null)
    BY <1>1, <1>2
  <1>5. request[w].at # "evicting" /\ request[w].at # "idle"
    BY <1>1
  <1> QED
    BY <1>1, <1>3, <1>4, <1>5, FinishOK

\* The session a refresh holds is one of those that are stored.
LEMMA RefreshFindOK ==
    ASSUME IndInv, NEW w \in Workers, NEW session \in live, RefreshFind(w, session)
    PROVE  IndInv'
  <1> DEFINE r == [NoRequest EXCEPT !.at = "rotating", !.session = session]
  <1>1. /\ request[w].at = "idle" /\ request' = [request EXCEPT ![w] = r]
        /\ UNCHANGED <<user, live, entered, seed, past, forgetful, unevicted, seedDied>>
    BY DEF RefreshFind
  <1>2. session \in Session /\ session # Null /\ Explained(session)
    BY NullAssumption DEF IndInv, TypeOK, StaleSessionsExplained, Explained, Owed
  <1>3. /\ r \in Request /\ r.at = "rotating" /\ r.session = session /\ r.overtaken = FALSE
    BY <1>2 DEF NoRequest, Request, Places
  <1> HIDE DEF r
  <1>4. request'[w] = r
    BY <1>1 DEF IndInv, TypeOK
  <1>5. CopyOK(w)'
    BY <1>3, <1>4 DEF CopyOK, Copying
  <1>6. user # Null /\ entered' \in BOOLEAN
    BY <1>1 DEF IndInv, Unseeded, TypeOK
  <1>7. /\ r.at \in Holding => r.session # Null
        /\ r.session # Null => Explained(r.session)
    BY <1>2, <1>3
  <1>8. request[w].at # "evicting"
    BY <1>1
  <1> QED
    BY <1>1, <1>3, <1>5, <1>6, <1>7, <1>8, Quiet

LEMMA RefreshRevokeOK ==
    ASSUME IndInv, NEW w \in Workers, RefreshRevoke(w)
    PROVE  IndInv'
  BY GotoOK DEF RefreshRevoke

LEMMA CompareOK ==
    ASSUME IndInv, NEW w \in Workers, NEW p \in Passwords, ChangeCompare(w, p)
    PROVE  IndInv'
  <1>1. CASE p \in Elements(History(request[w].user))
    BY <1>1, FinishOK DEF ChangeCompare, IndInv, TypeOK
  <1>2. CASE p \notin Elements(History(request[w].user))
    <2> DEFINE r == [request[w] EXCEPT !.at = "writing", !.newPassword = p]
    <2>1. request[w] \in Request
      BY DEF IndInv, TypeOK
    <2>2. /\ r \in Request /\ r.at = "writing" /\ r.newPassword = p
          /\ r.user = request[w].user /\ r.session = request[w].session
          /\ r.overtaken = request[w].overtaken
      BY <2>1 DEF Places, Copying, Request
    <2>3. /\ request[w].at = "comparing" /\ request' = [request EXCEPT ![w] = r]
          /\ UNCHANGED <<user, live, entered, seed, past, forgetful, unevicted, seedDied>>
      BY <1>2 DEF ChangeCompare, IndInv, TypeOK
    <2>4. user # Null /\ entered' \in BOOLEAN
      BY <2>3 DEF IndInv, TypeOK, Unseeded
    <2> HIDE DEF r
    <2>5. request'[w] = r
      BY <2>3 DEF IndInv, TypeOK
    <2>6. CopyOK(w) /\ HoldOK(w)
      BY DEF IndInv, CopiesOK, HoldsOK
    <2>7. CopyOK(w)'
      BY <1>2, <2>2, <2>3, <2>5, <2>6 DEF CopyOK, Copying
    <2>8. /\ r.at \in Holding => r.session # Null
          /\ r.session # Null => Explained(r.session)
      BY <2>2, <2>6 DEF HoldOK, Holding
    <2> QED
      BY <2>2, <2>3, <2>4, <2>7, <2>8, Quiet
  <1> QED
    BY <1>1, <1>2

LEMMA WriteOK ==
    ASSUME IndInv, NEW w \in Workers, ChangeWrite(w)
    PROVE  IndInv'
  <1> DEFINE doc == request[w].user
  <1>1. /\ request[w].at = "writing"
        /\ user' = [hash |-> request[w].newPassword, history |-> History(doc),
                    mustChangePassword |-> FALSE]
        /\ past' = <<user.hash>> \o past
        /\ forgetful' = (forgetful \/ request[w].overtaken)
        /\ OvertakeOthers(w)
        /\ UNCHANGED <<live, entered, seed, unevicted, seedDied>>
    BY DEF ChangeWrite
  <1>2. /\ doc \in User /\ request[w].newPassword \in Passwords
        /\ ~request[w].overtaken => doc.hash = user.hash /\ doc.history = user.history
        /\ request[w].overtaken \in BOOLEAN
        /\ user \in User
    BY <1>1 DEF IndInv, TypeOK, Unseeded, CopiesOK, CopyOK, Copying, Places, Request
  <1>3. History(doc) \in Seq(Passwords) /\ Len(History(doc)) <= HistorySize
    BY <1>2, HistoryIs
  <1>4. user' \in User /\ user'.history = History(doc)
    BY <1>1, <1>2, <1>3 DEF User
  <1>5. user.hash \in Passwords /\ past \in Seq(Passwords)
    BY <1>2 DEF User, IndInv, TypeOK
  <1>6. past' \in Seq(Passwords) /\ past' # <<>>
    <2>1. /\ <<user.hash>> \o past \in Seq(Passwords)
          /\ Len(<<user.hash>> \o past) = Len(past) + 1
      BY <1>5, PushIs
    <2>2. Len(past) \in Nat
      BY <1>5, LenProperties
    <2>3. past' \in Seq(Passwords) /\ Len(past') = Len(past) + 1
      BY <1>1, <2>1
    <2> QED
      BY <2>2, <2>3, EmptySeq
  <1>7. ASSUME NEW v \in Workers
        PROVE  request'[v] = IF v = w THEN [request[w] EXCEPT !.at = "evicting"]
                             ELSE [request[v] EXCEPT !.overtaken =
                                     @ \/ request[v].at \in Copying]
    BY <1>1 DEF OvertakeOthers
  <1>8. ASSUME NEW v \in Workers
        PROVE  /\ request'[v] \in Request
               /\ v = w => request'[v].at = "evicting"
               /\ v # w => /\ request'[v].at = request[v].at
                           /\ request'[v].user = request[v].user
                           /\ request'[v].newPassword = request[v].newPassword
                           /\ request'[v].session = request[v].session
                           /\ request'[v].overtaken =
                                (request[v].overtaken \/ request[v].at \in Copying)
    <2>1. request[v] \in Request
      BY DEF IndInv, TypeOK
    <2>2. CASE v = w
      <3>1. request'[v] = [request[v] EXCEPT !.at = "evicting"]
        BY <1>7, <2>2
      <3> QED
        BY <2>1, <2>2, <3>1 DEF Places, Request
    <2>3. CASE v # w
      <3>1. request'[v] = [request[v] EXCEPT !.overtaken = @ \/ request[v].at \in Copying]
        BY <1>7, <2>3
      <3> QED
        BY <2>1, <2>3, <3>1 DEF Request
    <2> QED
      BY <2>2, <2>3
  <1>9. TypeOK'
    <2>1. request' \in [Workers -> Request]
      BY <1>1, <1>8 DEF OvertakeOthers
    <2> QED
      BY <1>1, <1>2, <1>3, <1>4, <1>6, <2>1 DEF IndInv, TypeOK
  <1>10. CopiesOK'
    <2> SUFFICES ASSUME NEW v \in Workers PROVE CopyOK(v)'
      BY DEF CopiesOK
    <2>1. CASE v = w
      BY <1>8, <2>1 DEF CopyOK, Copying
    <2>2. CASE v # w
      <3>1. CopyOK(v)
        BY DEF IndInv, CopiesOK
      <3> QED
        BY <1>8, <2>2, <3>1 DEF CopyOK, Copying, Places
    <2> QED
      BY <2>1, <2>2
  <1>11. StaleSessionsExplained' /\ HoldsOK'
    <2>2. Owed'
      BY <1>8 DEF Owed
    <2>3. ASSUME NEW v \in Workers PROVE request'[v].at \in Holding => request'[v].session # Null
      BY <1>8 DEF IndInv, HoldsOK, HoldOK, Holding
    <2> QED
      BY <2>2, <2>3 DEF StaleSessionsExplained, HoldsOK, HoldOK, Explained, Owed
  <1>12. user' # Null
    BY <1>4, NullAssumption
  <1>13. SeededIsOneTime' /\ Unseeded'
    BY <1>6, <1>12 DEF SeededIsOneTime, Unseeded
  <1>14. HistoryIsPast'
    <2> SUFFICES ASSUME ~forgetful' PROVE user'.history = Latest(past')
      BY DEF HistoryIsPast
    <2>1. ~forgetful /\ ~request[w].overtaken
      BY <1>1
    <2>2. user # Null
      BY <1>2, NullAssumption
    <2>3. doc.hash = user.hash /\ doc.history = Latest(past)
      BY <1>2, <2>1, <2>2 DEF IndInv, HistoryIsPast
    <2>4. History(doc) = Latest(<<user.hash>> \o Latest(past))
      BY <2>3 DEF History
    <2> QED
      BY <1>1, <1>4, <1>5, <2>4, LatestOfPush
  <1> QED
    BY <1>9, <1>10, <1>11, <1>13, <1>14 DEF IndInv

\* What is stored is revoked, what is held is marked.
LEMMA EvictOK ==
    ASSUME IndInv, NEW w \in Workers, Evict(w)
    PROVE  IndInv'
  <1>1. /\ request[w].at = "evicting" /\ live' = {} /\ EscapeOthers(w)
        /\ UNCHANGED <<user, entered, seed, past, forgetful, unevicted, seedDied>>
    BY DEF Evict
  <1>2. user # Null
    BY <1>1 DEF IndInv, Unseeded
  <1>3. ASSUME NEW v \in Workers, v # w
        PROVE  /\ request'[v] \in Request
               /\ request'[v].at = request[v].at
               /\ request'[v].user = request[v].user
               /\ request'[v].newPassword = request[v].newPassword
               /\ request'[v].overtaken = request[v].overtaken
               /\ request[v].at \in Holding => request'[v].session # Null
               /\ request'[v].session # Null =>
                    request'[v].session.password = user.hash \/ request'[v].session.escaped
    <2>1. request[v] \in Request /\ HoldOK(v)
      BY DEF IndInv, TypeOK, HoldsOK
    <2>2. request'[v] = IF Escapes(v) THEN [request[v] EXCEPT !.session.escaped = TRUE]
                        ELSE request[v]
      BY <1>1, <1>3 DEF EscapeOthers
    <2>3. CASE Escapes(v)
      <3>1. request[v].session \in Session
        BY <2>1, <2>3 DEF Request, Escapes
      <3> DEFINE s == [request[v].session EXCEPT !.escaped = TRUE]
      <3>2. s \in Session /\ s.escaped = TRUE /\ s # Null
        BY <3>1, NullAssumption DEF Session
      <3>3. request'[v] = [request[v] EXCEPT !.session = s]
        BY <2>2, <2>3
      <3> HIDE DEF s
      <3>4. /\ request'[v] \in Request /\ request'[v].session = s
            /\ request'[v].at = request[v].at
            /\ request'[v].user = request[v].user
            /\ request'[v].newPassword = request[v].newPassword
            /\ request'[v].overtaken = request[v].overtaken
        BY <2>1, <3>2, <3>3 DEF Request
      <3> QED
        BY <3>2, <3>4
    <2>4. CASE ~Escapes(v)
      <3>1. request'[v] = request[v]
        BY <2>2, <2>4
      <3>2. request[v].session # Null => request[v].session.password = user.hash
        BY <2>4 DEF Escapes
      <3> QED
        BY <2>1, <3>1, <3>2 DEF HoldOK
    <2> QED
      BY <2>3, <2>4
  <1>4. request'[w] = NoRequest
    BY <1>1 DEF EscapeOthers
  <1>5. TypeOK'
    <2>1. NoRequest \in Request
      BY DEF NoRequest, Request, Places
    <2>2. ASSUME NEW v \in Workers PROVE request'[v] \in Request
      BY <1>3, <1>4, <2>1
    <2>3. request' \in [Workers -> Request]
      BY <1>1, <2>2 DEF EscapeOthers
    <2> QED
      BY <1>1, <2>3 DEF IndInv, TypeOK
  <1>6. ASSUME NEW v \in Workers PROVE CopyOK(v)' /\ HoldOK(v)'
    <2>1. CASE v = w
      BY <1>4, <2>1, NothingOK
    <2>2. CASE v # w
      <3>1. CopyOK(v)
        BY DEF IndInv, CopiesOK
      <3> QED
        BY <1>1, <1>3, <2>2, <3>1 DEF CopyOK, HoldOK, Explained
    <2> QED
      BY <2>1, <2>2
  <1>7. CopiesOK' /\ HoldsOK'
    BY <1>6 DEF CopiesOK, HoldsOK
  <1>8. StaleSessionsExplained'
    BY <1>1 DEF StaleSessionsExplained
  <1>9. Unseeded' /\ SeededIsOneTime' /\ HistoryIsPast'
    BY <1>1, <1>2 DEF IndInv, Unseeded, SeededIsOneTime, HistoryIsPast
  <1> QED
    BY <1>5, <1>7, <1>8, <1>9 DEF IndInv

\* A death before the revocation explains the sessions that stay.
LEMMA CrashOK ==
    ASSUME IndInv, NEW w \in Workers, Crash(w)
    PROVE  IndInv'
  <1>1. /\ request[w].at # "idle" /\ request' = [request EXCEPT ![w] = NoRequest]
        /\ unevicted' = (unevicted \/ request[w].at = "evicting")
        /\ UNCHANGED <<user, live, entered, seed, past, forgetful, seedDied>>
    BY DEF Crash, Finish
  <1>2. user # Null
    BY <1>1 DEF IndInv, Unseeded
  <1>3. TypeOK'
    BY <1>1 DEF IndInv, TypeOK, NoRequest, Places, Request
  <1>4. ASSUME NEW v \in Workers
        PROVE  request'[v] = request[v] \/ (v = w /\ request'[v] = NoRequest)
    BY <1>1 DEF IndInv, TypeOK
  <1>5. Owed => Owed'
    BY <1>1, <1>4 DEF Owed
  <1>6. ASSUME NEW v \in Workers PROVE CopyOK(v)' /\ HoldOK(v)'
    <2>1. CASE request'[v] = request[v]
      <3>1. CopyOK(v) /\ HoldOK(v)
        BY DEF IndInv, CopiesOK, HoldsOK
      <3> QED
        BY <1>1, <1>5, <2>1, <3>1 DEF CopyOK, HoldOK, Explained
    <2>2. CASE request'[v] = NoRequest
      BY <2>2, NothingOK
    <2> QED
      BY <1>4, <2>1, <2>2
  <1>7. CopiesOK' /\ HoldsOK'
    BY <1>6 DEF CopiesOK, HoldsOK
  <1>8. StaleSessionsExplained'
    BY <1>1, <1>5 DEF IndInv, StaleSessionsExplained, Owed
  <1>9. Unseeded' /\ SeededIsOneTime' /\ HistoryIsPast'
    BY <1>1, <1>2 DEF IndInv, Unseeded, SeededIsOneTime, HistoryIsPast
  <1> QED
    BY <1>3, <1>7, <1>8, <1>9 DEF IndInv

LEMMA EndOK ==
    ASSUME IndInv, NEW session \in live, End(session)
    PROVE  IndInv'
  <1>1. TypeOK' /\ Unseeded' /\ SeededIsOneTime' /\ HistoryIsPast'
    BY DEF End, IndInv, TypeOK, Unseeded, SeededIsOneTime, HistoryIsPast
  <1>2. CopiesOK' /\ HoldsOK' /\ StaleSessionsExplained'
    BY DEF End, IndInv, CopiesOK, CopyOK, HoldsOK, HoldOK, Explained, Owed,
         StaleSessionsExplained
  <1> QED
    BY <1>1, <1>2 DEF IndInv

LEMMA LatestOfNone ==
    ASSUME NEW none \in Seq(Passwords), Len(none) = 0
    PROVE  Latest(none) = none
  <1>1. HistorySize \in Nat /\ 0 <= HistorySize
    BY HistoryAssumption
  <1>2. /\ Latest(none) \in Seq(Passwords)
        /\ Len(Latest(none)) = IF Len(none) <= HistorySize THEN Len(none) ELSE HistorySize
    BY LatestIs
  <1>3. Len(Latest(none)) = 0
    BY <1>1, <1>2
  <1> QED
    BY <1>2, <1>3, SeqEqual

\* The creation starts from nothing.
LEMMA CreateOK ==
    ASSUME IndInv, NEW s \in Seeds, NEW p \in Passwords, SeedCreate(s, p), user = Null
    PROVE  IndInv'
  <1>1. PICK none \in Seq(Passwords) :
          /\ Len(none) = 0 /\ past = none
          /\ user' = [hash |-> p, history |-> none, mustChangePassword |-> FALSE]
    BY EmptySeq DEF SeedCreate, IndInv, Unseeded
  <1>2. /\ seed[s] = "creating"
        /\ seed' = [seed EXCEPT ![s] = "marking"]
        /\ UNCHANGED <<live, entered, request, past, forgetful, unevicted, seedDied>>
    BY DEF SeedCreate, SeedGoto
  <1>3. user' \in User /\ user' # Null /\ user'.history = none
    <2>1. user' \in User /\ user'.history = none
      BY <1>1 DEF User
    <2> QED
      BY <2>1, NullAssumption
  <1>4. seed'[s] = "marking"
    BY <1>2 DEF IndInv, TypeOK
  <1>5. live = {} /\ \A w \in Workers : request[w].at = "idle"
    BY DEF IndInv, Unseeded
  <1>10. Len(user'.history) <= HistorySize
    BY <1>1, <1>3, HistoryAssumption
  <1>6. TypeOK'
    BY <1>2, <1>3, <1>10 DEF IndInv, TypeOK, SeedPlaces
  <1>7. CopiesOK' /\ HoldsOK'
    <2>1. ASSUME NEW w \in Workers PROVE request[w].session = Null
      BY <1>5 DEF IndInv, Unseeded
    <2> QED
      BY <1>2, <1>5, <2>1 DEF IndInv, CopiesOK, CopyOK, Copying, HoldsOK, HoldOK, Holding
  <1>8. Unseeded' /\ StaleSessionsExplained' /\ SeededIsOneTime'
    BY <1>2, <1>3, <1>4, <1>5 DEF Unseeded, StaleSessionsExplained, SeededIsOneTime
  <1>9. HistoryIsPast'
    BY <1>1, <1>2, <1>3, LatestOfNone DEF HistoryIsPast
  <1> QED
    BY <1>6, <1>7, <1>8, <1>9 DEF IndInv

\* The other steps of the seed write at most the mark.
LEMMA SeedOK ==
    ASSUME IndInv, NEW s \in Seeds,
           \/ SeedLook(s) \/ SeedLookAgain(s) \/ SeedMark(s) \/ SeedDie(s)
           \/ user # Null /\ \E p \in Passwords : SeedCreate(s, p)
    PROVE  IndInv'
  <1>1. PICK place \in SeedPlaces \ {"marking"} : seed' = [seed EXCEPT ![s] = place]
    BY DEF SeedLook, SeedLookAgain, SeedMark, SeedDie, SeedCreate, SeedGoto, SeedPlaces
  <1>2. UNCHANGED <<live, entered, request, past, forgetful, unevicted>>
    BY DEF SeedLook, SeedLookAgain, SeedMark, SeedDie, SeedCreate
  <1>3. seed[s] = "marking" => SeedMark(s) \/ SeedDie(s)
    BY DEF SeedLook, SeedLookAgain, SeedCreate
  <1>4. UNCHANGED user \/ (SeedMark(s) /\ user' = [user EXCEPT !.mustChangePassword = TRUE])
    BY DEF SeedLook, SeedLookAgain, SeedMark, SeedDie, SeedCreate
  <1>5. SeedMark(s) => user # Null
    BY DEF SeedMark, IndInv, Unseeded
  <1>6. /\ user' \in User \cup {Null} /\ (user' = Null <=> user = Null)
        /\ user # Null => user'.hash = user.hash /\ user'.history = user.history
        /\ user # Null /\ user.mustChangePassword => user'.mustChangePassword
        /\ SeedMark(s) => user'.mustChangePassword
    <2>1. CASE UNCHANGED user
      <3>1. SeedMark(s) => user'.mustChangePassword
        BY <1>5, <2>1 DEF SeedMark, IndInv, TypeOK, User
      <3> QED
        BY <2>1, <3>1 DEF IndInv, TypeOK
    <2>2. CASE SeedMark(s) /\ user' = [user EXCEPT !.mustChangePassword = TRUE]
      <3>1. user \in User
        BY <1>5, <2>2 DEF IndInv, TypeOK
      <3>2. /\ user' \in User /\ user'.hash = user.hash /\ user'.history = user.history
            /\ user'.mustChangePassword = TRUE
        BY <2>2, <3>1 DEF User
      <3> QED
        BY <3>1, <3>2, NullAssumption
    <2> QED
      BY <1>4, <2>1, <2>2
  <1>7. seedDied' \in BOOLEAN /\ (seedDied => seedDied')
    BY DEF SeedLook, SeedLookAgain, SeedMark, SeedDie, SeedCreate, IndInv, TypeOK
  <1>8. TypeOK'
    BY <1>1, <1>2, <1>6, <1>7 DEF IndInv, TypeOK
  <1>9. CopiesOK'
    <2> SUFFICES ASSUME NEW w \in Workers PROVE CopyOK(w)'
      BY DEF CopiesOK
    <2>1. CopyOK(w)
      BY DEF IndInv, CopiesOK
    <2>2. request[w].at # "idle" => user # Null
      BY DEF IndInv, Unseeded
    <2> QED
      BY <1>2, <1>6, <2>1, <2>2 DEF CopyOK, Copying
  <1>10. Unseeded'
    BY <1>1, <1>2, <1>6 DEF IndInv, TypeOK, Unseeded
  <1>11. StaleSessionsExplained' /\ HoldsOK'
    <2>1. CASE user = Null
      BY <1>2, <2>1 DEF IndInv, Unseeded, StaleSessionsExplained, HoldsOK, HoldOK, Holding
    <2>2. CASE user # Null
      BY <1>2, <1>6, <2>2
         DEF IndInv, StaleSessionsExplained, HoldsOK, HoldOK, Explained, Owed
    <2> QED
      BY <2>1, <2>2
  <1>12. SeededIsOneTime'
    <2>1. CASE user = Null \/ past # <<>>
      BY <1>2, <1>6, <2>1 DEF SeededIsOneTime
    <2>2. CASE user # Null /\ (user.mustChangePassword \/ seedDied)
      BY <1>6, <1>7, <2>2 DEF SeededIsOneTime
    <2>3. ASSUME NEW t \in Seeds, seed[t] = "marking" PROVE SeededIsOneTime'
      <3>1. CASE t = s
        BY <1>3, <1>6, <2>3, <3>1 DEF SeedDie, SeededIsOneTime
      <3>2. CASE t # s
        <4>1. seed'[t] = "marking"
          BY <1>1, <2>3, <3>2 DEF IndInv, TypeOK
        <4> QED
          BY <4>1 DEF SeededIsOneTime
      <3> QED
        BY <3>1, <3>2
    <2> QED
      BY <2>1, <2>2, <2>3 DEF IndInv, SeededIsOneTime
  <1>13. HistoryIsPast'
    BY <1>2, <1>6 DEF IndInv, HistoryIsPast
  <1> QED
    BY <1>8, <1>9, <1>10, <1>11, <1>12, <1>13 DEF IndInv

LEMMA StepOK == IndInv /\ [Next]_vars => IndInv'
  <1> SUFFICES ASSUME IndInv, [Next]_vars PROVE IndInv'
    OBVIOUS
  <1>1. ASSUME NEW w \in Workers, Serve(w) PROVE IndInv'
    <2>1. ASSUME NEW session \in live, RefreshFind(w, session) PROVE IndInv'
      BY <2>1, RefreshFindOK
    <2>2. ASSUME NEW p \in Passwords,
                 LoginVerify(w, p) \/ ChangeVerify(w, p) \/ ChangeCompare(w, p)
          PROVE  IndInv'
      BY <2>2, VerifyOK, CompareOK
    <2> QED
      BY <1>1, <2>1, <2>2, ReadOK, StoreOK, RefreshRevokeOK, WriteOK, EvictOK, CrashOK DEF Serve
  <1>2. ASSUME NEW s \in Seeds, RunSeed(s) PROVE IndInv'
    BY <1>2, CreateOK, SeedOK DEF RunSeed
  <1>3. ASSUME NEW session \in live, End(session) PROVE IndInv'
    BY <1>3, EndOK
  <1>4. CASE UNCHANGED vars
    BY <1>4 DEF vars, IndInv, TypeOK, Unseeded, CopiesOK, CopyOK, HoldsOK, HoldOK, Explained, Owed,
                StaleSessionsExplained, SeededIsOneTime, HistoryIsPast
  <1> QED
    BY <1>1, <1>2, <1>3, <1>4 DEF Next

LEMMA Invariance == Spec => []IndInv
  BY InitOK, StepOK, PTL DEF Spec

-----------------------------------------------------------------------------
(* The properties.                                                         *)

\* Types; the stored history never grows beyond its size.
THEOREM TypeCorrect == Spec => []TypeOK
  BY Invariance, PTL DEF IndInv

\* A change evicts every session of an earlier password, but for those that a
\* login or a refresh was about to store and for deaths between its two writes.
THEOREM StaleSessions == Spec => []StaleSessionsExplained
  BY Invariance, PTL DEF IndInv

\* A seeded password stays marked as one-time, whatever runs beside the seed.
THEOREM SeededMark == Spec => []SeededIsOneTime
  BY Invariance, PTL DEF IndInv

\* As long as no two changes overlap, no password of the recent past returns.
THEOREM NoReuse == Spec => RecentNotReused
  <1> DEFINE Fine == past' # past /\ ~forgetful'
                       => user'.hash \notin Elements(Latest(<<user.hash>> \o past))
  <1>1. ASSUME IndInv, [Next]_vars PROVE [Fine]_vars
    <2> SUFFICES ASSUME past' # past, ~forgetful'
                 PROVE  user'.hash \notin Elements(Latest(<<user.hash>> \o past))
      OBVIOUS
    <2>1. PICK w \in Workers : ChangeWrite(w)
      <3>1. ~ UNCHANGED vars
        BY DEF vars
      <3>2. ASSUME NEW s \in Seeds, RunSeed(s) PROVE FALSE
        BY <3>2 DEF RunSeed, SeedLook, SeedLookAgain, SeedCreate, SeedMark, SeedDie
      <3>3. ASSUME NEW session \in live, End(session) PROVE FALSE
        BY <3>3 DEF End
      <3>4. ASSUME NEW w \in Workers, Serve(w) PROVE ChangeWrite(w)
        BY <3>4 DEF Serve, LoginFind, LoginVerify, LoginOpen, ChangeFind, ChangeVerify,
                    ChangeCompare, Evict, Crash, Read, RefreshFind, RefreshRevoke, RefreshInsert
      <3> QED
        BY <1>1, <3>1, <3>2, <3>3, <3>4 DEF Next
    <2>2. /\ request[w].at = "writing" /\ ~forgetful /\ ~request[w].overtaken
          /\ user' = [hash |-> request[w].newPassword, history |-> History(request[w].user),
                      mustChangePassword |-> FALSE]
      BY <2>1 DEF ChangeWrite
    <2>3. /\ user \in User /\ user # Null /\ past \in Seq(Passwords)
      BY <1>1, <2>2 DEF IndInv, TypeOK, Unseeded
    <2>4. CopyOK(w)
      BY <1>1 DEF IndInv, CopiesOK
    <2>5. /\ request[w].user.hash = user.hash
          /\ request[w].user.history = Latest(past)
          /\ user'.hash \notin Elements(History(request[w].user))
      BY <1>1, <2>2, <2>3, <2>4 DEF CopyOK, Copying, Places, IndInv, HistoryIsPast
    <2>6. History(request[w].user) = Latest(<<user.hash>> \o Latest(past))
      BY <2>5 DEF History
    <2>7. user.hash \in Passwords
      BY <2>3 DEF User
    <2> QED
      BY <2>3, <2>5, <2>6, <2>7, LatestOfPush
  <1> QED
    BY <1>1, Invariance, PTL DEF Spec, RecentNotReused, Fine
=============================================================================
