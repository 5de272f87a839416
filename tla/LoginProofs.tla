---------------------------- MODULE LoginProofs ----------------------------
(***************************************************************************)
(* Theorems about Login for any limit, any length of the lock and any      *)
(* bounds, with or without crashes.  Type correctness and the bound on     *)
(* wrong passwords without a lock are proved for any number of requests;   *)
(* two requests at once break each of the others.                          *)
(***************************************************************************)
EXTENDS Login, FiniteSetTheorems, FunctionTheorems, WellFoundedInduction, TLAPS

-----------------------------------------------------------------------------
(* Any number of requests.                                                 *)

\* A request that is checking a password holds the user it has read.
HasRead == \A w \in Workers : pc[w] = "verify" => copy[w] \in User

\* What login writes after either password is a user document.
LEMMA WrittenIsUser ==
    ASSUME TypeOK, NEW doc \in User
    PROVE  /\ AfterFailure(doc) \in User
           /\ AfterSuccess(doc) \in User
           /\ Store(AfterFailure(doc)) => user' \in User
           /\ Store(AfterSuccess(doc)) => user' \in User
<1>1. now + LockFor \in Nat /\ user.isActive \in BOOLEAN
  BY PolicyAssumption DEF TypeOK, User
<1>2. AfterFailure(doc) \in User
  <2> DEFINE failures == IF ReachesLimit(doc) THEN 0 ELSE doc.failedAttempts + 1
             lock == IF ReachesLimit(doc) THEN now + LockFor ELSE doc.lockedUntil
  <2>1. failures \in Nat /\ lock \in Nat \cup {Null} /\ doc.failedSinceLastLogin + 1 \in Nat
    BY <1>1 DEF User
  <2> HIDE DEF failures, lock
  <2>2. [doc EXCEPT !.failedAttempts = failures, !.failedSinceLastLogin = @ + 1,
                    !.lockedUntil = lock] \in User
    BY <2>1 DEF User
  <2> QED
    BY <2>2 DEF AfterFailure, failures, lock
<1>3. AfterSuccess(doc) \in User
  BY DEF AfterSuccess, User
<1>4. \A d \in User : [d EXCEPT !.isActive = user.isActive] \in User
  BY <1>1 DEF User
<1> QED
  BY <1>2, <1>3, <1>4 DEF Store

LEMMA InitType == Init => TypeOK /\ HasRead
BY DEF Init, TypeOK, HasRead, User, Places

LEMMA TypeStep == TypeOK /\ HasRead /\ [Next]_vars => TypeOK' /\ HasRead'
<1> SUFFICES ASSUME TypeOK, HasRead, [Next]_vars
             PROVE  TypeOK' /\ HasRead'
  OBVIOUS
<1> USE DEF TypeOK, HasRead, Places
<1>1. ASSUME NEW w \in Workers, Find(w)
      PROVE  TypeOK' /\ HasRead'
  <2>1. Admission(user) \in {"locked", "deactivated", "verify"}
    BY DEF Admission
  <2> QED
    BY <1>1, <2>1 DEF Find
<1>2. ASSUME NEW w \in Workers, WrongPassword(w)
      PROVE  TypeOK' /\ HasRead'
  <2>1. copy[w] \in User
    BY <1>2 DEF WrongPassword
  <2>2. user' \in User
    BY <1>2, <2>1, WrittenIsUser DEF WrongPassword
  <2> QED
    BY <1>2, <2>2 DEF WrongPassword
<1>3. ASSUME NEW w \in Workers, RightPassword(w)
      PROVE  TypeOK' /\ HasRead'
  <2>1. copy[w] \in User
    BY <1>3 DEF RightPassword
  <2>2. user' \in User
    BY <1>3, <2>1, WrittenIsUser DEF RightPassword
  <2> QED
    BY <1>3, <2>2 DEF RightPassword
<1>4. ASSUME NEW w \in Workers, Answer(w) \/ Crash(w)
      PROVE  TypeOK' /\ HasRead'
  BY <1>4 DEF Answer, Crash
<1>5. CASE Deactivate
  BY <1>5 DEF Deactivate, User
<1>6. CASE Tick
  BY <1>6 DEF Tick
<1>7. CASE UNCHANGED vars
  BY <1>7 DEF vars
<1> QED
  BY <1>1, <1>2, <1>3, <1>4, <1>5, <1>6, <1>7 DEF Next

\* Documents, copies and counts are well typed, with any number of requests.
THEOREM TypeCorrect == Spec => []TypeOK
<1> QED
  BY InitType, TypeStep, PTL DEF Spec

-----------------------------------------------------------------------------
(* One request at a time.                                                  *)

\* What the request holds is what is stored, but for isActive, which login
\* does not write; the operator is not locked while it checks a password.
CopyIsFresh ==
    \A w \in Workers : pc[w] = "verify" =>
        /\ copy[w].failedAttempts = user.failedAttempts
        /\ copy[w].failedSinceLastLogin = user.failedSinceLastLogin
        /\ copy[w].lockedUntil = user.lockedUntil
        /\ ~Locked(user)

\* The stored counters count what happened.
CountersTrue ==
    /\ user.failedAttempts = wrong
    /\ user.failedSinceLastLogin = wrongSince

SerialInv ==
    /\ TypeOK
    /\ HasRead
    /\ CopyIsFresh
    /\ CountersTrue
    /\ LocksAfterLimit

\* The first state: nothing counted, nothing read.
LEMMA SerialInit == Init => SerialInv
<1> SUFFICES ASSUME Init
             PROVE  SerialInv
  OBVIOUS
<1>1. CopyIsFresh /\ CountersTrue /\ LocksAfterLimit
  BY PolicyAssumption DEF Init, CopyIsFresh, CountersTrue, LocksAfterLimit
<1> QED
  BY <1>1, InitType DEF SerialInv

\* The fields a step of login writes, when its copy is what is stored.
LEMMA WrongPasswordWrites ==
    ASSUME SerialInv, NEW w \in Workers, WrongPassword(w)
    PROVE  /\ user'.failedSinceLastLogin = user.failedSinceLastLogin + 1
           /\ ~Locked(user)
           /\ \/ /\ user.failedAttempts + 1 = MaxFailedAttempts
                 /\ user'.failedAttempts = 0
                 /\ user'.lockedUntil = now + LockFor
                 /\ wrong' = 0
              \/ /\ user.failedAttempts + 1 < MaxFailedAttempts
                 /\ user'.failedAttempts = user.failedAttempts + 1
                 /\ user'.lockedUntil = user.lockedUntil
                 /\ wrong' = wrong + 1
<1>1. copy[w] \in User
  BY DEF WrongPassword, SerialInv, HasRead
<1>2. /\ copy[w].failedAttempts = user.failedAttempts
      /\ copy[w].failedSinceLastLogin = user.failedSinceLastLogin
      /\ copy[w].lockedUntil = user.lockedUntil
      /\ ~Locked(user)
  BY DEF WrongPassword, SerialInv, CopyIsFresh
<1>3. /\ user'.failedAttempts = AfterFailure(copy[w]).failedAttempts
      /\ user'.failedSinceLastLogin = AfterFailure(copy[w]).failedSinceLastLogin
      /\ user'.lockedUntil = AfterFailure(copy[w]).lockedUntil
  <2>1. AfterFailure(copy[w]) \in User
    BY <1>1, WrittenIsUser DEF SerialInv
  <2> QED
    BY <2>1 DEF WrongPassword, Store, User
<1>4. /\ AfterFailure(copy[w]).failedAttempts
           = (IF ReachesLimit(copy[w]) THEN 0 ELSE copy[w].failedAttempts + 1)
      /\ AfterFailure(copy[w]).failedSinceLastLogin = copy[w].failedSinceLastLogin + 1
      /\ AfterFailure(copy[w]).lockedUntil
           = (IF ReachesLimit(copy[w]) THEN now + LockFor ELSE copy[w].lockedUntil)
  BY <1>1 DEF AfterFailure, User
<1>5. user.failedAttempts \in Nat /\ user.failedAttempts < MaxFailedAttempts
  BY DEF SerialInv, TypeOK, User, CountersTrue, LocksAfterLimit
<1>6. wrong' = IF ReachesLimit(copy[w]) THEN 0 ELSE wrong + 1
  BY DEF WrongPassword
<1> QED
  BY <1>2, <1>3, <1>4, <1>5, <1>6, PolicyAssumption DEF ReachesLimit

LEMMA RightPasswordWrites ==
    ASSUME SerialInv, NEW w \in Workers, RightPassword(w)
    PROVE  /\ ~Locked(user)
           /\ user'.failedAttempts = 0
           /\ user'.failedSinceLastLogin = 0
           /\ user'.lockedUntil = Null
           /\ copy[w].failedSinceLastLogin = wrongSince
<1>1. copy[w] \in User
  BY DEF RightPassword, SerialInv, HasRead
<1>2. copy[w].failedSinceLastLogin = user.failedSinceLastLogin /\ ~Locked(user)
  BY DEF RightPassword, SerialInv, CopyIsFresh
<1> QED
  BY <1>1, <1>2 DEF RightPassword, Store, AfterSuccess, User, SerialInv, CountersTrue

\* With one request, nothing comes between its read and its write but the
\* clock and an administrator.
LEMMA SerialStep ==
    ASSUME NEW request, Workers = {request}
    PROVE  SerialInv /\ [Next]_vars => SerialInv'
<1> SUFFICES ASSUME SerialInv, [Next]_vars
             PROVE  CopyIsFresh' /\ CountersTrue' /\ LocksAfterLimit'
  BY TypeStep DEF SerialInv
<1>t. /\ TypeOK /\ HasRead /\ CopyIsFresh /\ CountersTrue /\ LocksAfterLimit
      /\ pc \in [Workers -> Places] /\ now \in Nat /\ wrong \in Nat /\ wrongSince \in Nat
      /\ copy \in [Workers -> User \cup {Null}]
  BY DEF SerialInv, TypeOK
<1>1. ASSUME NEW w \in Workers, Find(w)
      PROVE  CopyIsFresh' /\ CountersTrue' /\ LocksAfterLimit'
  BY <1>t, <1>1 DEF Find, Admission, Locked, CopyIsFresh, CountersTrue, LocksAfterLimit
<1>2. ASSUME NEW w \in Workers, WrongPassword(w)
      PROVE  CopyIsFresh' /\ CountersTrue' /\ LocksAfterLimit'
  <2>1. CopyIsFresh'
    BY <1>t, <1>2 DEF WrongPassword, CopyIsFresh
  <2>2. CountersTrue' /\ LocksAfterLimit'
    BY <1>t, <1>2, WrongPasswordWrites, PolicyAssumption
       DEF WrongPassword, CountersTrue, LocksAfterLimit
  <2> QED
    BY <2>1, <2>2
<1>3. ASSUME NEW w \in Workers, RightPassword(w)
      PROVE  CopyIsFresh' /\ CountersTrue' /\ LocksAfterLimit'
  <2>1. CopyIsFresh'
    BY <1>t, <1>3 DEF RightPassword, CopyIsFresh
  <2>2. CountersTrue' /\ LocksAfterLimit'
    BY <1>t, <1>3, RightPasswordWrites, PolicyAssumption
       DEF RightPassword, CountersTrue, LocksAfterLimit
  <2> QED
    BY <2>1, <2>2
<1>4. ASSUME NEW w \in Workers, Answer(w) \/ Crash(w)
      PROVE  CopyIsFresh' /\ CountersTrue' /\ LocksAfterLimit'
  BY <1>t, <1>4 DEF Answer, Crash, CopyIsFresh, CountersTrue, LocksAfterLimit
<1>5. CASE Deactivate
  <2>1. /\ user'.failedAttempts = user.failedAttempts
        /\ user'.failedSinceLastLogin = user.failedSinceLastLogin
        /\ user'.lockedUntil = user.lockedUntil
    BY <1>t, <1>5 DEF Deactivate, TypeOK, User
  <2> QED
    BY <1>t, <1>5, <2>1 DEF Deactivate, CopyIsFresh, CountersTrue, LocksAfterLimit, Locked
<1>6. CASE Tick
  <2>1. ~Locked(user) => ~Locked(user)'
    <3>1. user.lockedUntil \in Nat \cup {Null}
      BY <1>t DEF TypeOK, User
    <3> QED
      BY <1>t, <1>6, <3>1 DEF Tick, Locked
  <2> QED
    BY <1>t, <1>6, <2>1 DEF Tick, CopyIsFresh, CountersTrue, LocksAfterLimit
<1>7. CASE UNCHANGED vars
  BY <1>t, <1>7 DEF vars, CopyIsFresh, CountersTrue, LocksAfterLimit, Locked
<1> QED
  BY <1>1, <1>2, <1>3, <1>4, <1>5, <1>6, <1>7 DEF Next

LEMMA SerialInvariance ==
    ASSUME NEW request, Workers = {request}
    PROVE  Spec => []SerialInv
<1>1. SerialInv /\ [Next]_vars => SerialInv'
  BY SerialStep
<1> QED
  BY <1>1, SerialInit, PTL DEF Spec

\* One request at a time, the limit's number of wrong passwords never goes by
\* without a lock or a login between them.
THEOREM LimitLocks ==
    ASSUME NEW request, Workers = {request}
    PROVE  Spec => []LocksAfterLimit
<1>1. SerialInv => LocksAfterLimit
  BY DEF SerialInv
<1> QED
  BY <1>1, SerialInvariance, PTL

\* One request at a time, the operator is told the number of wrong passwords
\* since the last login.
THEOREM ReportTrue ==
    ASSUME NEW request, Workers = {request}
    PROVE  Spec => FailuresReported
<1>1. SerialInv /\ [Next]_vars
        => [\A w \in Workers : pc[w] = "verify" /\ pc'[w] = "entered"
               => copy[w].failedSinceLastLogin = wrongSince]_vars
  <2> SUFFICES ASSUME SerialInv, Next, NEW w \in Workers,
                      pc[w] = "verify", pc'[w] = "entered"
               PROVE  copy[w].failedSinceLastLogin = wrongSince
    OBVIOUS
  <2>1. copy[w].failedSinceLastLogin = user.failedSinceLastLogin
    BY DEF SerialInv, CopyIsFresh
  <2> QED
    BY <2>1 DEF SerialInv, CountersTrue
<1> QED
  BY <1>1, SerialInvariance, PTL DEF Spec, FailuresReported

\* One request at a time, a lock stands until it expires.
THEOREM LockHolds ==
    ASSUME NEW request, Workers = {request}
    PROVE  Spec => LockStands
<1>1. SerialInv /\ [Next]_vars
        => [Locked(user) => /\ user'.lockedUntil # Null
                            /\ user'.lockedUntil >= user.lockedUntil]_vars
  <2> SUFFICES ASSUME SerialInv, Next, Locked(user)
               PROVE  user'.lockedUntil # Null /\ user'.lockedUntil >= user.lockedUntil
    OBVIOUS
  <2>1. user.lockedUntil \in Nat /\ user.lockedUntil # Null
    BY DEF Locked, SerialInv, TypeOK, User
  <2>2. user'.lockedUntil = user.lockedUntil
    <3>1. ASSUME NEW w \in Workers, Find(w) \/ Answer(w) \/ Crash(w)
          PROVE  user' = user
      BY <3>1 DEF Find, Answer, Crash
    <3>2. ASSUME NEW w \in Workers
          PROVE  ~WrongPassword(w) /\ ~RightPassword(w)
      BY <3>2, WrongPasswordWrites, RightPasswordWrites
    <3>3. CASE Deactivate
      BY <3>3 DEF Deactivate, SerialInv, TypeOK, User
    <3>4. CASE Tick
      BY <3>4 DEF Tick
    <3> QED
      BY <3>1, <3>2, <3>3, <3>4 DEF Next
  <2> QED
    BY <2>1, <2>2
<1> QED
  BY <1>1, SerialInvariance, PTL DEF Spec, LockStands

\* One request at a time, login implements the lockout policy.
THEOREM Refinement ==
    ASSUME NEW request, Workers = {request}
    PROVE  Spec => ImplementsPolicy
<1>1. Init => Policy!Init
  BY DEF Init, Policy!Init
<1>2. SerialInv /\ [Next]_vars => [Policy!Next]_Policy!vars
  <2> SUFFICES ASSUME SerialInv, [Next]_vars
               PROVE  Policy!Next \/ UNCHANGED Policy!vars
    OBVIOUS
  <2>1. ASSUME NEW w \in Workers, Find(w) \/ Answer(w) \/ Crash(w)
        PROVE  UNCHANGED Policy!vars
    BY <2>1 DEF Find, Answer, Crash, Policy!vars
  <2>2. ASSUME NEW w \in Workers, WrongPassword(w)
        PROVE  Policy!Fail \/ Policy!FailAndLock
    BY <2>2, WrongPasswordWrites
       DEF WrongPassword, Policy!Fail, Policy!FailAndLock, Policy!Locked, Locked
  <2>3. ASSUME NEW w \in Workers, RightPassword(w)
        PROVE  Policy!Succeed
    BY <2>3, RightPasswordWrites DEF RightPassword, Policy!Succeed, Policy!Locked, Locked
  <2>4. CASE Deactivate
    BY <2>4 DEF Deactivate, Policy!vars, SerialInv, TypeOK, User
  <2>5. CASE Tick
    BY <2>5 DEF Tick, Policy!Next, Policy!Tick
  <2>6. CASE UNCHANGED vars
    BY <2>6 DEF vars, Policy!vars
  <2> QED
    BY <2>1, <2>2, <2>3, <2>4, <2>5, <2>6 DEF Next, Policy!Next
<1> QED
  BY <1>1, <1>2, SerialInvariance, PTL DEF Spec, ImplementsPolicy, Policy!Spec

-----------------------------------------------------------------------------
(* Natural numbers and the factorial.                                      *)

\* Every set of numbers that is not empty has a least one.
LEMMA LeastNatural ==
    ASSUME NEW T, T \subseteq Nat, T # {}
    PROVE  \E n \in T : \A m \in T : n <= m
<1> DEFINE R == OpToRel(<, Nat)
<1>1. IsWellFoundedOn(R, Nat)
  BY NatLessThanWellFounded
<1>2. \A m, n \in Nat : m < n => <<m, n>> \in R
  BY DEF OpToRel
<1> HIDE DEF R
<1>3. \E n \in T : \A m \in T : ~(<<m, n>> \in R)
  BY <1>1, WFMin
<1>4. PICK n \in T : \A m \in T : ~(<<m, n>> \in R)
  BY <1>3
<1>5. ASSUME NEW m \in T PROVE n <= m
  <2>1. ~(<<m, n>> \in R) /\ m \in Nat /\ n \in Nat
    BY <1>4
  <2>2. ~(m < n)
    BY <1>2, <2>1
  <2> QED
    BY <2>1, <2>2
<1> QED
  BY <1>5

\* Induction, over sets: for an operator the provers have no induction.
LEMMA Induction ==
    ASSUME NEW T, 0 \in T, \A n \in Nat : n \in T => n + 1 \in T
    PROVE  \A n \in Nat : n \in T
<1> SUFFICES ASSUME Nat \ T # {} PROVE FALSE
  OBVIOUS
<1>1. PICK n \in Nat \ T : \A m \in Nat \ T : n <= m
  BY LeastNatural
<1>2. n # 0 /\ n - 1 \in Nat /\ ~(n <= n - 1) /\ (n - 1) + 1 = n
  OBVIOUS
<1>3. n - 1 \in T
  BY <1>1, <1>2
<1> QED
  BY <1>2, <1>3

\* The factorials of 0 to n.
Partial(f, n) ==
    /\ f \in [0..n -> Nat]
    /\ \A i \in 0..n : f[i] = IF i = 0 THEN 1 ELSE i * f[i - 1]

\* There are some for each n,
LEMMA PartialExists == \A n \in Nat : \E f : Partial(f, n)
<1> DEFINE T == {n \in Nat : \E f : Partial(f, n)}
<1>1. 0 \in T
  <2>1. Partial([i \in 0..0 |-> 1], 0)
    BY DEF Partial
  <2> QED
    BY <2>1
<1>2. ASSUME NEW n \in Nat, n \in T
      PROVE  n + 1 \in T
  <2>1. PICK f : Partial(f, n)
    BY <1>2
  <2>2. PICK g : g = [i \in 0..(n + 1) |-> IF i = n + 1 THEN (n + 1) * f[n] ELSE f[i]]
    OBVIOUS
  <2>3. \A i \in 0..n : f[i] \in Nat
    BY <2>1 DEF Partial
  <2>4. n \in 0..n /\ (n + 1) * f[n] \in Nat
    BY <2>3
  <2>5. g \in [0..(n + 1) -> Nat]
    BY <2>2, <2>3, <2>4
  <2>6. ASSUME NEW i \in 0..(n + 1)
        PROVE  g[i] = IF i = 0 THEN 1 ELSE i * g[i - 1]
    <3>1. CASE i = n + 1
      <4>1. i - 1 = n /\ n \in 0..(n + 1) /\ n # n + 1 /\ i # 0
        BY <3>1
      <4>2. g[i - 1] = f[n] /\ g[i] = (n + 1) * f[n]
        BY <2>2, <3>1, <4>1
      <4> QED
        BY <3>1, <4>1, <4>2
    <3>2. CASE i # n + 1
      <4>1. i \in 0..n /\ g[i] = f[i]
        BY <2>2, <3>2
      <4>2. f[i] = IF i = 0 THEN 1 ELSE i * f[i - 1]
        BY <2>1, <4>1 DEF Partial
      <4>3. i # 0 => g[i - 1] = f[i - 1]
        BY <2>2, <4>1
      <4> QED
        BY <4>1, <4>2, <4>3
    <3> QED
      BY <3>1, <3>2
  <2>7. Partial(g, n + 1)
    BY <2>5, <2>6 DEF Partial
  <2> QED
    BY <2>7
<1>3. \A n \in Nat : n \in T
  <2> HIDE DEF T
  <2> QED
    BY <1>1, <1>2, Induction
<1> QED
  BY <1>3

\* and they agree with one another.
LEMMA PartialUnique ==
    ASSUME NEW k \in Nat, NEW n \in Nat, NEW f, NEW g, Partial(f, k), Partial(g, n)
    PROVE  \A i \in 0..k : i <= n => f[i] = g[i]
<1> DEFINE T == {i \in Nat : i <= k /\ i <= n => f[i] = g[i]}
<1>1. 0 \in T
  BY DEF Partial
<1>2. ASSUME NEW i \in Nat, i \in T
      PROVE  i + 1 \in T
  <2> SUFFICES ASSUME i + 1 <= k, i + 1 <= n PROVE f[i + 1] = g[i + 1]
    OBVIOUS
  <2>1. f[i] = g[i]
    BY <1>2
  <2>2. i + 1 \in 0..k /\ i + 1 \in 0..n /\ i + 1 # 0 /\ (i + 1) - 1 = i
    OBVIOUS
  <2>3. f[i + 1] = (i + 1) * f[i] /\ g[i + 1] = (i + 1) * g[i]
    BY <2>2 DEF Partial
  <2> QED
    BY <2>1, <2>3
<1>3. \A i \in Nat : i \in T
  <2> HIDE DEF T
  <2> QED
    BY <1>1, <1>2, Induction
<1> QED
  BY <1>3

\* So the factorial is what its recursive definition says.
LEMMA FactorialFields ==
  /\ factorial[0] = 1
  /\ \A n \in Nat : factorial[n + 1] = (n + 1) * factorial[n]
  /\ \A n \in Nat : factorial[n] \in Nat /\ factorial[n] > 0
<1> DEFINE F == [n \in Nat |-> (CHOOSE f : Partial(f, n))[n]]
           Is(f) == f = [n \in Nat |-> IF n = 0 THEN 1 ELSE n * f[n - 1]]
<1>1. \A n \in Nat : Partial(CHOOSE f : Partial(f, n), n)
  BY PartialExists
<1>2. ASSUME NEW n \in Nat
      PROVE  F[n] = IF n = 0 THEN 1 ELSE n * F[n - 1]
  <2>1. PICK f : f = CHOOSE g : Partial(g, n)
    OBVIOUS
  <2>2. Partial(f, n) /\ F[n] = f[n]
    BY <1>1, <2>1
  <2>3. f[n] = IF n = 0 THEN 1 ELSE n * f[n - 1]
    BY <2>2 DEF Partial
  <2>4. ASSUME n # 0 PROVE f[n - 1] = F[n - 1]
    <3>1. n - 1 \in Nat
      BY <2>4
    <3>2. PICK h : h = CHOOSE g : Partial(g, n - 1)
      OBVIOUS
    <3>3. Partial(h, n - 1) /\ F[n - 1] = h[n - 1]
      BY <1>1, <3>1, <3>2
    <3>4. n - 1 \in 0..(n - 1) /\ n - 1 <= n
      BY <3>1
    <3> HIDE DEF F
    <3> QED
      BY <2>2, <3>1, <3>3, <3>4, PartialUnique
  <2> QED
    BY <2>2, <2>3, <2>4
<1>3. Is(F)
  <2> HIDE DEF F
  <2> SUFFICES F = [n \in Nat |-> IF n = 0 THEN 1 ELSE n * F[n - 1]]
    OBVIOUS
  <2>1. F = [n \in Nat |-> F[n]]
    BY DEF F
  <2> QED
    BY <1>2, <2>1
<1>4. Is(factorial)
  <2>1. factorial = CHOOSE f : Is(f)
    BY DEF factorial
  <2> HIDE DEF F, Is
  <2> QED
    BY <1>3, <2>1
<1>5. \A n \in Nat : factorial[n] = IF n = 0 THEN 1 ELSE n * factorial[n - 1]
  BY <1>4
<1>6. factorial[0] = 1 /\ \A n \in Nat : factorial[n + 1] = (n + 1) * factorial[n]
  <2>1. \A n \in Nat : n + 1 \in Nat /\ n + 1 # 0 /\ (n + 1) - 1 = n
    OBVIOUS
  <2> QED
    BY <1>5, <2>1
<1> DEFINE T == {n \in Nat : factorial[n] \in Nat /\ factorial[n] > 0}
<1>7. 0 \in T /\ \A n \in Nat : n \in T => n + 1 \in T
  <2>1. \A m, n \in Nat : m > 0 => (n + 1) * m \in Nat /\ (n + 1) * m > 0
    OBVIOUS
  <2> QED
    BY <1>6, <2>1
<1>8. \A n \in Nat : n \in T
  <2> HIDE DEF T
  <2> QED
    BY <1>7, Induction
<1> QED
  BY <1>6, <1>8

-----------------------------------------------------------------------------
(* Profiles, and how many there are.                                       *)

\* Weakly increasing functions from 1..n to 0..m.
Profiles(n, m) ==
    {f \in [1..n -> 0..m] : \A i, j \in 1..n : i <= j => f[i] <= f[j]}

\* Those that end at the top.
Topped(n, m) == {f \in Profiles(n, m) : f[n] = m}

\* With no place, or with one value, there is one.
LEMMA ProfilesBase ==
    ASSUME NEW k \in Nat
    PROVE  /\ \E f : Profiles(0, k) = {f}
           /\ \E f : Profiles(k, 0) = {f}
<1>1. Profiles(0, k) = {[i \in 1..0 |-> 0]}
  <2>1. [i \in 1..0 |-> 0] \in Profiles(0, k)
    BY DEF Profiles
  <2>2. ASSUME NEW f \in Profiles(0, k)
        PROVE  f = [i \in 1..0 |-> 0]
    BY DEF Profiles
  <2> QED
    BY <2>1, <2>2
<1>2. Profiles(k, 0) = {[i \in 1..k |-> 0]}
  <2>1. [i \in 1..k |-> 0] \in Profiles(k, 0)
    BY DEF Profiles
  <2>2. ASSUME NEW f \in Profiles(k, 0)
        PROVE  f = [i \in 1..k |-> 0]
    BY DEF Profiles
  <2> QED
    BY <2>1, <2>2
<1> QED
  BY <1>1, <1>2

\* A function ends at the top or has one value less,
LEMMA ProfilesSplit ==
    ASSUME NEW n \in Nat, NEW m \in Nat
    PROVE  /\ Profiles(n + 1, m + 1) = Profiles(n + 1, m) \cup Topped(n + 1, m + 1)
           /\ Profiles(n + 1, m) \cap Topped(n + 1, m + 1) = {}
<1>1. n + 1 \in 1..(n + 1) /\ m + 1 \in Nat
  OBVIOUS
<1>2. ASSUME NEW f \in Profiles(n + 1, m)
      PROVE  f \in Profiles(n + 1, m + 1) /\ f \notin Topped(n + 1, m + 1)
  <2>1. f \in [1..(n + 1) -> 0..(m + 1)] /\ f[n + 1] # m + 1
    BY <1>1 DEF Profiles
  <2> QED
    BY <2>1 DEF Profiles, Topped
<1>3. ASSUME NEW f \in Profiles(n + 1, m + 1), f \notin Topped(n + 1, m + 1)
      PROVE  f \in Profiles(n + 1, m)
  <2>1. f[n + 1] \in 0..(m + 1) /\ f[n + 1] # m + 1
    BY <1>1, <1>3 DEF Profiles, Topped
  <2>2. \A i \in 1..(n + 1) : f[i] \in 0..(m + 1) /\ f[i] <= f[n + 1]
    BY <1>1 DEF Profiles
  <2>3. f \in [1..(n + 1) -> 0..m]
    BY <2>1, <2>2 DEF Profiles
  <2> QED
    BY <2>3 DEF Profiles
<1> QED
  BY <1>2, <1>3 DEF Topped

\* and in the first case it is one with a place less.
LEMMA ToppedCount ==
    ASSUME NEW n \in Nat, NEW m \in Nat, IsFiniteSet(Profiles(n, m + 1))
    PROVE  /\ IsFiniteSet(Topped(n + 1, m + 1))
           /\ Cardinality(Topped(n + 1, m + 1)) = Cardinality(Profiles(n, m + 1))
<1> DEFINE Raised(f) == [i \in 1..(n + 1) |-> IF i = n + 1 THEN m + 1 ELSE f[i]]
           S == Profiles(n, m + 1)
           T == Topped(n + 1, m + 1)
           F == [f \in S |-> Raised(f)]
<1>1. ASSUME NEW f \in S
      PROVE  /\ Raised(f) \in T
             /\ \A i \in 1..n : Raised(f)[i] = f[i]
  <2>1. f \in [1..n -> 0..(m + 1)] /\ \A i, j \in 1..n : i <= j => f[i] <= f[j]
    BY DEF Profiles
  <2>2. PICK g : g = Raised(f)
    OBVIOUS
  <2>3. /\ g \in [1..(n + 1) -> 0..(m + 1)] /\ g[n + 1] = m + 1
        /\ \A i \in 1..n : g[i] = f[i]
    <3>1. \A i \in 1..(n + 1) : i # n + 1 => i \in 1..n
      OBVIOUS
    <3>2. m + 1 \in 0..(m + 1) /\ n + 1 \in 1..(n + 1) /\ n + 1 \notin 1..n
          /\ 1..n \subseteq 1..(n + 1)
      OBVIOUS
    <3> QED
      BY <2>1, <2>2, <3>1, <3>2
  <2>4. ASSUME NEW i \in 1..(n + 1), NEW j \in 1..(n + 1), i <= j
        PROVE  g[i] <= g[j]
    <3>1. CASE j = n + 1
      BY <2>3, <3>1
    <3>2. CASE j # n + 1
      <4>1. i \in 1..n /\ j \in 1..n
        BY <2>4, <3>2
      <4> QED
        BY <2>1, <2>3, <2>4, <4>1
    <3> QED
      BY <3>1, <3>2
  <2>5. g \in T
    BY <2>3, <2>4 DEF Profiles, Topped
  <2> QED
    BY <2>2, <2>3, <2>5
<1>2. ASSUME NEW f \in S, NEW g \in S, Raised(f) = Raised(g)
      PROVE  f = g
  <2>1. \A i \in 1..n : f[i] = g[i]
    BY <1>1, <1>2
  <2>2. f \in [1..n -> 0..(m + 1)] /\ g \in [1..n -> 0..(m + 1)]
    BY DEF Profiles
  <2> QED
    BY <2>1, <2>2
<1>3. ASSUME NEW g \in T
      PROVE  \E f \in S : Raised(f) = g
  <2>1. /\ g \in [1..(n + 1) -> 0..(m + 1)] /\ g[n + 1] = m + 1
        /\ \A i, j \in 1..(n + 1) : i <= j => g[i] <= g[j]
    BY DEF Profiles, Topped
  <2>2. PICK f : f = [i \in 1..n |-> g[i]]
    OBVIOUS
  <2>3. \A i \in 1..n : i \in 1..(n + 1) /\ f[i] = g[i]
    BY <2>2
  <2>4. f \in S
    BY <2>1, <2>2, <2>3 DEF Profiles
  <2>5. Raised(f) = g
    <3>1. \A i \in 1..(n + 1) : (IF i = n + 1 THEN m + 1 ELSE f[i]) = g[i]
      <4>1. \A i \in 1..(n + 1) : i # n + 1 => i \in 1..n
        OBVIOUS
      <4> QED
        BY <2>1, <2>3, <4>1
    <3> QED
      BY <2>1, <3>1
  <2> QED
    BY <2>4, <2>5
<1>4. F \in [S -> T] /\ (\A f \in S : F[f] = Raised(f))
  BY <1>1
<1>5. F \in Bijection(S, T)
  <2> HIDE DEF F, Raised, S, T
  <2>1. \A f, g \in S : F[f] = F[g] => f = g
    BY <1>2, <1>4
  <2>2. \A g \in T : \E f \in S : F[f] = g
    BY <1>3, <1>4
  <2> QED
    BY <1>4, <2>1, <2>2, Fun_IsBij
<1> QED
  <2>1. ExistsBijection(S, T)
    BY <1>5 DEF ExistsBijection
  <2> QED
    BY <2>1, FS_Bijection

\* So they are counted as in Pascal's triangle.
Counted(n, m) ==
    /\ IsFiniteSet(Profiles(n, m))
    /\ Cardinality(Profiles(n, m)) * (factorial[n] * factorial[m]) = factorial[n + m]

LEMMA ProfilesCount == \A n, m \in Nat : Counted(n, m)
<1>1. ASSUME NEW k \in Nat
      PROVE  Counted(0, k) /\ Counted(k, 0)
  <2>1. factorial[k] \in Nat /\ factorial[0] = 1 /\ k + 0 = k /\ 0 + k = k
    BY FactorialFields
  <2>2. /\ IsFiniteSet(Profiles(0, k)) /\ Cardinality(Profiles(0, k)) = 1
        /\ IsFiniteSet(Profiles(k, 0)) /\ Cardinality(Profiles(k, 0)) = 1
    BY ProfilesBase, FS_Singleton
  <2> QED
    BY <2>1, <2>2 DEF Counted
<1>2. ASSUME NEW n \in Nat, NEW m \in Nat, Counted(n, m + 1), Counted(n + 1, m)
      PROVE  Counted(n + 1, m + 1)
  <2>1. PICK c \in Nat, d \in Nat :
           /\ c = Cardinality(Profiles(n, m + 1)) /\ d = Cardinality(Profiles(n + 1, m))
    BY <1>2, FS_CardinalityType DEF Counted
  <2>2. IsFiniteSet(Topped(n + 1, m + 1)) /\ Cardinality(Topped(n + 1, m + 1)) = c
    BY <1>2, <2>1, ToppedCount DEF Counted
  <2>3. /\ IsFiniteSet(Profiles(n + 1, m + 1))
        /\ Cardinality(Profiles(n + 1, m + 1)) = d + c
    <3> DEFINE S == Profiles(n + 1, m)
               T == Topped(n + 1, m + 1)
    <3>1. IsFiniteSet(S) /\ IsFiniteSet(T) /\ Cardinality(S) = d /\ Cardinality(T) = c
      BY <1>2, <2>1, <2>2 DEF Counted
    <3>2. Profiles(n + 1, m + 1) = S \cup T /\ S \cap T = {}
      BY ProfilesSplit
    <3> HIDE DEF S, T
    <3>3. /\ IsFiniteSet(S \cup T)
          /\ Cardinality(S \cup T) = Cardinality(S) + Cardinality(T) - Cardinality(S \cap T)
      BY <3>1, FS_Union
    <3> QED
      BY <3>1, <3>2, <3>3, FS_EmptySet
  <2>4. PICK fn \in Nat, fm \in Nat, f \in Nat :
           fn = factorial[n] /\ fm = factorial[m] /\ f = factorial[n + m + 1]
    <3>1. factorial[n] \in Nat /\ factorial[m] \in Nat /\ factorial[n + m + 1] \in Nat
      BY FactorialFields
    <3> QED
      BY <3>1
  <2>5. /\ factorial[n + 1] = (n + 1) * fn /\ factorial[m + 1] = (m + 1) * fm
        /\ factorial[(n + 1) + (m + 1)] = (n + m + 2) * f
    <3>1. (n + m + 1) + 1 = (n + 1) + (m + 1) /\ n + m + 1 \in Nat
          /\ (n + m + 1) + 1 = n + m + 2
      OBVIOUS
    <3> QED
      BY <2>4, <3>1, FactorialFields
  <2>6. c * (fn * ((m + 1) * fm)) = f /\ d * (((n + 1) * fn) * fm) = f
    <3>1. n + (m + 1) = n + m + 1 /\ (n + 1) + m = n + m + 1
      OBVIOUS
    <3> QED
      BY <1>2, <2>1, <2>4, <2>5, <3>1 DEF Counted
  <2>7. (d + c) * (((n + 1) * fn) * ((m + 1) * fm)) = (n + m + 2) * f
    <3>1. (d + c) * (((n + 1) * fn) * ((m + 1) * fm))
            = (m + 1) * (d * (((n + 1) * fn) * fm)) + (n + 1) * (c * (fn * ((m + 1) * fm)))
      OBVIOUS
    <3>2. (m + 1) * f + (n + 1) * f = (n + m + 2) * f
      OBVIOUS
    <3> QED
      BY <2>6, <3>1, <3>2
  <2> QED
    BY <2>3, <2>5, <2>7 DEF Counted
<1> DEFINE T == {s \in Nat : \A n, m \in Nat : n + m = s => Counted(n, m)}
<1>3. 0 \in T
  BY <1>1
<1>4. ASSUME NEW s \in Nat, s \in T
      PROVE  s + 1 \in T
  <2> SUFFICES ASSUME NEW n \in Nat, NEW m \in Nat, n + m = s + 1
               PROVE  Counted(n, m)
    OBVIOUS
  <2>1. CASE n # 0 /\ m # 0
    <3>1. PICK i \in Nat, j \in Nat : n = i + 1 /\ m = j + 1
      <4>1. n - 1 \in Nat /\ m - 1 \in Nat /\ n = (n - 1) + 1 /\ m = (m - 1) + 1
        BY <2>1
      <4> QED
        BY <4>1
    <3>2. i + (j + 1) = s /\ (i + 1) + j = s
      BY <3>1
    <3>3. Counted(i, j + 1) /\ Counted(i + 1, j)
      BY <1>4, <3>2
    <3> QED
      BY <1>2, <3>1, <3>3
  <2> QED
    BY <1>1, <2>1
<1>5. \A s \in Nat : s \in T
  <2> HIDE DEF T
  <2> QED
    BY <1>3, <1>4, Induction
<1> QED
  <2>1. ASSUME NEW n \in Nat, NEW m \in Nat
        PROVE  Counted(n, m)
    <3>1. n + m \in Nat
      OBVIOUS
    <3>2. n + m \in T
      <4> HIDE DEF T
      <4> QED
        BY <1>5, <3>1
    <3> QED
      BY <3>2
  <2> QED
    BY <2>1

\* As many as the binomial coefficient says.
LEMMA ProfilesChoose ==
    ASSUME NEW n \in Nat, NEW m \in Nat
    PROVE  /\ IsFiniteSet(Profiles(n, m))
           /\ Cardinality(Profiles(n, m)) = choose(n + m, m)
<1>1. PICK c \in Nat, p \in Nat, q \in Nat :
         /\ c = Cardinality(Profiles(n, m)) /\ p = factorial[n] /\ q = factorial[m]
         /\ p > 0 /\ q > 0 /\ c * (p * q) = factorial[n + m]
  <2>1. /\ IsFiniteSet(Profiles(n, m))
        /\ Cardinality(Profiles(n, m)) * (factorial[n] * factorial[m]) = factorial[n + m]
    BY ProfilesCount DEF Counted
  <2>2. Cardinality(Profiles(n, m)) \in Nat
    BY <2>1, FS_CardinalityType
  <2>3. /\ factorial[n] \in Nat /\ factorial[n] > 0
        /\ factorial[m] \in Nat /\ factorial[m] > 0
    BY FactorialFields
  <2> QED
    BY <2>1, <2>2, <2>3
<1>2. choose(n + m, m) = (c * (p * q)) \div (q * p)
  <2>1. (n + m) - m = n
    OBVIOUS
  <2> QED
    BY <1>1, <2>1 DEF choose
<1>3. p * q = q * p /\ q * p \in Nat /\ q * p > 0
  BY <1>1
<1>4. \A a, b \in Nat : b > 0 => (a * b) \div b = a
  OBVIOUS
<1>5. (c * (q * p)) \div (q * p) = c
  BY <1>3, <1>4
<1> QED
  BY <1>1, <1>2, <1>3, <1>5, ProfilesCount DEF Counted

-----------------------------------------------------------------------------
(* Requests that overlap: the bound on wrong passwords without a lock.     *)

\* The counts that a wrong password can leave without a lock are 0 to Levels.
Levels == MaxFailedAttempts - 1
Requests == Cardinality(Workers)

\* The count that a wrong password of the request would be counted from, unless
\* the operator's count rises before.
Basis(w) ==
    IF pc[w] = "verify" /\ copy[w].failedAttempts < user.failedAttempts
    THEN copy[w].failedAttempts ELSE user.failedAttempts

\* How many requests are below each level.
Profile == [k \in 1..Levels |-> Cardinality({w \in Workers : Basis(w) < k})]

\* Profiles are ordered by the lowest level at which they differ: fewer requests
\* below it are later.
Before(f, g) ==
    \E k \in 1..Levels : g[k] < f[k] /\ \A j \in 1..(k - 1) : f[j] = g[j]

Earlier(f) == {g \in Profiles(Levels, Requests) : Before(g, f)}

\* A lock is set before a count gets to the limit.
CountsInv ==
    /\ user.failedAttempts < MaxFailedAttempts
    /\ \A w \in Workers : pc[w] = "verify" => copy[w].failedAttempts < MaxFailedAttempts

\* Every wrong password has led to a later profile.
BoundInv ==
    /\ TypeOK /\ HasRead /\ CountsInv
    /\ wrong <= Cardinality(Earlier(Profile))

\* There are finitely many to count.
LEMMA EarlierFinite ==
    ASSUME NEW f
    PROVE  /\ IsFiniteSet(Earlier(f)) /\ Cardinality(Earlier(f)) \in Nat
           /\ Levels \in Nat /\ Requests \in Nat
<1>1. Levels \in Nat /\ Requests \in Nat
  BY PolicyAssumption, FS_CardinalityType DEF Levels, Requests
<1>2. IsFiniteSet(Profiles(Levels, Requests)) /\ Earlier(f) \in SUBSET Profiles(Levels, Requests)
  BY <1>1, ProfilesChoose DEF Earlier
<1>3. IsFiniteSet(Earlier(f))
  BY <1>2, FS_Subset
<1> QED
  BY <1>1, <1>3, FS_CardinalityType

\* The order is strict.
LEMMA BeforeIsAnOrder ==
    ASSUME NEW f \in Profiles(Levels, Requests), NEW g \in Profiles(Levels, Requests),
           NEW h \in Profiles(Levels, Requests)
    PROVE  /\ ~Before(f, f)
           /\ Before(f, g) /\ Before(g, h) => Before(f, h)
<1>1. Levels \in Nat /\ Requests \in Nat
  BY EarlierFinite
<1>2. \A k \in 1..Levels : f[k] \in Nat /\ g[k] \in Nat /\ h[k] \in Nat
  BY <1>1 DEF Profiles
<1>3. ~Before(f, f)
  BY <1>2 DEF Before
<1>4. ASSUME Before(f, g), Before(g, h)
      PROVE  Before(f, h)
  <2>1. PICK k \in 1..Levels : g[k] < f[k] /\ \A j \in 1..(k - 1) : f[j] = g[j]
    BY <1>4 DEF Before
  <2>2. PICK l \in 1..Levels : h[l] < g[l] /\ \A j \in 1..(l - 1) : g[j] = h[j]
    BY <1>4 DEF Before
  <2>3. CASE k <= l
    <3>1. h[k] <= g[k] /\ \A j \in 1..(k - 1) : j \in 1..(l - 1)
      BY <1>1, <1>2, <2>2, <2>3
    <3>2. h[k] < f[k] /\ \A j \in 1..(k - 1) : f[j] = h[j]
      BY <1>2, <2>1, <2>2, <3>1
    <3> QED
      BY <3>2 DEF Before
  <2>4. CASE l < k
    <3>1. l \in 1..(k - 1) /\ \A j \in 1..(l - 1) : j \in 1..(k - 1)
      BY <1>1, <2>4
    <3>2. h[l] < f[l] /\ \A j \in 1..(l - 1) : f[j] = h[j]
      BY <1>2, <2>1, <2>2, <3>1
    <3> QED
      BY <3>2 DEF Before
  <2> QED
    BY <1>1, <2>3, <2>4
<1> QED
  BY <1>3, <1>4

\* A later profile has more before it,
LEMMA EarlierGrows ==
    ASSUME NEW f \in Profiles(Levels, Requests), NEW g \in Profiles(Levels, Requests),
           Before(f, g)
    PROVE  Cardinality(Earlier(f)) + 1 <= Cardinality(Earlier(g))
<1>1. Earlier(f) \cup {f} \in SUBSET Earlier(g)
  BY BeforeIsAnOrder DEF Earlier
<1>2. f \notin Earlier(f)
  BY BeforeIsAnOrder DEF Earlier
<1>3. /\ IsFiniteSet(Earlier(f) \cup {f})
      /\ Cardinality(Earlier(f) \cup {f}) = Cardinality(Earlier(f)) + 1
  BY <1>2, EarlierFinite, FS_AddElement
<1>4. Cardinality(Earlier(f) \cup {f}) <= Cardinality(Earlier(g))
  BY <1>1, EarlierFinite, FS_Subset
<1> QED
  BY <1>3, <1>4

\* and one with nobody more below any level is not earlier.
LEMMA EarlierKept ==
    ASSUME NEW f \in Profiles(Levels, Requests), NEW g \in Profiles(Levels, Requests),
           \A k \in 1..Levels : g[k] <= f[k]
    PROVE  Cardinality(Earlier(f)) <= Cardinality(Earlier(g))
<1>1. Levels \in Nat /\ Requests \in Nat
      /\ Cardinality(Earlier(f)) \in Nat /\ Cardinality(Earlier(g)) \in Nat
  BY EarlierFinite
<1>2. f \in [1..Levels -> 0..Requests] /\ g \in [1..Levels -> 0..Requests]
  BY DEF Profiles
<1> DEFINE T == {k \in 1..Levels : f[k] # g[k]}
<1>3. CASE T = {}
  <2>1. \A k \in 1..Levels : f[k] = g[k]
    BY <1>3
  <2>2. /\ f = [k \in 1..Levels |-> f[k]] /\ g = [k \in 1..Levels |-> g[k]]
        /\ [k \in 1..Levels |-> f[k]] = [k \in 1..Levels |-> g[k]]
    BY <1>2, <2>1
  <2>3. f = g
    BY <2>2, Zenon
  <2> QED
    BY <1>1, <2>3
<1>4. CASE T # {}
  <2>1. PICK k \in T : \A j \in T : k <= j
    <3>1. T \subseteq Nat
      BY <1>1
    <3> HIDE DEF T
    <3> QED
      BY <1>4, <3>1, LeastNatural
  <2>2. g[k] < f[k] /\ k \in 1..Levels
    BY <1>1, <1>2
  <2>3. \A j \in 1..(k - 1) : f[j] = g[j]
    BY <1>1, <2>1, <2>2
  <2>4. Before(f, g)
    BY <2>2, <2>3 DEF Before
  <2> QED
    BY <1>1, <2>4, EarlierGrows
<1> QED
  BY <1>3, <1>4

\* The state's profile is a profile.
ProfileSound ==
    /\ \A w \in Workers : Basis(w) \in Nat
    /\ Profile \in Profiles(Levels, Requests)
    /\ \A k \in 1..Levels :
          Profile[k] = Cardinality({w \in Workers : Basis(w) < k})

\* It is in every state,
LEMMA ProfileIs == TypeOK /\ HasRead => ProfileSound
<1> SUFFICES ASSUME TypeOK, HasRead PROVE ProfileSound
  OBVIOUS
<1>1. Levels \in Nat /\ Requests \in Nat /\ IsFiniteSet(Workers)
  BY EarlierFinite, PolicyAssumption
<1>2. ASSUME NEW w \in Workers
      PROVE  Basis(w) \in Nat
  <2>1. user.failedAttempts \in Nat /\ (pc[w] = "verify" => copy[w].failedAttempts \in Nat)
    BY DEF TypeOK, HasRead, User
  <2> QED
    BY <2>1 DEF Basis
<1>3. ASSUME NEW k \in 1..Levels
      PROVE  /\ Profile[k] = Cardinality({w \in Workers : Basis(w) < k})
             /\ Profile[k] \in 0..Requests
  <2>1. {w \in Workers : Basis(w) < k} \in SUBSET Workers
    OBVIOUS
  <2>2. /\ Cardinality({w \in Workers : Basis(w) < k}) \in Nat
        /\ Cardinality({w \in Workers : Basis(w) < k}) <= Requests
    BY <1>1, <2>1, FS_Subset, FS_CardinalityType DEF Requests
  <2> QED
    BY <1>1, <2>2 DEF Profile
<1>4. ASSUME NEW i \in 1..Levels, NEW j \in 1..Levels, i <= j
      PROVE  Profile[i] <= Profile[j]
  <2>1. {w \in Workers : Basis(w) < i} \in SUBSET {w \in Workers : Basis(w) < j}
    BY <1>1, <1>2, <1>4
  <2>2. IsFiniteSet({w \in Workers : Basis(w) < j})
    BY <1>1, FS_Subset
  <2>3. Cardinality({w \in Workers : Basis(w) < i}) <= Cardinality({w \in Workers : Basis(w) < j})
    BY <2>1, <2>2, FS_Subset
  <2> QED
    BY <1>3, <2>3
<1>5. Profile \in [1..Levels -> 0..Requests]
  BY <1>3 DEF Profile
<1> QED
  BY <1>2, <1>3, <1>4, <1>5 DEF Profiles, ProfileSound

\* and in the next.
LEMMA ProfileIsPrimed == TypeOK' /\ HasRead' => ProfileSound'
BY ProfileIs, PTL

\* A step that does not count: no request falls back.
LEMMA UncountedStep ==
    ASSUME BoundInv, TypeOK', HasRead', CountsInv', wrong' = wrong,
           \A w \in Workers : Basis(w) <= Basis(w)'
    PROVE  BoundInv'
<1>1. ProfileSound /\ ProfileSound'
  BY ProfileIs, ProfileIsPrimed DEF BoundInv
<1>2. ASSUME NEW k \in 1..Levels
      PROVE  Profile'[k] <= Profile[k]
  <2>1. {w \in Workers : Basis(w)' < k} \in SUBSET {w \in Workers : Basis(w) < k}
    BY <1>1, EarlierFinite DEF ProfileSound
  <2>2. IsFiniteSet({w \in Workers : Basis(w) < k})
    BY PolicyAssumption, FS_Subset
  <2>3. Cardinality({w \in Workers : Basis(w)' < k}) <= Cardinality({w \in Workers : Basis(w) < k})
    BY <2>1, <2>2, FS_Subset
  <2> QED
    BY <1>1, <2>3 DEF ProfileSound
<1>3. Cardinality(Earlier(Profile)) <= Cardinality(Earlier(Profile'))
  BY <1>1, <1>2, EarlierKept DEF ProfileSound
<1>4. Earlier(Profile') = Earlier(Profile)'
  BY DEF Earlier, Before
<1>5. /\ wrong \in Nat /\ Cardinality(Earlier(Profile)) \in Nat
      /\ Cardinality(Earlier(Profile')) \in Nat
  BY EarlierFinite DEF BoundInv, TypeOK
<1> QED
  BY <1>3, <1>4, <1>5 DEF BoundInv

\* A step that counts: one request rises, and no other below it.
LEMMA CountedStep ==
    ASSUME BoundInv, TypeOK', HasRead', CountsInv', wrong' = wrong + 1,
           NEW w \in Workers, Basis(w) < Levels, Basis(w) < Basis(w)',
           \A v \in Workers :
              \/ Basis(v)' = Basis(v)
              \/ Basis(w) <= Basis(v) /\ Basis(w) < Basis(v)'
    PROVE  BoundInv'
<1>1. ProfileSound /\ ProfileSound'
  BY ProfileIs, ProfileIsPrimed DEF BoundInv
<1>2. PICK m \in Nat : m = Basis(w) /\ m + 1 \in 1..Levels
  BY <1>1, EarlierFinite DEF ProfileSound
<1>3. \A v \in Workers : /\ Basis(v) \in Nat /\ Basis(v)' \in Nat
                         /\ Basis(v)' = Basis(v) \/ (m <= Basis(v) /\ m < Basis(v)')
  BY <1>1, <1>2 DEF ProfileSound
<1>4. ASSUME NEW j \in 1..m
      PROVE  Profile[j] = Profile'[j]
  <2>1. \A v \in Workers : Basis(v)' < j <=> Basis(v) < j
    BY <1>2, <1>3
  <2>2. {v \in Workers : Basis(v)' < j} = {v \in Workers : Basis(v) < j}
    BY <2>1
  <2>3. j \in 1..Levels
    BY <1>2, EarlierFinite
  <2> QED
    BY <1>1, <2>2, <2>3 DEF ProfileSound
<1>5. Profile'[m + 1] < Profile[m + 1]
  <2> DEFINE S == {v \in Workers : Basis(v) < m + 1}
             T == {v \in Workers : Basis(v)' < m + 1}
  <2>1. IsFiniteSet(S) /\ w \in S
    BY <1>2, PolicyAssumption, FS_Subset
  <2>2. T \in SUBSET S /\ w \notin T
    BY <1>2, <1>3
  <2>3. Profile[m + 1] = Cardinality(S) /\ Profile'[m + 1] = Cardinality(T)
    BY <1>1, <1>2 DEF ProfileSound
  <2> HIDE DEF S, T
  <2>4. IsFiniteSet(T) /\ Cardinality(T) <= Cardinality(S) /\ Cardinality(T) # Cardinality(S)
    BY <2>1, <2>2, FS_Subset
  <2>5. Cardinality(T) \in Nat /\ Cardinality(S) \in Nat
    BY <2>1, <2>4, FS_CardinalityType
  <2> QED
    BY <2>3, <2>4, <2>5
<1>6. Before(Profile, Profile')
  <2>1. (m + 1) - 1 = m
    BY <1>2
  <2> QED
    BY <1>2, <1>4, <1>5, <2>1 DEF Before
<1>7. Cardinality(Earlier(Profile)) + 1 <= Cardinality(Earlier(Profile'))
  BY <1>1, <1>6, EarlierGrows DEF ProfileSound
<1>8. Earlier(Profile') = Earlier(Profile)'
  BY DEF Earlier, Before
<1>9. /\ wrong \in Nat /\ Cardinality(Earlier(Profile)) \in Nat
      /\ Cardinality(Earlier(Profile')) \in Nat
  BY EarlierFinite DEF BoundInv, TypeOK
<1> QED
  BY <1>7, <1>8, <1>9 DEF BoundInv

\* A step that starts the count afresh.
LEMMA FreshStep ==
    ASSUME TypeOK', HasRead', CountsInv', wrong' = 0
    PROVE  BoundInv'
<1>1. Cardinality(Earlier(Profile')) \in Nat
  BY EarlierFinite
<1>2. Earlier(Profile') = Earlier(Profile)'
  BY DEF Earlier, Before
<1> QED
  BY <1>1, <1>2 DEF BoundInv

\* Nothing is counted yet.
LEMMA InitBound == Init => BoundInv
<1> SUFFICES ASSUME Init PROVE BoundInv
  OBVIOUS
<1>1. CountsInv
  BY PolicyAssumption DEF Init, CountsInv
<1>2. wrong = 0 /\ Cardinality(Earlier(Profile)) \in Nat
  BY EarlierFinite DEF Init
<1> QED
  BY <1>1, <1>2, InitType DEF BoundInv

\* A wrong password counts or locks.  It is counted from the request's copy: the
\* request leaves its level, and those below it stay where they are.
LEMMA WrongPasswordBound ==
    ASSUME BoundInv, TypeOK', HasRead', NEW w \in Workers, WrongPassword(w)
    PROVE  BoundInv'
<1>1. /\ TypeOK /\ HasRead /\ CountsInv /\ pc \in [Workers -> Places]
      /\ pc[w] = "verify" /\ copy[w] \in User /\ copy' = copy
      /\ pc' = [pc EXCEPT ![w] = "denied"]
  BY DEF BoundInv, TypeOK, HasRead, WrongPassword
<1>2. PICK a \in Nat, b \in Nat, c \in Nat :
         /\ a = user.failedAttempts /\ b = user'.failedAttempts /\ c = copy[w].failedAttempts
  BY <1>1 DEF TypeOK, User
<1>3. MaxFailedAttempts \in Nat /\ a < MaxFailedAttempts /\ c < MaxFailedAttempts
  BY <1>1, <1>2, PolicyAssumption DEF CountsInv
<1>4. b = IF c + 1 >= MaxFailedAttempts THEN 0 ELSE c + 1
  <2>1. AfterFailure(copy[w]) \in User
    BY <1>1, WrittenIsUser
  <2>2. b = AfterFailure(copy[w]).failedAttempts
    BY <1>2, <2>1 DEF WrongPassword, Store, User
  <2> QED
    BY <1>1, <1>2, <2>2 DEF AfterFailure, ReachesLimit, User
<1>5. wrong' = IF c + 1 >= MaxFailedAttempts THEN 0 ELSE wrong + 1
  BY <1>2 DEF WrongPassword, ReachesLimit
<1>6. b < MaxFailedAttempts
  BY <1>3, <1>4, PolicyAssumption
<1>7. CountsInv'
  BY <1>1, <1>2, <1>6 DEF CountsInv
<1>8. CASE c + 1 >= MaxFailedAttempts
  BY <1>5, <1>7, <1>8, FreshStep
<1>9. CASE c + 1 < MaxFailedAttempts
  <2>1. b = c + 1 /\ wrong' = wrong + 1
    BY <1>3, <1>4, <1>5, <1>9
  <2>2. /\ Basis(w) = IF c < a THEN c ELSE a
        /\ Basis(w)' = b
    BY <1>1, <1>2 DEF Basis
  <2>3. Basis(w) < Levels /\ Basis(w) < Basis(w)'
    BY <1>3, <1>9, <2>1, <2>2 DEF Levels
  <2>4. ASSUME NEW v \in Workers
        PROVE  \/ Basis(v)' = Basis(v)
               \/ Basis(w) <= Basis(v) /\ Basis(w) < Basis(v)'
    <3>1. CASE v = w
      BY <2>2, <2>3, <3>1
    <3>2. CASE v # w /\ pc[v] = "verify"
      <4>1. PICK d \in Nat : d = copy[v].failedAttempts
        BY <1>1, <3>2 DEF HasRead, User
      <4>2. /\ Basis(v) = IF d < a THEN d ELSE a
            /\ Basis(v)' = IF d < b THEN d ELSE b
        BY <1>1, <1>2, <3>2, <4>1 DEF Basis
      <4> QED
        BY <2>1, <2>2, <4>2
    <3>3. CASE v # w /\ pc[v] # "verify"
      <4>1. Basis(v) = a /\ Basis(v)' = b
        BY <1>1, <1>2, <3>3 DEF Basis
      <4> QED
        BY <2>1, <2>2, <4>1
    <3> QED
      BY <3>1, <3>2, <3>3
  <2> QED
    BY <1>7, <2>1, <2>3, <2>4, CountedStep
<1> QED
  BY <1>3, <1>8, <1>9

\* Every step is one of the three.
LEMMA NextBound == BoundInv /\ [Next]_vars => BoundInv'
<1> SUFFICES ASSUME BoundInv, [Next]_vars
             PROVE  BoundInv'
  OBVIOUS
<1>t. /\ TypeOK /\ HasRead /\ CountsInv /\ TypeOK' /\ HasRead'
      /\ pc \in [Workers -> Places] /\ copy \in [Workers -> User \cup {Null}]
      /\ user.failedAttempts \in Nat
      /\ \A w \in Workers : pc[w] = "verify" => copy[w].failedAttempts \in Nat
  BY TypeStep DEF BoundInv, TypeOK, HasRead, User
<1>1. ASSUME NEW w \in Workers, Find(w)
      PROVE  BoundInv'
  <2>1. /\ user' = user /\ wrong' = wrong /\ pc[w] = "idle" /\ copy'[w] = user
        /\ \A v \in Workers : v # w => pc'[v] = pc[v] /\ copy'[v] = copy[v]
    BY <1>t, <1>1 DEF Find
  <2>2. CountsInv' /\ \A v \in Workers : Basis(v) <= Basis(v)'
    BY <1>t, <2>1 DEF CountsInv, Basis
  <2> QED
    BY <1>t, <2>1, <2>2, UncountedStep
<1>2. ASSUME NEW w \in Workers, WrongPassword(w)
      PROVE  BoundInv'
  BY <1>t, <1>2, WrongPasswordBound
<1>3. ASSUME NEW w \in Workers, RightPassword(w)
      PROVE  BoundInv'
  <2>1. user'.failedAttempts = 0 /\ wrong' = 0
    <3>1. copy[w] \in User
      BY <1>t, <1>3 DEF RightPassword, HasRead
    <3> QED
      BY <1>3, <3>1 DEF RightPassword, Store, AfterSuccess, User
  <2>2. CountsInv'
    BY <1>t, <1>3, <2>1, PolicyAssumption DEF RightPassword, CountsInv
  <2> QED
    BY <1>t, <2>1, <2>2, FreshStep
<1>4. ASSUME NEW w \in Workers, Answer(w) \/ Crash(w)
      PROVE  BoundInv'
  <2>1. /\ user' = user /\ wrong' = wrong /\ pc'[w] = "idle"
        /\ \A v \in Workers : v # w => pc'[v] = pc[v] /\ copy'[v] = copy[v]
    BY <1>t, <1>4 DEF Answer, Crash
  <2>2. CountsInv' /\ \A v \in Workers : Basis(v) <= Basis(v)'
    BY <1>t, <2>1 DEF CountsInv, Basis
  <2> QED
    BY <1>t, <2>1, <2>2, UncountedStep
<1>5. CASE Deactivate \/ Tick \/ UNCHANGED vars
  <2>1. /\ user'.failedAttempts = user.failedAttempts
        /\ pc' = pc /\ copy' = copy /\ wrong' = wrong
    BY <1>t, <1>5 DEF Deactivate, Tick, vars, TypeOK, User
  <2>2. CountsInv' /\ \A v \in Workers : Basis(v) <= Basis(v)'
    BY <1>t, <2>1 DEF CountsInv, Basis
  <2> QED
    BY <1>t, <2>1, <2>2, UncountedStep
<1> QED
  BY <1>1, <1>2, <1>3, <1>4, <1>5 DEF Next

\* However many requests overwrite one another's counts, whatever the limit, and
\* whenever processes die, wrong passwords lock the operator in the end.
THEOREM Undercount == Spec => []UndercountBounded
<1>1. Spec => []BoundInv
  BY InitBound, NextBound, PTL DEF Spec
<1>2. BoundInv => UndercountBounded
  <2> SUFFICES ASSUME BoundInv PROVE UndercountBounded
    OBVIOUS
  <2>1. Profile \in Profiles(Levels, Requests)
    BY ProfileIs DEF BoundInv, ProfileSound
  <2>2. Levels \in Nat /\ Requests \in Nat /\ Cardinality(Earlier(Profile)) \in Nat
        /\ IsFiniteSet(Profiles(Levels, Requests))
    BY EarlierFinite, ProfilesChoose
  <2>3. Earlier(Profile) \in SUBSET Profiles(Levels, Requests)
        /\ Profile \notin Earlier(Profile)
    BY <2>1, BeforeIsAnOrder DEF Earlier
  <2>4. /\ Cardinality(Earlier(Profile)) <= Cardinality(Profiles(Levels, Requests))
        /\ Cardinality(Earlier(Profile)) # Cardinality(Profiles(Levels, Requests))
    BY <2>1, <2>2, <2>3, FS_Subset
  <2>5. Cardinality(Profiles(Levels, Requests)) \in Nat /\ wrong \in Nat
    BY <2>2, FS_CardinalityType DEF BoundInv, TypeOK
  <2>6. wrong < Cardinality(Profiles(Levels, Requests))
    BY <2>2, <2>4, <2>5 DEF BoundInv
  <2>7. Cardinality(Profiles(Levels, Requests)) = choose(Levels + Requests, Requests)
    BY <2>2, ProfilesChoose
  <2>8. Levels + Requests = MaxFailedAttempts + Requests - 1
    BY <2>2, PolicyAssumption DEF Levels
  <2> QED
    BY <2>6, <2>7, <2>8 DEF UndercountBounded, Requests
<1> QED
  BY <1>1, <1>2, PTL

=============================================================================
