------------------------------- MODULE Login -------------------------------
(***************************************************************************)
(* login() of the auth service, for one operator whose credentials several *)
(* requests try at once.                                                   *)
(*                                                                         *)
(* The handler reads the user document, awaits scrypt, and then writes     *)
(* values it computed from the copy it read: findByEmailIndex and          *)
(* updateById are a read and a later write, with no version check between  *)
(* them.  What follows a successful write - the session and the tokens -   *)
(* is in Sessions; changePassword's $set names other fields than login's,  *)
(* so it is left out here.                                                 *)
(*                                                                         *)
(* wrong and wrongSince are auxiliary: they count what happened, the code  *)
(* does not store them.                                                    *)
(***************************************************************************)
EXTENDS Integers, FiniteSets, Combinatorics

CONSTANTS
    Workers,            \* requests that may be in flight at the same time
    MaxFailedAttempts,  \* config.auth.maxFailedAttempts: 3
    LockFor,            \* config.auth.lockoutMinutes, in units of the clock
    MaxTime,            \* bound: the clock stops here
    MaxWrong,           \* bound: wrong passwords tried since the last login
    Crashes,            \* TRUE: a process may die with a request in flight
    Null

ASSUME PolicyAssumption ==
    /\ MaxFailedAttempts \in Nat \ {0}
    /\ LockFor \in Nat \ {0}
    /\ IsFiniteSet(Workers)
    /\ Null \notin Int

ASSUME BoundsAssumption == MaxTime \in Nat /\ MaxWrong \in Nat /\ Crashes \in BOOLEAN

VARIABLES
    user,        \* the document's login fields
    now,         \* the clock every process reads
    pc,          \* where each request is
    copy,        \* the `user` each request has read
    wrong,       \* wrong passwords since the account was last locked or entered
    wrongSince   \* wrong passwords since the last login

vars == <<user, now, pc, copy, wrong, wrongSince>>

User ==
    [failedAttempts : Nat, failedSinceLastLogin : Nat,
     lockedUntil : Nat \cup {Null}, isActive : BOOLEAN]

Places == {"idle", "verify", "locked", "deactivated", "denied", "entered"}

TypeOK ==
    /\ user \in User
    /\ now \in Nat
    /\ pc \in [Workers -> Places]
    /\ copy \in [Workers -> User \cup {Null}]
    /\ wrong \in Nat
    /\ wrongSince \in Nat

Init ==
    /\ user = [failedAttempts |-> 0, failedSinceLastLogin |-> 0,
               lockedUntil |-> Null, isActive |-> TRUE]
    /\ now = 0
    /\ pc = [w \in Workers |-> "idle"]
    /\ copy = [w \in Workers |-> Null]
    /\ wrong = 0
    /\ wrongSince = 0

-----------------------------------------------------------------------------
Locked(doc) == doc.lockedUntil # Null /\ doc.lockedUntil > now

\* Where a request goes with the user it has read.
Admission(doc) ==
    IF Locked(doc) THEN "locked"
    ELSE IF ~doc.isActive THEN "deactivated"
    ELSE "verify"

Find(w) ==
    /\ pc[w] = "idle"
    /\ copy' = [copy EXCEPT ![w] = user]
    /\ pc' = [pc EXCEPT ![w] = Admission(user)]
    /\ UNCHANGED <<user, now, wrong, wrongSince>>

\* A mutant: off by one.
ReachesLimitLate(doc) == doc.failedAttempts >= MaxFailedAttempts

\* shouldLock, from the copy.
ReachesLimit(doc) == doc.failedAttempts + 1 >= MaxFailedAttempts

\* A mutant: the counter shown at login is left alone.
AfterUncountedFailure(doc) ==
    [doc EXCEPT !.failedAttempts = IF ReachesLimit(doc) THEN 0 ELSE @ + 1,
                !.lockedUntil = IF ReachesLimit(doc) THEN now + LockFor ELSE @]

\* A mutant: the lock is dated back instead of ahead.
AfterFailureDatedBack(doc) ==
    [doc EXCEPT !.failedAttempts = IF ReachesLimit(doc) THEN 0 ELSE @ + 1,
                !.failedSinceLastLogin = @ + 1,
                !.lockedUntil = IF ReachesLimit(doc) THEN now - LockFor ELSE @]

\* The login fields written after a wrong password, all from the copy.
AfterFailure(doc) ==
    [doc EXCEPT !.failedAttempts = IF ReachesLimit(doc) THEN 0 ELSE @ + 1,
                !.failedSinceLastLogin = @ + 1,
                !.lockedUntil = IF ReachesLimit(doc) THEN now + LockFor ELSE @]

\* A mutant: the count survives the right password.
AfterSuccessStillCounted(doc) ==
    [doc EXCEPT !.failedSinceLastLogin = 0, !.lockedUntil = Null]

\* The login fields written after the right one.
AfterSuccess(doc) ==
    [doc EXCEPT !.failedAttempts = 0, !.failedSinceLastLogin = 0, !.lockedUntil = Null]

\* $set leaves the fields it does not name: isActive is the stored one.
Store(doc) == user' = [doc EXCEPT !.isActive = user.isActive]

WrongPassword(w) ==
    /\ pc[w] = "verify"
    /\ wrongSince < MaxWrong
    /\ Store(AfterFailure(copy[w]))
    /\ pc' = [pc EXCEPT ![w] = "denied"]
    /\ wrong' = IF ReachesLimit(copy[w]) THEN 0 ELSE wrong + 1
    /\ wrongSince' = wrongSince + 1
    /\ UNCHANGED <<now, copy>>

RightPassword(w) ==
    /\ pc[w] = "verify"
    /\ Store(AfterSuccess(copy[w]))
    /\ pc' = [pc EXCEPT ![w] = "entered"]
    /\ wrong' = 0
    /\ wrongSince' = 0
    /\ UNCHANGED <<now, copy>>

\* The audit entry is appended and the answer sent.
Answer(w) ==
    /\ pc[w] \notin {"idle", "verify"}
    /\ pc' = [pc EXCEPT ![w] = "idle"]
    /\ copy' = [copy EXCEPT ![w] = Null]
    /\ UNCHANGED <<user, now, wrong, wrongSince>>

Crash(w) ==
    /\ Crashes
    /\ pc[w] # "idle"
    /\ pc' = [pc EXCEPT ![w] = "idle"]
    /\ copy' = [copy EXCEPT ![w] = Null]
    /\ UNCHANGED <<user, now, wrong, wrongSince>>

\* External: an administrator deactivates the operator in the database.
Deactivate ==
    /\ user.isActive
    /\ user' = [user EXCEPT !.isActive = FALSE]
    /\ UNCHANGED <<now, pc, copy, wrong, wrongSince>>

Tick ==
    /\ now < MaxTime
    /\ now' = now + 1
    /\ UNCHANGED <<user, pc, copy, wrong, wrongSince>>

Next ==
    \/ \E w \in Workers : Find(w) \/ WrongPassword(w) \/ RightPassword(w)
                            \/ Answer(w) \/ Crash(w)
    \/ Deactivate
    \/ Tick

Spec == Init /\ [][Next]_vars

-----------------------------------------------------------------------------
(* Properties.                                                             *)

Policy ==
    INSTANCE LoginPolicy WITH
        failures <- user.failedAttempts, lockedUntil <- user.lockedUntil

\* One attempt at a time, login implements the lockout policy, whenever the
\* process dies and however the clock moves.
ImplementsPolicy == Policy!Spec

\* The answer to a login tells the operator exactly how many wrong passwords
\* were tried since the last login ("Inform the user of last successful login
\* and failed attempts since", auth.service.js).
FailuresReported ==
    [][\A w \in Workers :
          pc[w] = "verify" /\ pc'[w] = "entered"
              => copy[w].failedSinceLastLogin = wrongSince]_vars

\* README.md, "Authentication": three failed attempts lock the account.  So
\* many wrong passwords are never tried without a lock or a login between.
LocksAfterLimit == wrong < MaxFailedAttempts

\* What the unguarded counter is still good for: W requests that overwrite one
\* another's counts postpone the lock, but not for ever.  At most
\* choose(limit + W - 1, W) - 1 wrong passwords go by without a lock or a
\* login between - two of three with one request at a time, five with two.
UndercountBounded ==
    LET w == Cardinality(Workers)
    IN wrong < choose(MaxFailedAttempts + w - 1, w)

\* user.model.js, "Lock account after 3 failed attempts": once set, the lock
\* stands until it expires.
LockStands ==
    [][Locked(user) => user'.lockedUntil # Null /\ user'.lockedUntil >= user.lockedUntil]_vars
=============================================================================
