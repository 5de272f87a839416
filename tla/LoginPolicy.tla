---------------------------- MODULE LoginPolicy ----------------------------
(***************************************************************************)
(* The lockout policy as the controls state it, one attempt at a time:     *)
(* MaxFailedAttempts wrong passwords in a row lock the operator's account  *)
(* for LockFor units of time, a right one starts the count afresh, and     *)
(* while the lock stands nothing changes.                                  *)
(***************************************************************************)
EXTENDS Integers

CONSTANTS MaxFailedAttempts, LockFor, Null

VARIABLES failures, lockedUntil, now

vars == <<failures, lockedUntil, now>>

Locked == lockedUntil # Null /\ lockedUntil > now

Init ==
    /\ failures = 0
    /\ lockedUntil = Null
    /\ now = 0

Fail ==
    /\ ~Locked
    /\ failures + 1 < MaxFailedAttempts
    /\ failures' = failures + 1
    /\ UNCHANGED <<lockedUntil, now>>

FailAndLock ==
    /\ ~Locked
    /\ failures + 1 = MaxFailedAttempts
    /\ failures' = 0
    /\ lockedUntil' = now + LockFor
    /\ UNCHANGED now

Succeed ==
    /\ ~Locked
    /\ failures' = 0
    /\ lockedUntil' = Null
    /\ UNCHANGED now

Tick ==
    /\ now' = now + 1
    /\ UNCHANGED <<failures, lockedUntil>>

Next == Fail \/ FailAndLock \/ Succeed \/ Tick

Spec == Init /\ [][Next]_vars
=============================================================================
