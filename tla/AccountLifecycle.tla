-------------------------- MODULE AccountLifecycle --------------------------
(***************************************************************************)
(* What the account API promises about one account's life, whatever the    *)
(* number of requests in flight: it opens ACTIVE, moves between the three  *)
(* mutable statuses, is closed once and only when empty, and is erased     *)
(* only after it was closed.  Nothing leaves CLOSED but erasure, and an    *)
(* erased id never comes back (README.md, "What it does").                 *)
(***************************************************************************)
EXTENDS Integers

CONSTANTS Ids, Deposits

VARIABLES phase, funds

vars == <<phase, funds>>

Live == {"ACTIVE", "DORMANT", "FROZEN"}

Phases == {"NEW", "CLOSED", "ERASED"} \cup Live

TypeOK ==
    /\ phase \in [Ids -> Phases]
    /\ funds \in [Ids -> Deposits \cup {0}]

Init ==
    /\ phase = [id \in Ids |-> "NEW"]
    /\ funds = [id \in Ids |-> 0]

Open(id) ==
    /\ phase[id] = "NEW"
    /\ phase' = [phase EXCEPT ![id] = "ACTIVE"]
    /\ \E deposit \in Deposits : funds' = [funds EXCEPT ![id] = deposit]

Restate(id) ==
    /\ phase[id] \in Live
    /\ \E status \in Live : phase' = [phase EXCEPT ![id] = status]
    /\ UNCHANGED funds

Close(id) ==
    /\ phase[id] \in Live
    /\ funds[id] = 0
    /\ phase' = [phase EXCEPT ![id] = "CLOSED"]
    /\ UNCHANGED funds

Erase(id) ==
    /\ phase[id] = "CLOSED"
    /\ phase' = [phase EXCEPT ![id] = "ERASED"]
    /\ UNCHANGED funds

Next ==
    \E id \in Ids : Open(id) \/ Restate(id) \/ Close(id) \/ Erase(id)

Spec == Init /\ [][Next]_vars
=============================================================================
