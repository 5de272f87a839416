----------------------------- MODULE MCAccounts -----------------------------
(***************************************************************************)
(* Instances of Accounts for TLC.                                          *)
(***************************************************************************)
EXTENDS Accounts, TLC

CONSTANTS c1, c2

\* Clients that learn of documents from the answers to their own writes.
AllButReads == Ops \ Reads

\* A number is taken, and freed by the erasure of its account.
Retiring == {"create", "close", "purge"}

\* Two operators with every permission.
TwoAdmins == [c \in Clients |-> "admin"]

\* An admin next to an operator who may not close or purge.
AdminAndOfficer == (c1 :> "admin") @@ (c2 :> "officer")

\* Ids and numbers are interchangeable, and clients of one role are.
IdsAndNumbers == Permutations(Ids) \cup Permutations(Numbers)

Interchangeable == IdsAndNumbers \cup Permutations(Clients)
=============================================================================
