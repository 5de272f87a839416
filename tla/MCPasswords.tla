---------------------------- MODULE MCPasswords ----------------------------
(***************************************************************************)
(* Instances of Passwords for TLC.                                         *)
(***************************************************************************)
EXTENDS Passwords, TLC

\* Passwords, requests and seed runs are only compared.
Interchangeable == Permutations(Passwords) \cup Permutations(Workers) \cup Permutations(Seeds)
=============================================================================
