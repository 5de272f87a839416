----------------------------- MODULE MCSessions -----------------------------
(***************************************************************************)
(* Instances of Sessions for TLC.                                          *)
(***************************************************************************)
EXTENDS Sessions, TLC

\* Tokens and requests are only compared: permuting them permutes behaviours.
Interchangeable == Permutations(Tokens) \cup Permutations(Workers)
=============================================================================
