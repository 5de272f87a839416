----------------------------- MODULE MCBrowser -----------------------------
(***************************************************************************)
(* Instances of Browser for TLC.                                           *)
(***************************************************************************)
EXTENDS Browser, TLC

CONSTANTS t1, t2, a1, a2, a3

\* One tab with two calls at once, next to a tab with one.
TwoAndOne == (a1 :> t1) @@ (a2 :> t1) @@ (a3 :> t2)

Interchangeable == Permutations({a1, a2})
=============================================================================
