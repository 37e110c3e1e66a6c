------------------------------ MODULE MCTestd -------------------------------
(***************************************************************************)
(* Instances of Testd: one execution under many faults, and two dependent  *)
(* executions under few.                                                   *)
(***************************************************************************)
EXTENDS Testd, TLC

CONSTANTS a, b, a1, b1

OneName == {a}
OneRow == {a1}
OneNameOf == a1 :> a
OneDeps == a :> {}

TwoNames == {a, b}
TwoRows == {a1, b1}
TwoNameOf == (a1 :> a) @@ (b1 :> b)
TwoDeps == (a :> {}) @@ (b :> {a})
=============================================================================
