---------------------------- MODULE MCTestStore -----------------------------
(***************************************************************************)
(* Instances of TestStore: a dependency chain under every conclusion, and   *)
(* sequences of operations over a sharded target.                          *)
(***************************************************************************)
EXTENDS TestStore, TLC

CONSTANTS a, b, c, a1, a2, b1, c1

OpSymmetry == Permutations(Op)

AllClaims == TerminalTargetStates
Clean == [complete |-> TRUE, failed |-> FALSE]
Failing == [complete |-> TRUE, failed |-> TRUE]

\* a (two shards) <- b <- c, and every claim.
ChainNames == {a, b, c}
ChainRows == {a1, a2, b1, c1}
ChainNameOf == (a1 :> a) @@ (a2 :> a) @@ (b1 :> b) @@ (c1 :> c)
ChainDeps == (a :> {}) @@ (b :> {a}) @@ (c :> {b})
ChainPlans == {{a, b, c}}
ChainRequired == {a, c}
ChainPackages == {Clean, Failing, NoPackage}

\* a (two shards) and an independent b; many operations, few conclusions.
ShardNames == {a, b}
ShardRows == {a1, a2, b1}
ShardNameOf == (a1 :> a) @@ (a2 :> a) @@ (b1 :> b)
ShardDeps == (a :> {}) @@ (b :> {})
ShardPlans == {{a}, {a, b}, {}}
ShardRequired == {a}
ShardPackages == {Clean, Failing}
ShardClaims == {"succeeded", "test_failed"}
=============================================================================
