-------------------------- MODULE OperationPromise --------------------------
(***************************************************************************)
(* What the broker promises about an operation id, whatever threads,       *)
(* retries, evictions and restarts lie behind it: the operation is opened  *)
(* once, reaches the host at most once and only while it is open, may be   *)
(* put in doubt, and is settled once and for all.                          *)
(***************************************************************************)
EXTENDS Naturals

CONSTANT Ops

VARIABLES status, effects

vars == <<status, effects>>

Init == /\ status = [o \in Ops |-> "none"]
        /\ effects = [o \in Ops |-> 0]

Open(o) == /\ status[o] = "none"
           /\ status' = [status EXCEPT ![o] = "running"]
           /\ UNCHANGED effects

(* The only step that reaches the host. *)
Perform(o) == /\ status[o] = "running" /\ effects[o] = 0
              /\ effects' = [effects EXCEPT ![o] = 1]
              /\ UNCHANGED status

(* A restart puts every open operation of a group in doubt together. *)
Doubt(S) == /\ \A o \in S : status[o] = "running"
            /\ status' = [o \in Ops |-> IF o \in S THEN "attention" ELSE status[o]]
            /\ UNCHANGED effects

Settle(o) == /\ status[o] \in {"running", "attention"}
             /\ \E s \in {"succeeded", "failed"} : status' = [status EXCEPT ![o] = s]
             /\ UNCHANGED effects

Next == \/ \E o \in Ops : Open(o) \/ Perform(o) \/ Settle(o)
        \/ \E S \in (SUBSET Ops) \ {{}} : Doubt(S)

Spec == Init /\ [][Next]_vars
=============================================================================
