------------------------------ MODULE RunState ------------------------------
(***************************************************************************)
(* The states of a governed test run and of its targets, and the pure part *)
(* of the run reconciliation of universal_test_store.py.                   *)
(*                                                                         *)
(* A run holds one row per (target name, shard).  The rows of one run are  *)
(* a function ts : Row -> state, "none" for a row the run did not select.  *)
(***************************************************************************)

CONSTANTS
    Row,        \* every (target name, shard) pair a plan can select
    Name,       \* target names of the manifest
    NameOf,     \* the target name of a row
    Deps        \* exact dependencies of a target name

ASSUME NameOfAssumption ==
    /\ NameOf \in [Row -> Name]
    /\ \A n \in Name : \E x \in Row : NameOf[x] = n
\* The planner orders targets in dependency waves, so no set of names waits
\* on itself.
ASSUME DepsAssumption ==
    /\ Deps \in [Name -> SUBSET Name]
    /\ \A S \in SUBSET Name : S # {} => \E n \in S : Deps[n] \cap S = {}

ActiveRunStates == {"queued", "running", "cancelling"}
TerminalRunStates ==
    {"succeeded", "failed", "timed_out", "cancelled", "incomplete"}

ActiveTargetStates == {"starting", "running", "stopping"}
TerminalTargetStates ==
    {"succeeded", "test_failed", "infrastructure_failed", "timed_out",
     "cancelled", "incomplete"}
UnfinishedTargetStates == ActiveTargetStates \cup {"queued"}

RunStates == ActiveRunStates \cup TerminalRunStates \cup {"none"}
TargetStates == UnfinishedTargetStates \cup TerminalTargetStates \cup {"none"}

RowsOf(ts) == {x \in Row : ts[x] # "none"}
NamesOf(ts) == {NameOf[x] : x \in RowsOf(ts)}

\* The dependencies retained with a row: the plan's, restricted to the names
\* the run selected (a plan is dependency closed; a retry is projected).
ExactDependencies(ts, n) == Deps[n] \cap NamesOf(ts)

\* Every shard of every exact dependency of row x has succeeded.
TargetDependenciesSucceeded(ts, x) ==
    \A y \in RowsOf(ts) :
        NameOf[y] \in ExactDependencies(ts, NameOf[x]) => ts[y] = "succeeded"

\* Mutant: a cancellation concludes executing rows instead of stopping them.
CancelledRowsAtOnce(ts) ==
    [x \in Row |-> IF ts[x] \in UnfinishedTargetStates THEN "cancelled"
                   ELSE ts[x]]

\* What request_cancel does to each row before it reconciles the run.
CancelledRows(ts) ==
    [x \in Row |-> CASE ts[x] = "queued" -> "cancelled"
                     [] ts[x] \in {"starting", "running"} -> "stopping"
                     [] OTHER -> ts[x]]

(***************************************************************************)
(* _reconcile_run                                                          *)
(***************************************************************************)
FailedRows(ts) ==
    {x \in Row : ts[x] \in TerminalTargetStates \ {"succeeded"}}

\* The closure the while loop computes: the least set of names that holds
\* the unavailable ones and every name depending on a member.
DependentsClosed(ts, S) ==
    \A n \in NamesOf(ts) : ExactDependencies(ts, n) \cap S # {} => n \in S

\* Mutant: one pass instead of the loop to a fixed point.
CancelledDirectDependents(ts) ==
    LET unavailable == {NameOf[x] : x \in FailedRows(ts)}
    IN  {n \in NamesOf(ts) \ unavailable :
            ExactDependencies(ts, n) \cap unavailable # {}}

CancelledDependents(ts) ==
    LET unavailable == {NameOf[x] : x \in FailedRows(ts)}
    IN  {n \in NamesOf(ts) \ unavailable :
            \A S \in SUBSET NamesOf(ts) :
                unavailable \subseteq S /\ DependentsClosed(ts, S) => n \in S}

CancelQueued(ts, names) ==
    [x \in Row |-> IF ts[x] = "queued" /\ NameOf[x] \in names
                   THEN "cancelled" ELSE ts[x]]

ReconciledRows(rs, ts) ==
    IF rs = "cancelling" THEN ts ELSE CancelQueued(ts, CancelledDependents(ts))

\* Mutant: a target conclusion is used as the run's.
DominantTargetState(states) ==
    IF "infrastructure_failed" \in states THEN "failed"
    ELSE IF "timed_out" \in states THEN "timed_out"
    ELSE IF "incomplete" \in states THEN "incomplete"
    ELSE IF "test_failed" \in states THEN "test_failed"
    ELSE "cancelled"

\* Precedence of target failures in the run's conclusion.
DominantFailure(states) ==
    IF "infrastructure_failed" \in states THEN "failed"
    ELSE IF "timed_out" \in states THEN "timed_out"
    ELSE IF "incomplete" \in states THEN "incomplete"
    ELSE IF "test_failed" \in states THEN "failed"
    ELSE "cancelled"

\* Mutant: a failed run is concluded while independent rows are queued.
ReconciledRunEarly(rs, ts) ==
    LET executing == \E x \in Row : ts[x] \in ActiveTargetStates
        states == {ts[x] : x \in Row}
    IN  IF executing THEN rs
        ELSE IF rs = "cancelling" THEN "cancelled"
        ELSE IF FailedRows(ts) # {} THEN DominantFailure(states)
        ELSE IF RowsOf(ts) # {} /\ \A x \in RowsOf(ts) : ts[x] = "succeeded"
        THEN "succeeded"
        ELSE rs

\* The run's state after reconciling rows ts (the rows already reconciled).
ReconciledRun(rs, ts) ==
    LET unfinished(S) == \E x \in Row : ts[x] \in S
        states == {ts[x] : x \in Row}
    IN  IF rs = "cancelling"
        THEN IF unfinished(ActiveTargetStates) THEN rs ELSE "cancelled"
        ELSE IF FailedRows(ts) # {}
        THEN IF unfinished(UnfinishedTargetStates)
             THEN rs ELSE DominantFailure(states)
        ELSE IF RowsOf(ts) # {} /\ \A x \in RowsOf(ts) : ts[x] = "succeeded"
        THEN "succeeded"
        ELSE rs

(***************************************************************************)
(* The abstraction of a run and of its rows to RunContract                 *)
(***************************************************************************)
VerdictFor(rs) ==
    CASE rs = "none" -> "absent"
      [] rs \in ActiveRunStates -> "open"
      [] rs = "succeeded" -> "passed"
      [] OTHER -> "failed"

SlotsFor(ts) ==
    [x \in Row |-> CASE ts[x] = "none" -> "absent"
                     [] ts[x] = "queued" -> "waiting"
                     [] ts[x] \in ActiveTargetStates -> "held"
                     [] ts[x] = "succeeded" -> "passed"
                     [] OTHER -> "failed"]
=============================================================================
